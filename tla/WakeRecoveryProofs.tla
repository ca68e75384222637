------------------------- MODULE WakeRecoveryProofs -------------------------
(***************************************************************************)
(* The recovery of a run by the Wake Light coordinator, and the lease      *)
(* behind its holds, for every value of the constants.  While PBL does not *)
(* grant a recovery the coordinator retries it, has the timer of the next  *)
(* retry when it sleeps, and gives up with the lease or with the catch-up  *)
(* of the run's alarms.  Unless it was restarted, no run holds longer than *)
(* its lease, and no command is below a light that was observed.           *)
(***************************************************************************)
EXTENDS WakeCoordinatorProofs

-----------------------------------------------------------------------------
(***************************************************************************)
(* The order of the stages.  Once a handler has looked at the pending      *)
(* recovery it does not come back to it, and while the coordinator listens *)
(* no handler stores the state on the way down.                            *)
(***************************************************************************)
Pre == {"reconcile", "pending"}
Late == {"reconcile", "pending", "reacquired", "active", "merged", "complete", "completed",
         "begin", "started", "dispatch", "decide", "send", "finish", "save"}

Ahead(s, stops) ==
    /\ s \in Seq(StageNames)
    /\ \A i, j \in 1 .. Len(s) : i < j /\ s[i] \in Late => s[j] \notin Pre
    /\ ~stops => "persist" \notin StagesOf(s)

\* What follows the first stage; nothing follows a late one that comes before.
LEMMA AheadRest ==
    ASSUME NEW s, NEW stops, Ahead(s, stops), s # <<>>
    PROVE  /\ Ahead(Tail(s), stops)
           /\ Head(s) \in Late => StagesOf(Tail(s)) \cap Pre = {}
<1> DEFINE t == Tail(s)
<1>1. /\ Len(s) \in Nat \ {0} /\ Head(s) = s[1] /\ t \in Seq(StageNames)
      /\ Len(t) = Len(s) - 1
      /\ \A i \in 1 .. Len(t) : t[i] = s[i + 1]
  BY HeadTailProperties, EmptySeq, LenProperties DEF Ahead
<1> HIDE DEF t
<1>2. ASSUME NEW i \in 1 .. Len(t), NEW j \in 1 .. Len(t), i < j, t[i] \in Late
      PROVE  t[j] \notin Pre
  <2>1. i + 1 \in 1 .. Len(s) /\ j + 1 \in 1 .. Len(s) /\ i + 1 < j + 1
    BY <1>1, <1>2
  <2> QED  BY <1>1, <1>2, <2>1 DEF Ahead
<1>3. ASSUME NEW x \in StagesOf(t) PROVE x \in StagesOf(s) /\ (s[1] \in Late => x \notin Pre)
  <2>1. PICK i \in 1 .. Len(t) : x = t[i]
    BY <1>3 DEF StagesOf
  <2>2. i + 1 \in 1 .. Len(s) /\ 1 \in 1 .. Len(s) /\ 1 < i + 1 /\ x = s[i + 1]
    BY <1>1, <2>1
  <2> QED  BY <2>2 DEF StagesOf, Ahead
<1>4. ~stops => "persist" \notin StagesOf(t)
  BY <1>3 DEF Ahead
<1> QED  BY <1>1, <1>2, <1>3, <1>4 DEF Ahead, t

\* A stage in front of them.
LEMMA AheadMore ==
    ASSUME NEW s, NEW stops, Ahead(s, stops), NEW a \in StageNames, a # "persist",
           a \notin Late \/ StagesOf(s) \cap Pre = {}
    PROVE  Ahead(<<a>> \o s, stops)
<1> DEFINE t == <<a>> \o s
<1>1. /\ t \in Seq(StageNames) /\ Len(t) = 1 + Len(s) /\ Len(s) \in Nat /\ t[1] = a
      /\ \A i \in 2 .. Len(t) : t[i] = s[i - 1]
  <2>1. s \in Seq(StageNames) /\ <<a>> \in Seq(StageNames) /\ Len(<<a>>) = 1 /\ <<a>>[1] = a
    BY DEF Ahead
  <2>2. /\ t \in Seq(StageNames) /\ Len(t) = 1 + Len(s) /\ Len(s) \in Nat
        /\ \A i \in 1 .. Len(t) : t[i] = IF i <= 1 THEN <<a>>[i] ELSE s[i - 1]
    BY <2>1, ConcatProperties, LenProperties
  <2> HIDE DEF t
  <2> QED  BY <2>1, <2>2
<1>2. StagesOf(t) = {a} \cup StagesOf(s)
  BY StagesOfOne DEF Ahead
<1> HIDE DEF t
<1>3. ASSUME NEW i \in 1 .. Len(t), NEW j \in 1 .. Len(t), i < j, t[i] \in Late
      PROVE  t[j] \notin Pre
  <2>1. j \in 2 .. Len(t) /\ j - 1 \in 1 .. Len(s) /\ t[j] = s[j - 1]
    BY <1>1, <1>3
  <2>2. CASE i = 1
    BY <1>1, <1>3, <2>1, <2>2 DEF StagesOf
  <2>3. CASE i # 1
    <3>1. i - 1 \in 1 .. Len(s) /\ t[i] = s[i - 1] /\ i - 1 < j - 1
      BY <1>1, <1>3, <2>3
    <3> QED  BY <1>3, <2>1, <3>1 DEF Ahead
  <2> QED  BY <2>2, <2>3
<1> QED  BY <1>1, <1>2, <1>3 DEF Ahead, t

\* A call, a late stage that looks at its answer or not, and a release.
LEMMA AheadTwo ==
    ASSUME NEW s, NEW stops, Ahead(s, stops), NEW a \in StageNames \ Late, a # "persist",
           NEW b \in StageNames, b # "persist", b \notin Late \/ StagesOf(s) \cap Pre = {}, NEW r
    PROVE  /\ Ahead(<<a, b>> \o s, stops)
           /\ Ahead(ReleaseOf(r) \o <<b>> \o s, stops)
<1>1. Ahead(<<b>> \o s, stops) /\ s \in Seq(StageNames)
  BY AheadMore DEF Ahead
<1>2. Ahead(<<a>> \o (<<b>> \o s), stops)
  BY <1>1, AheadMore
<1>3. <<a>> \o (<<b>> \o s) = <<a, b>> \o s
  BY <1>1
<1>4. <<"release">> \o <<b>> \o s = <<"release">> \o (<<b>> \o s) /\ <<>> \o <<b>> \o s = <<b>> \o s
  BY <1>1
<1>5. Ahead(<<"release">> \o (<<b>> \o s), stops)
  BY <1>1, AheadMore DEF StageNames, Late
<1> QED  BY <1>1, <1>2, <1>3, <1>4, <1>5 DEF ReleaseOf

\* A cancellation (_cancel_active_locked).
LEMMA AheadCancel ==
    ASSUME NEW p, NEW user, NEW revoked, NEW off, NEW rest, NEW stops, Ahead(rest, stops),
           Cancel(p, user, revoked, off, rest)
    PROVE  Ahead(stack', stops)
<1>1. CASE p.run = NoRun
  BY <1>1 DEF Cancel, Goto
<1>2. CASE p.run # NoRun
  <2>1. stack' = (IF revoked THEN <<>> ELSE ReleaseOf(p.run)) \o <<"cancelled">> \o rest
    BY <1>2 DEF Cancel, Goto
  <2>2. "cancelled" \in StageNames \ Late /\ "cancelled" # "persist" /\ rest \in Seq(StageNames)
    BY DEF StageNames, Late, Ahead
  <2>3. Ahead(<<>> \o <<"cancelled">> \o rest, stops)
    <3>1. <<>> \o <<"cancelled">> \o rest = <<"cancelled">> \o rest
      BY <2>2
    <3> QED  BY <2>2, <3>1, AheadMore
  <2>4. Ahead(ReleaseOf(p.run) \o <<"cancelled">> \o rest, stops)
    BY <2>2, AheadTwo
  <2> QED  BY <2>1, <2>3, <2>4
<1> QED  BY <1>1, <1>2

\* A recovery that fails, is retried or is cancelled.
LEMMA AheadFail ==
    ASSUME NEW r, NEW rest, NEW stops, Ahead(rest, stops),
           FailRecovery(r, rest) \/ RetryOrFail(r, rest) \/ BlockedRecovery(r, rest)
    PROVE  Ahead(stack', stops)
<1>0. /\ "failed" \in StageNames \ Late /\ "failed" # "persist"
      /\ "release" \in StageNames \ Late /\ "release" # "persist"
  BY DEF StageNames, Late
<1>1. FailRecovery(r, rest) => Ahead(stack', stops)
  <2>1. Ahead(ReleaseOf(r) \o <<"failed">> \o rest, stops)
    BY <1>0, AheadTwo
  <2> QED  BY <2>1 DEF FailRecovery, Goto
<1>2. RetryOrFail(r, rest) => Ahead(stack', stops)
  BY <1>1 DEF RetryOrFail, NoCancel, Goto
<1> QED  BY <1>1, <1>2, AheadCancel DEF BlockedRecovery

\* The loss of a leaf (_release_foreign_off_leaf_locked).
LEMMA AheadLeaf ==
    ASSUME NEW l, NEW rest, NEW stops, Ahead(rest, stops), ReleaseLeaf(l, rest)
    PROVE  Ahead(stack', stops)
<1>1. Ahead(<<"acquire", "updated">> \o rest, stops)
  BY AheadTwo DEF StageNames, Late
<1> QED  BY <1>1, AheadCancel DEF ReleaseLeaf, NoCancel, Goto

\* What follows the stage a.
LEMMA AheadAt ==
    ASSUME NEW stops, Ahead(stack, stops), NEW a, At(a)
    PROVE  /\ Ahead(Rest, stops)
           /\ a \in Late => StagesOf(Rest) \cap Pre = {}
BY AheadRest DEF At, Rest

\* The stages that handlers begin with, and those that end them.
LEMMA PlainAhead ==
    ASSUME NEW stops
    PROVE  /\ Ahead(<<"finish">>, stops) /\ Ahead(Pipeline, stops) /\ Ahead(<<>>, stops)
           /\ Ahead(<<"save">>, stops) /\ Ahead(<<"reconcile">>, stops)
           /\ Ahead(<<"recover", "reconcile">>, stops)
           /\ Ahead(<<"settling", "reconcile">>, stops)
           /\ stops => Ahead(<<"persist">>, stops) /\ Ahead(<<"persist", "unloaded">>, stops)
<1>1. /\ StagesOf(<<"finish">>) = {"finish"} /\ StagesOf(<<>>) = {}
      /\ StagesOf(<<"save">>) = {"save"} /\ StagesOf(<<"reconcile">>) = {"reconcile"}
      /\ StagesOf(<<"recover", "reconcile">>) = {"recover", "reconcile"}
      /\ StagesOf(<<"settling", "reconcile">>) = {"settling", "reconcile"}
  BY DEF StagesOf
<1>2. "persist" \notin StagesOf(Pipeline)
  BY DEF StagesOf, Pipeline
<1>3. /\ \A s \in {<<"finish">>, <<"save">>, <<"reconcile">>, <<"recover", "reconcile">>,
                   <<"settling", "reconcile">>, <<"persist">>, <<"persist", "unloaded">>} :
            s \in Seq(StageNames)
      /\ <<>> \in Seq(StageNames) /\ Pipeline \in Seq(StageNames)
  BY EmptySeq DEF StageNames, Pipeline
<1>4. \A i, j \in 1 .. Len(Pipeline) :
        i < j /\ Pipeline[i] \in Late => Pipeline[j] \notin Pre
  BY DEF Pipeline, Pre, Late
<1> QED  BY <1>1, <1>2, <1>3, <1>4 DEF Ahead, Late, Pre

\* What a stage leaves on the stack.
KeepsAhead == Ahead(stack', ~Listening)

\* Every stage of a handler, but the end of the entry.
LEMMA AheadStages ==
    ASSUME Ahead(stack, ~Listening), Stages, ~Unloaded PROVE KeepsAhead
<1> USE DEF Goto, NoCancel, KeepsAhead
<1> DEFINE stops == ~Listening
<1>0. /\ Ahead(stack, stops)
      /\ {"acquire", "release", "updated", "cancelled", "abandoned", "failed", "safeOff",
          "fence", "ended", "recovered", "drain"} \subseteq StageNames \ Late
      /\ {"reacquired", "merged", "completed", "started", "decide", "send"} \subseteq StageNames
  BY DEF StageNames, Late
<1> HIDE DEF stops
<1> SUFFICES Ahead(stack', stops)
  BY DEF stops
<1>1. CASE Reconcile \/ Finish
  BY <1>1, PlainAhead DEF Reconcile, Finish
<1>2. CASE Drain
  <2>1. Ahead(Rest, stops)
    BY <1>0, <1>2, AheadAt DEF Drain
  <2> QED  BY <1>0, <1>2, <2>1, AheadLeaf DEF Drain
<1>3. CASE Pending
  <2>1. Ahead(Rest, stops) /\ StagesOf(Rest) \cap Pre = {}
    BY <1>0, <1>3, AheadAt DEF Pending, Late
  <2>2. Ahead(<<"acquire", "reacquired">> \o Rest, stops)
    BY <1>0, <2>1, AheadTwo
  <2> QED  BY <1>3, <2>1, <2>2, PlainAhead, AheadFail DEF Pending
<1>4. CASE Reacquired \/ Recovered
  <2>1. Ahead(Rest, stops)
    BY <1>0, <1>4, AheadAt DEF Reacquired, Recovered
  <2> QED  BY <1>4, <2>1, PlainAhead, AheadFail DEF Reacquired, Recovered, NotRecovered
<1>5. CASE JoinDue
  <2>1. Ahead(Rest, stops) /\ StagesOf(Rest) \cap Pre = {}
    BY <1>0, <1>5, AheadAt DEF JoinDue, Late
  <2>2. Ahead(<<"acquire", "merged">> \o Rest, stops)
    BY <1>0, <2>1, AheadTwo
  <2> QED  BY <1>5, <2>1, <2>2, AheadCancel DEF JoinDue
<1>6. CASE Complete
  <2>1. Ahead(Rest, stops) /\ StagesOf(Rest) \cap Pre = {}
    BY <1>0, <1>6, AheadAt DEF Complete, Late
  <2>2. Ahead(<<"acquire", "merged">> \o Rest, stops)
    BY <1>0, <2>1, AheadTwo
  <2>3. Ahead(ReleaseOf(run) \o <<"completed">> \o Rest, stops)
    BY <1>0, <2>1, AheadTwo
  <2> QED  BY <1>6, <2>1, <2>2, <2>3 DEF Complete
<1>7. CASE Begin
  <2>1. Ahead(Rest, stops) /\ StagesOf(Rest) \cap Pre = {}
    BY <1>0, <1>7, AheadAt DEF Begin, Late
  <2>2. Ahead(<<"acquire", "started">> \o Rest, stops)
    BY <1>0, <2>1, AheadTwo
  <2> QED  BY <1>7, <2>1, <2>2 DEF Begin
<1>8. CASE Decide
  <2>1. Ahead(Rest, stops) /\ StagesOf(Rest) \cap Pre = {}
    BY <1>0, <1>8, AheadAt DEF Decide, Late
  <2>2. Ahead(<<"send">> \o Rest, stops)
    BY <1>0, <2>1, AheadMore
  <2> QED  BY <1>8, <2>1, <2>2 DEF Decide
<1>9. CASE Dispatch
  <2>1. Ahead(Rest, stops) /\ StagesOf(Rest) \cap Pre = {}
    BY <1>0, <1>9, AheadAt DEF Dispatch, Late
  <2>2. Ahead(<<"drain", "decide">> \o Rest, stops)
    BY <1>0, <2>1, AheadTwo
  <2> QED  BY <1>9, <2>1, <2>2 DEF Dispatch
<1>10. CASE Cancelled
  <2>1. Ahead(Rest, stops)
    BY <1>0, <1>10, AheadAt DEF Cancelled
  <2>2. Ahead(<<"safeOff">> \o Rest, stops)
    BY <1>0, <2>1, AheadMore
  <2> QED  BY <1>10, <2>1, <2>2 DEF Cancelled
<1>11. CASE Ended
  <2>1. Ahead(Rest, stops)
    BY <1>0, <1>11, AheadAt DEF Ended
  <2>2. Ahead(<<"safeOff", "fence">> \o Rest, stops)
    BY <1>0, <2>1, AheadTwo
  <2>3. Ahead(<<"fence">> \o Rest, stops)
    BY <1>0, <2>1, AheadMore
  <2>4. /\ <<>> \o <<"fence">> \o Rest = <<"fence">> \o Rest
        /\ <<"safeOff">> \o <<"fence">> \o Rest = <<"safeOff", "fence">> \o Rest
    BY <2>1 DEF Ahead
  <2> QED  BY <1>11, <2>2, <2>3, <2>4 DEF Ended
<1>12. CASE RecoverNothing \/ RecoverRootOff \/ RecoverNoTargets \/ RecoverRun
  <2>1. Ahead(Rest, stops)
    BY <1>0, <1>12, AheadAt DEF RecoverNothing, RecoverRootOff, RecoverNoTargets, RecoverRun
  <2>2. Ahead(<<"acquire", "recovered">> \o Rest, stops)
    BY <1>0, <2>1, AheadTwo
  <2>3. Ahead(ReleaseOf(run) \o <<"abandoned">> \o Rest, stops)
    BY <1>0, <2>1, AheadTwo
  <2>4. CASE RecoverNothing \/ RecoverRootOff \/ RecoverNoTargets
    BY <2>1, <2>3, <2>4, AheadCancel DEF RecoverNothing, RecoverRootOff, RecoverNoTargets
  <2>5. CASE RecoverRun
    BY <2>1, <2>2, <2>5, AheadFail DEF RecoverRun
  <2> QED  BY <1>12, <2>4, <2>5
<1>13. CASE Updated
  <2>1. Ahead(Rest, stops)
    BY <1>0, <1>13, AheadAt DEF Updated
  <2> QED  BY <1>13, <2>1, AheadCancel DEF Updated
<1>14. CASE Merged \/ CompletedRun \/ Started \/ Failed \/ Abandoned \/ Fence
  <2>1. Ahead(Rest, stops)
    BY <1>0, <1>14, AheadAt DEF Merged, CompletedRun, Started, Failed, Abandoned, Fence
  <2> QED  BY <1>14, <2>1 DEF Merged, CompletedRun, Started, Failed, Abandoned, Fence
<1> QED  BY <1>1, <1>2, <1>3, <1>4, <1>5, <1>6, <1>7, <1>8, <1>9, <1>10, <1>11,
            <1>12, <1>13, <1>14 DEF Stages

\* Every answer.
LEMMA AheadAnswers ==
    ASSUME Ahead(stack, ~Listening), Answers PROVE KeepsAhead
<1> USE DEF Goto, NoCancel, KeepsAhead
<1>1. CASE Granted \/ Refused \/ Released \/ NotReleased \/ SafeOff \/ NotSafeOff \/ Persist
  <2>1. Ahead(Rest, ~Listening)
    BY <1>1, AheadAt DEF Granted, Refused, Released, NotReleased, SafeOff, NotSafeOff, Persist
  <2> QED  BY <1>1, <2>1
              DEF Granted, Refused, Released, NotReleased, SafeOff, NotSafeOff, Persist
<1>2. ASSUME NEW T \in SUBSET Leaf, Dispatched(T) PROVE KeepsAhead
  <2>1. Ahead(Rest, ~Listening)
    BY <1>2, AheadAt DEF Dispatched
  <2> QED  BY <1>2, <2>1, AheadCancel DEF Dispatched
<1>3. CASE NotDispatched(TRUE) \/ NotDispatched(FALSE) \/ DispatchFailed
  <2>1. Ahead(Rest, ~Listening)
    BY <1>3, AheadAt DEF NotDispatched, DispatchFailed
  <2> QED  BY <1>3, <2>1, AheadCancel DEF NotDispatched, DispatchFailed
<1>4. CASE Settling
  <2>1. Ahead(Rest, ~Listening)
    BY <1>4, AheadAt DEF Settling
  <2> QED  BY <1>4, <2>1, AheadCancel, AheadLeaf DEF Settling
<1>5. CASE Save
  BY <1>5, PlainAhead DEF Save
<1> QED  BY <1>1, <1>2, <1>3, <1>4, <1>5 DEF Answers

\* Every handler that gets the lock.
LEMMA AheadHandlers ==
    ASSUME Handlers, NEW stops, OnStop \/ OnUnload => stops
    PROVE  Ahead(stack', stops)
<1> USE DEF Begins, Goto, ThenReconcile
<1>0. {"acquire", "release", "updated", "cancelled", "abandoned", "ended"}
        \subseteq StageNames \ (Late \cup {"persist"})
  BY DEF StageNames, Late
<1>1. ASSUME NEW u, NEW v, NEW w, NEW rest, Ahead(rest, stops), CancelOn(u, v, w, rest)
      PROVE  Ahead(stack', stops)
  <2>1. Ahead(ReleaseOf(run) \o <<"cancelled">> \o rest, stops)
    BY <1>0, <1>1, AheadTwo
  <2>2. Ahead(<<>> \o <<"cancelled">> \o rest, stops)
    <3>1. <<>> \o <<"cancelled">> \o rest = <<"cancelled">> \o rest
      BY <1>1 DEF Ahead
    <3> QED  BY <1>0, <1>1, <3>1, AheadMore
  <2> QED  BY <1>1, <2>1, <2>2 DEF CancelOn
<1>2. CASE OnStart \/ OnTimer \/ OnPoke \/ OnLeafOff \/ OnStop \/ OnAdd \/ OnDelete
  <2>1. CASE stack' = stack
    <3>1. stack = <<>>
      BY <1>2 DEF OnStart, OnTimer, OnPoke, OnLeafOff, OnStop, OnAdd, OnDelete, Take
    <3> QED  BY <2>1, <3>1, PlainAhead
  <2>2. CASE stack' \in {<<"reconcile">>, <<"recover", "reconcile">>, <<"settling", "reconcile">>}
    BY <2>2, PlainAhead
  <2>3. CASE OnStop
    BY <2>3, PlainAhead DEF OnStop
  <2> QED  BY <1>2, <2>1, <2>2, <2>3 DEF OnStart, OnTimer, OnPoke, OnLeafOff, OnAdd, OnDelete
<1>3. CASE OnRootOff \/ OnRevoke \/ OnVacation \/ OnHazard
  <2>1. CASE stack' = stack
    <3>1. stack = <<>>
      BY <1>3 DEF OnRootOff, OnRevoke, OnVacation, OnHazard, Take
    <3> QED  BY <2>1, <3>1, PlainAhead
  <2>2. CASE stack' = <<"reconcile">>
    BY <2>2, PlainAhead
  <2>3. CASE \E u, v, w : CancelOn(u, v, w, <<"reconcile">>) \/ CancelOn(u, v, w, <<"finish">>)
    BY <1>1, <2>3, PlainAhead
  <2> QED  BY <1>3, <2>1, <2>2, <2>3 DEF OnRootOff, OnRevoke, OnVacation, OnHazard
<1>4. CASE OnEnd
  <2>1. /\ Ahead(<<"ended">> \o <<"reconcile">>, stops)
        /\ Ahead(<<"release", "ended">> \o <<"reconcile">>, stops)
    BY <1>0, PlainAhead, AheadMore, AheadTwo
  <2>2. /\ <<>> \o <<"ended", "reconcile">> = <<"ended">> \o <<"reconcile">>
        /\ <<"release">> \o <<"ended", "reconcile">> = <<"release", "ended">> \o <<"reconcile">>
    OBVIOUS
  <2>3. Ahead(ReleaseOf(run) \o <<"ended", "reconcile">>, stops)
    BY <2>1, <2>2 DEF ReleaseOf
  <2> QED  BY <1>4, <2>3, PlainAhead DEF OnEnd
<1>5. CASE OnDismiss
  <2>1. Ahead(<<"acquire", "updated">> \o <<"reconcile">>, stops)
    BY <1>0, PlainAhead, AheadTwo
  <2>2. Ahead(<<"release">> \o <<"reconcile">>, stops) /\ Ahead(<<>> \o <<"reconcile">>, stops)
    <3>1. <<>> \o <<"reconcile">> = <<"reconcile">>
      OBVIOUS
    <3> QED  BY <1>0, <3>1, PlainAhead, AheadMore
  <2>3. CASE stack' = (IF Without(run, {Event.occ}) = NoRun THEN ReleaseOf(run)
                       ELSE <<"acquire", "updated">>) \o <<"reconcile">>
    BY <2>1, <2>2, <2>3 DEF ReleaseOf
  <2> QED  BY <1>5, <2>3, PlainAhead DEF OnDismiss
<1>6. CASE OnUnload
  <2>1. Ahead(<<"persist", "unloaded">>, stops)
    BY <1>6, PlainAhead
  <2>2. /\ Ahead(<<"abandoned">> \o <<"persist", "unloaded">>, stops)
        /\ Ahead(<<"release", "abandoned">> \o <<"persist", "unloaded">>, stops)
    BY <1>0, <2>1, AheadMore, AheadTwo
  <2>3. /\ <<>> \o <<"abandoned", "persist", "unloaded">>
             = <<"abandoned">> \o <<"persist", "unloaded">>
        /\ <<"release">> \o <<"abandoned", "persist", "unloaded">>
             = <<"release", "abandoned">> \o <<"persist", "unloaded">>
    OBVIOUS
  <2>4. Ahead(ReleaseOf(run) \o <<"abandoned", "persist", "unloaded">>, stops)
    BY <2>2, <2>3 DEF ReleaseOf
  <2> QED  BY <1>6, <2>1, <2>4 DEF OnUnload
<1> QED  BY <1>2, <1>3, <1>4, <1>5, <1>6 DEF Handlers

-----------------------------------------------------------------------------
(***************************************************************************)
(* A recovery that is pending.  Its retries stay within Limited, a handler *)
(* that leaves it pending has chosen the next one, and before it sleeps it *)
(* arms the timer for it.                                                  *)
(***************************************************************************)
Waiting == Active /\ run.pending
Undecided == Special \cap ({"recover"} \cup Quits \cup Recovering) # {}

\* The process has not yet taken its recovery up.
NotUp == {"down", "starting"}
Fresh == phase \in NotUp \/ Waits("start") \/ "recover" \in Special

Timed == /\ job.now >= NoTime
         /\ \A t \in Queued : t.now >= NoTime
         /\ retryAt # NoTime => retryAt <= clock + Step

OneStart ==
    /\ Waits("start") => \/ phase = "starting"
                         \/ /\ phase = "running" /\ stack = <<>> /\ ~Active
                            /\ Event.kind = "start"
    /\ \A i, j \in 1 .. Len(queue) :
          queue[i].kind = "start" /\ queue[j].kind = "start" => i = j

StopsWait == Waits("stop") \/ Waits("unload") => stopping \/ phase = "unloading"

\* Catch-up of an alarm that the run has or had, and the expiry of its lease.
Limited(by) ==
    /\ by <= run.exp
    /\ \E o \in run.occs \cup st.terminal :
          RampStart[o] <= clock /\ by <= WakeAt[o] + Catchup

NeverTried == Fresh /\ Active /\ Special \cap Quits = {} => retryAt = NoTime /\ retryBy = NoTime

Resuming == /\ Special \cap Recovering # {} => run.pending /\ phase \notin NotUp
            /\ Special \cap {"recover", "recovered"} # {} => Soon("reconcile")

Retrying == Listening /\ Waiting /\ Special \cap Quits = {} =>
    /\ retryAt # NoTime => retryBy # NoTime /\ retryAt <= retryBy
    /\ retryBy # NoTime => Limited(retryBy)

Chosen == Listening /\ Waiting /\ ~Undecided /\ stack # <<>> /\ StagesOf(stack) \cap Pre = {} =>
    /\ StagesOf(stack) \subseteq {"finish", "save"}
    /\ retryAt # NoTime /\ job.now < retryBy

Armed == Listening /\ Waiting /\ stack = <<>> /\ ~Waits("timer") =>
    timer # NoTime /\ timer <= clock + Step /\ retryBy # NoTime /\ timer <= retryBy

RetryInv == /\ Timed /\ OneStart /\ StopsWait /\ NeverTried /\ Resuming
            /\ Retrying /\ Chosen /\ Armed /\ Ahead(stack, ~Listening)

(***************************************************************************)
(* What the stages do to it.                                               *)
(***************************************************************************)
\* The queue only grows, and neither a start nor a stop is added; the callback
\* of the timer brings the time it is added at.
Others == {t \in Tasks : /\ t.kind \notin {"start", "stop", "unload"} /\ t.now >= NoTime
                         /\ t.kind = "timer" => t.now = clock}
Longer == queue' = queue \/ \E s \in Seq(Others) : queue' = queue \o s

\* The time of the handler is forgotten when it ends.
KeepsTime == \/ job'.now = job.now
             \/ job'.now = NoTime /\ (stack' = <<>> \/ At("persist"))

Inside == /\ stack # <<>> /\ phase' = phase /\ stopping' = stopping /\ clock' = clock
          /\ Longer /\ KeepsTime
          /\ retryAt' \in {retryAt, NoTime} \/ retryAt' <= clock + Step
          /\ KeepsAhead /\ "recover" \notin Special'

\* The occurrences that leave the run are over.
Keeps == /\ run'.exp = run.exp
         /\ run.occs \cup st.terminal \subseteq run'.occs \cup st'.terminal

Over == (~Active' \/ Special' \cap Quits # {}) /\ Special' \cap Recovering = {}
Free == /\ Special' \cap Recovering = {}
        /\ Listening => ~Waiting'
        /\ phase \in NotUp => /\ Active /\ Special \cap Quits = {}
                              /\ retryAt' \in {retryAt, NoTime} /\ retryBy' \in {retryBy, NoTime}
Goes == /\ Special' \cap Recovering = {} /\ Active /\ Special \cap Quits = {}
        /\ retryAt' = retryAt /\ retryBy' = retryBy
        /\ Listening /\ Waiting' =>
             /\ Waiting /\ Keeps
             /\ \/ StagesOf(stack)' \cap Pre # {}
                \/ /\ stack' # <<>> /\ StagesOf(stack)' \subseteq {"finish", "save"}
                   /\ retryAt # NoTime /\ job'.now < retryBy
                \/ /\ stack' = <<>> /\ timer' # NoTime /\ timer' <= clock + Step
                   /\ retryBy # NoTime /\ timer' <= retryBy
Again == /\ Special' = {} /\ phase \notin NotUp /\ stack' # <<>> /\ job'.now = job.now
         /\ Listening /\ Waiting' =>
              /\ retryAt' # NoTime /\ retryBy' # NoTime /\ retryAt' <= retryBy'
              /\ job.now < retryBy' /\ Limited(retryBy)'
              /\ StagesOf(stack)' \cap Pre # {} \/ StagesOf(stack)' \subseteq {"finish", "save"}
Asks == /\ Special' \cap Recovering # {} /\ Special' \cap Quits = {}
        /\ run'.pending /\ phase \notin NotUp
        /\ "recovered" \in Special' => Soon("reconcile")'
        /\ \/ retryAt' = NoTime /\ retryBy' = NoTime
           \/ /\ retryAt' = retryAt /\ retryBy' = retryBy
              /\ Waiting /\ Special \cap Quits = {} /\ Keeps

\* What is posted meanwhile changes little.
LEMMA LongerQueue ==
    ASSUME Outer, Longer
    PROVE  /\ queue' \in Seq(Tasks)
           /\ \A k \in {"start", "stop", "unload"} : Waits(k)' <=> Waits(k)
           /\ Waits("timer") => Waits("timer")'
           /\ \A t \in Queued' : \/ t \in Queued
                                 \/ t.now >= NoTime /\ (t.kind = "timer" => t.now = clock)
           /\ queue # <<>> => Event' = Event
           /\ OneStart => \A i, j \in 1 .. Len(queue') :
                 queue'[i].kind = "start" /\ queue'[j].kind = "start" => i = j
<1>0. queue \in Seq(Tasks)
  BY DEF Outer
<1>1. CASE queue' = queue
  BY <1>0, <1>1 DEF Waits, Queued, Event, OneStart
<1>2. ASSUME NEW s \in Seq(Others), queue' = queue \o s
      PROVE  /\ queue' \in Seq(Tasks)
             /\ \A k \in {"start", "stop", "unload"} : Waits(k)' <=> Waits(k)
             /\ Waits("timer") => Waits("timer")'
             /\ \A t \in Queued' : \/ t \in Queued
                                   \/ t.now >= NoTime /\ (t.kind = "timer" => t.now = clock)
             /\ queue # <<>> => Event' = Event
             /\ OneStart => \A i, j \in 1 .. Len(queue') :
                   queue'[i].kind = "start" /\ queue'[j].kind = "start" => i = j
  <2>0. s \in Seq(Tasks) /\ \A i \in 1 .. Len(s) : s[i] \in Others
    BY SeqDef, LenProperties, ElementOfSeq DEF Others
  <2>1. /\ Len(queue') = Len(queue) + Len(s) /\ Len(queue) \in Nat /\ Len(s) \in Nat
        /\ queue' \in Seq(Tasks)
        /\ \A i \in 1 .. Len(queue') :
              queue'[i] = IF i <= Len(queue) THEN queue[i] ELSE s[i - Len(queue)]
    BY <1>0, <1>2, <2>0, ConcatProperties, LenProperties
  <2>2. Queued' = Queued \cup {s[i] : i \in 1 .. Len(s)}
    <3>1. Queued' = {(queue \o s)[i] : i \in 1 .. Len(queue \o s)}
      BY <1>2 DEF Queued
    <3> QED  BY <1>0, <2>0, <3>1, QueuedJoined DEF Queued
  <2>3. \A t \in Queued' : t \in Queued \/ t \in Others
    BY <2>0, <2>2
  <2>4. Queued \subseteq Queued'
    BY <2>2
  <2>5. \A k \in {"start", "stop", "unload"} : Waits(k)' <=> Waits(k)
    BY <2>3, <2>4 DEF Waits, Others
  <2>6. Waits("timer") => Waits("timer")'
    BY <2>4 DEF Waits
  <2>7. queue # <<>> => Event' = Event
    <3>1. ASSUME queue # <<>> PROVE Event' = Event
      <4>1. Len(queue) # 0 /\ queue' # <<>>
        BY <1>0, <2>1, <3>1, EmptySeq
      <4>2. Head(queue) = queue[1] /\ Head(queue') = queue'[1] /\ 1 \in 1 .. Len(queue')
        BY <1>0, <2>1, <3>1, <4>1
      <4> QED  BY <2>1, <4>1, <4>2 DEF Event
    <3> QED  BY <3>1
  <2>8. ASSUME OneStart, NEW i \in 1 .. Len(queue'), NEW j \in 1 .. Len(queue'),
               queue'[i].kind = "start", queue'[j].kind = "start"
        PROVE  i = j
    <3>1. ASSUME NEW k \in 1 .. Len(queue'), queue'[k].kind = "start"
          PROVE  k \in 1 .. Len(queue) /\ queue'[k] = queue[k]
      <4>1. CASE k <= Len(queue)
        BY <2>1, <4>1
      <4>2. CASE ~(k <= Len(queue))
        <5>1. k - Len(queue) \in 1 .. Len(s) /\ queue'[k] = s[k - Len(queue)]
          BY <2>1, <4>2
        <5> QED  BY <2>0, <3>1, <5>1 DEF Others
      <4> QED  BY <4>1, <4>2
    <3> QED  BY <2>8, <3>1 DEF OneStart
  <2> QED  BY <2>1, <2>3, <2>5, <2>6, <2>7, <2>8 DEF Others
<1> QED  BY <1>1, <1>2 DEF Longer

\* Every one of these moves keeps the invariant.
LEMMA RetryMove ==
    ASSUME Inner, Outer, Inner', RetryInv, Inside, Over \/ Free \/ Goes \/ Again \/ Asks
    PROVE  RetryInv'
<1>0. /\ job.now \in Int /\ job'.now \in Int /\ clock \in Nat /\ Step \in Nat
      /\ retryAt \in Int /\ retryAt' \in Int /\ retryBy' \in Int
  BY TimeAssumption DEF Inner, Outer, Jobs
<1>1. /\ \A k \in {"start", "stop", "unload"} : Waits(k)' <=> Waits(k)
      /\ Waits("timer") => Waits("timer")'
      /\ \A t \in Queued' : t \in Queued \/ t.now >= NoTime
      /\ OneStart => \A i, j \in 1 .. Len(queue') :
            queue'[i].kind = "start" /\ queue'[j].kind = "start" => i = j
  BY LongerQueue DEF Inside
<1>2. /\ Listening' = Listening /\ phase' = phase /\ clock' = clock /\ stack # <<>>
      /\ "recover" \notin Special' /\ stopping' = stopping
  BY DEF Inside, Listening
<1>3. Timed'
  BY <1>0, <1>1, <1>2 DEF RetryInv, Timed, Inside, KeepsTime, NoTime
<1>4. OneStart' /\ StopsWait'
  BY <1>1, <1>2 DEF RetryInv, OneStart, StopsWait
<1>5. Ahead(stack, ~Listening)'
  BY <1>2 DEF Inside, KeepsAhead, Ahead, StagesOf
<1>6. Waits("start")' => phase \in NotUp
  BY <1>1, <1>2 DEF RetryInv, OneStart, NotUp
<1>7. Fresh' => phase \in NotUp
  BY <1>2, <1>6 DEF Fresh
<1>8. /\ Special' # {} => stack' # <<>>
      /\ Special' \cap Quits # {} \/ Special' \cap Recovering # {} => Undecided' /\ stack' # <<>>
      /\ StagesOf(stack)' # {} => stack' # <<>>
  <2>1. stack' = <<>> => StagesOf(stack)' = {}
    BY DEF StagesOf
  <2> QED  BY <2>1 DEF Undecided, Special
<1>9. Special' \cap Recovering = {} => Resuming'
  BY <1>2 DEF Resuming, Recovering
<1>10. CASE Over
  <2>1. NeverTried' /\ Retrying' /\ Chosen' /\ Armed'
    BY <1>8, <1>10 DEF Over, NeverTried, Retrying, Chosen, Armed, Waiting, Undecided
  <2> QED  BY <1>3, <1>4, <1>5, <1>9, <1>10, <2>1 DEF Over, RetryInv
<1>11. CASE Free
  <2>1. NeverTried'
    <3>1. ASSUME phase \in NotUp PROVE retryAt' = NoTime /\ retryBy' = NoTime
      BY <1>11, <3>1 DEF Free, RetryInv, NeverTried, Fresh
    <3> QED  BY <1>7, <3>1 DEF NeverTried
  <2>2. Retrying' /\ Chosen' /\ Armed'
    BY <1>2, <1>11 DEF Free, Retrying, Chosen, Armed
  <2> QED  BY <1>3, <1>4, <1>5, <1>9, <1>11, <2>1, <2>2 DEF Free, RetryInv
<1>12. ASSUME Limited(retryBy), Keeps, retryBy' = retryBy PROVE Limited(retryBy)'
  BY <1>2, <1>12 DEF Limited, Keeps
<1>13. CASE Goes
  <2>1. NeverTried'
    <3>1. ASSUME phase \in NotUp PROVE retryAt' = NoTime /\ retryBy' = NoTime
      BY <1>13, <3>1 DEF Goes, RetryInv, NeverTried, Fresh
    <3> QED  BY <1>7, <3>1 DEF NeverTried
  <2>2. Retrying'
    BY <1>2, <1>12, <1>13 DEF Goes, RetryInv, Retrying
  <2>3. Chosen' /\ Armed'
    BY <1>2, <1>8, <1>13 DEF Goes, Chosen, Armed
  <2> QED  BY <1>3, <1>4, <1>5, <1>9, <1>13, <2>1, <2>2, <2>3 DEF Goes, RetryInv
<1>14. CASE Again
  <2>1. NeverTried' /\ Resuming'
    BY <1>7, <1>9, <1>14 DEF Again, NeverTried
  <2>2. Retrying' /\ Armed'
    BY <1>2, <1>14 DEF Again, Retrying, Armed
  <2>3. Chosen'
    BY <1>2, <1>14 DEF Again, Chosen
  <2> QED  BY <1>3, <1>4, <1>5, <2>1, <2>2, <2>3 DEF RetryInv
<1>15. CASE Asks
  <2>1. NeverTried' /\ Resuming'
    BY <1>2, <1>7, <1>15 DEF Asks, NeverTried, Resuming
  <2>2. Retrying'
    BY <1>2, <1>12, <1>15 DEF Asks, RetryInv, Retrying
  <2>3. Chosen' /\ Armed'
    BY <1>8, <1>15 DEF Asks, Chosen, Armed
  <2> QED  BY <1>3, <1>4, <1>5, <2>1, <2>2, <2>3 DEF RetryInv
<1> QED  BY <1>10, <1>11, <1>13, <1>14, <1>15

-----------------------------------------------------------------------------
(***************************************************************************)
(* The expiry of the lease.  PBL grants it with the first answer and never *)
(* moves it: as long as it may grant the lease again, it holds it with the *)
(* expiry that the run has, and so does the run of the Store.              *)
(***************************************************************************)
Backed(r) == \/ r.lease \in retired
             \/ pbl.status # "none" /\ pbl.lease = r.lease /\ pbl.exp = r.exp

Expires ==
    /\ Active => IF run.exp = NoTime THEN Unanswered /\ ~run.pending ELSE Backed(run)
    /\ disk.run # NoRun => disk.run.exp # NoTime /\ Backed(disk.run)
    /\ "merged" \in Special => job.prev.exp = run.exp /\ run.exp # NoTime
    /\ pbl.status # "none" => pbl.exp >= 0

\* A stage whose run has its answer.
LEMMA ExpiresMove ==
    ASSUME Inner, CanInv, Expires, Moves, UNCHANGED <<disk, peer>>, Active => run.exp # NoTime
    PROVE  Expires'
<1>1. pbl' = pbl /\ retired' = retired /\ disk' = disk
  BY DEF peer
<1>2. ASSUME NEW r, NEW q, r.lease = q.lease, r.exp = q.exp, Backed(q)
      PROVE  r.lease \in retired \/ (pbl.status # "none" /\ pbl.lease = r.lease /\ pbl.exp = r.exp)
  BY <1>2 DEF Backed
<1>3. ASSUME run' = NoRun \/ (Active /\ run'.lease = run.lease /\ run'.exp = run.exp),
             "merged" \in Special' => Active /\ job'.prev.exp = run'.exp /\ run' # NoRun
      PROVE  Expires'
  <2>1. Active' => run'.exp # NoTime /\ Backed(run)'
    BY <1>1, <1>3 DEF Active, run, Expires, Backed
  <2>2. disk'.run # NoRun => disk'.run.exp # NoTime /\ Backed(disk.run)'
    BY <1>1 DEF Expires, Backed
  <2>3. "merged" \in Special' => job'.prev.exp = run'.exp /\ run'.exp # NoTime
    BY <1>3, <2>1 DEF Active, run
  <2>4. pbl'.status # "none" => pbl'.exp >= 0
    BY <1>1 DEF Expires
  <2> QED  BY <2>1, <2>2, <2>3, <2>4 DEF Expires
<1>4. KeepsLease(run', run) => run' = NoRun \/ (Active /\ run'.lease = run.lease /\ run'.exp = run.exp)
  BY NoRunAssumption DEF KeepsLease, SameGrant, Active
<1>5. CASE Carries \/ Quitting \/ Gone
  BY <1>3, <1>4, <1>5 DEF Carries, Quitting, Gone, Quits
<1>6. CASE Joins
  <2>1. SameGrant(run', run) /\ (job'.prev = run \/ SameGrant(job'.prev, run)) /\ Active
    BY <1>6 DEF Joins, Extended, KeepsLease
  <2>2. run' # NoRun /\ run'.lease = run.lease /\ run'.exp = run.exp
        /\ job'.prev.exp = run'.exp
    BY <2>1, NoRunAssumption DEF SameGrant
  <2> QED  BY <1>3, <2>1, <2>2
<1>7. CASE Completes \/ Opens
  <2>1. run' = run /\ "merged" \notin Special'
    BY <1>7 DEF Completes, Opens
  <2> QED  BY <1>3, <2>1 DEF Active
<1>8. CASE PutsBack
  <2>1. job.prev.exp = run.exp /\ job.prev.lease = run.lease
    BY <1>8 DEF PutsBack, Expires, CanInv, SamePrev
  <2>2. run'.lease = run.lease /\ run'.exp = run.exp /\ Active /\ Special' = {}
    BY <1>8, <2>1 DEF PutsBack, Active
  <2> QED  BY <1>3, <2>2
<1>9. CASE Retries \/ AsksAgain \/ Resumes
  <2>1. Active /\ run'.lease = run.lease /\ run'.exp = run.exp /\ "merged" \notin Special'
    BY <1>9 DEF Retries, AsksAgain, Resumes, SameLease
  <2> QED  BY <1>3, <2>1
<1>10. CASE Starts
  <2>1. run'.exp = NoTime /\ ~run'.pending /\ Unanswered' /\ "merged" \notin Special'
    BY <1>10 DEF Starts, Unanswered
  <2> QED  BY <1>1, <2>1 DEF Expires, Backed, run
<1> QED  BY <1>5, <1>6, <1>7, <1>8, <1>9, <1>10 DEF Moves, Plods

\* Only the stage that looks at the first answer finds a run without one.
LEMMA ExpiryKnown ==
    ASSUME Inner, Expires, NEW a, At(a), a \notin {"acquire", "release", "safeOff", "started"}
    PROVE  Active => run.exp # NoTime /\ Backed(run)
<1>1. "started" \notin Special
  BY SpecialAt
<1> QED  BY <1>1 DEF Expires, Unanswered

\* The run of a stage has the answer to its first acquire, unless the stage
\* drops the run.
LEMMA FirstAnswer ==
    ASSUME Inner, Outer, CanInv, Expires, Stages, ~Unloaded
    PROVE  (Active => run.exp # NoTime) \/ (run' = NoRun /\ Special' = {})
<1>1. CASE Started
  <2>1. Special = {"started"}
    <3>1. "started" \notin Plain
      BY DEF Plain, NeedRun
    <3> QED  BY <1>1, <3>1, SpecialAt DEF Started
  <2>2. CASE job.ok
    BY <2>1, <2>2 DEF Expires, Unanswered
  <2>3. CASE ~job.ok
    <3>1. run' = NoRun
      BY <1>1, <2>3 DEF Started, NoCancel, Inner, Profile, run
    <3>2. Special' = {}
      <4>1. Rest \in Seq(Plain) /\ stack' = Rest
        BY <1>1, AtPlain DEF Started, NoCancel, Goto
      <4> QED  BY <4>1, SpecialPlain
    <3> QED  BY <3>1, <3>2
  <2> QED  BY <2>2, <2>3
<1>2. CASE ~Started
  <2> DEFINE names == {"reconcile", "drain", "pending", "reacquired", "active", "merged",
                       "complete", "completed", "begin", "dispatch", "decide", "finish",
                       "cancelled", "updated", "failed", "ended", "fence", "recover",
                       "recovered", "abandoned"}
  <2>0. \E a \in names : At(a)
    <3>1. CASE Reconcile \/ Drain \/ Pending \/ Reacquired \/ JoinDue \/ Merged \/ Complete
      BY <3>1 DEF Reconcile, Drain, Pending, Reacquired, JoinDue, Merged, Complete
    <3>2. CASE CompletedRun \/ Begin \/ Dispatch \/ Decide \/ Finish \/ Cancelled \/ Updated
      BY <3>2 DEF CompletedRun, Begin, Dispatch, Decide, Finish, Cancelled, Updated
    <3>3. CASE \/ Failed \/ Ended \/ Fence \/ RecoverNothing \/ RecoverRootOff
               \/ RecoverNoTargets \/ RecoverRun \/ Recovered \/ Abandoned
      BY <3>3 DEF Failed, Ended, Fence, RecoverNothing, RecoverRootOff, RecoverNoTargets,
         RecoverRun, Recovered, Abandoned
    <3> QED  BY <1>2, <3>1, <3>2, <3>3 DEF Stages
  <2>1. \E a : At(a) /\ a \notin {"acquire", "release", "safeOff", "started"}
    <3>1. \A a \in names : a \notin {"acquire", "release", "safeOff", "started"}
      OBVIOUS
    <3> HIDE DEF names
    <3> QED  BY <2>0, <3>1
  <2>2. Active => run.exp # NoTime
    BY <2>1, ExpiryKnown
  <2> QED  BY <2>2
<1> QED  BY <1>1, <1>2

\* Every stage.
LEMMA ExpiresStages ==
    ASSUME Inner, Outer, CanInv, Expires, Stages, ~Unloaded PROVE Expires'
<1>1. Moves /\ UNCHANGED <<disk, peer>>
  <2>1. Quiet
    BY DEF Stages, Reconcile, Drain, Pending, Reacquired, JoinDue, Merged,
       Complete, CompletedRun, Begin, Started, Dispatch, Decide, Finish, Cancelled,
       Updated, Failed, Ended, Fence, RecoverNothing, RecoverRootOff,
       RecoverNoTargets, RecoverRun, Recovered, Abandoned
  <2> QED  BY <2>1, StageMoves DEF Quiet
<1>2. CASE Active => run.exp # NoTime
  BY <1>1, <1>2, ExpiresMove
<1>3. CASE run' = NoRun /\ Special' = {}
  BY <1>1, <1>3 DEF Expires, Active, Backed, peer, run
<1> QED  BY <1>2, <1>3, FirstAnswer

\* Neither the run nor what it waits for changes; PBL may retire its lease.
LEMMA ExpiresStill ==
    ASSUME Inner, Outer, Expires, st' = st, disk' = disk,
           "merged" \in Special' => "merged" \in Special, job'.prev = job.prev,
           Active /\ run.exp = NoTime => Unanswered',
           \/ (Retire /\ pbl.status # "none") \/ UNCHANGED peer
           \/ /\ pbl' = IF pbl.status = "none" THEN pbl
                        ELSE [pbl EXCEPT !.status = "recovering", !.grace = clock + Grace]
              /\ retired' = retired
    PROVE  Expires'
<1>1. /\ pbl'.status # "none" => pbl.status # "none" /\ pbl'.lease = pbl.lease /\ pbl'.exp = pbl.exp
      /\ retired \subseteq retired'
      /\ pbl.status # "none" => pbl'.status # "none" \/ pbl.lease \in retired'
  <2>0. pbl \in Leases
    BY DEF Outer
  <2>1. CASE Retire
    BY <2>1 DEF Retire, NoLease
  <2>2. CASE UNCHANGED peer
    BY <2>2 DEF peer
  <2>3. CASE /\ pbl' = IF pbl.status = "none" THEN pbl
                      ELSE [pbl EXCEPT !.status = "recovering", !.grace = clock + Grace]
             /\ retired' = retired
    BY <2>0, <2>3 DEF Leases
  <2> QED  BY <2>1, <2>2, <2>3
<1>2. run' = run /\ Active' = Active
  BY DEF run, Active
<1>3. ASSUME NEW r, Backed(r)
      PROVE  \/ r.lease \in retired'
             \/ pbl'.status # "none" /\ pbl'.lease = r.lease /\ pbl'.exp = r.exp
  BY <1>1, <1>3 DEF Backed
<1>4. Active' => IF run'.exp = NoTime THEN Unanswered' /\ ~run'.pending ELSE Backed(run)'
  BY <1>2, <1>3 DEF Expires, Backed
<1>5. disk'.run # NoRun => disk'.run.exp # NoTime /\ Backed(disk.run)'
  BY <1>3 DEF Expires, Backed
<1>6. "merged" \in Special' => job'.prev.exp = run'.exp /\ run'.exp # NoTime
  BY <1>2 DEF Expires
<1>7. pbl'.status # "none" => pbl'.exp >= 0
  BY <1>1 DEF Expires
<1> QED  BY <1>4, <1>5, <1>6, <1>7 DEF Expires

\* A grant has the expiry that the run has, when it has one.
LEMMA GrantKeeps ==
    ASSUME Inner, Outer, Expires, Granted
    PROVE  /\ run \in Run /\ run' \in Run /\ run'.lease = run.lease /\ run'.exp \in Nat
           /\ run.exp # NoTime => run'.exp = run.exp
           /\ pbl'.status # "none" /\ pbl'.lease = run.lease /\ pbl'.exp = run'.exp
           /\ pbl.status # "none" => pbl.lease = run.lease /\ pbl.exp = run'.exp
           /\ run'.pending = run.pending /\ run'.occs = run.occs /\ st'.terminal = st.terminal
<1> DEFINE ttl == IF run.exp = NoTime THEN TTL ELSE Later(1, Sooner(TTL, run.exp - clock))
           exp == IF pbl.status = "none" THEN clock + ttl ELSE pbl.exp
<1>1. run \in Run /\ Active /\ run.lease \notin retired
  <2>1. run \in Run
    BY AtNeeds DEF Granted, NeedRun
  <2> QED  BY <2>1, NoRunAssumption DEF Granted, Active
<1> DEFINE same == /\ pbl.status = "active"
                   /\ pbl.occs = run.occs /\ pbl.targets = run.targets
           gen == IF same THEN pbl.gen ELSE pblGen + 1
<1>2. /\ pbl' = [status |-> "active", lease |-> run.lease, gen |-> gen, exp |-> exp,
                 grace |-> NoTime, occs |-> run.occs, targets |-> run.targets]
      /\ st' = [st EXCEPT !.run = MarkAcquired(run, gen, exp)]
  BY DEF Granted
<1>G. gen \in Nat
  BY DEF Outer, Leases
<1> HIDE DEF gen
<1>3. pbl.status # "none" => pbl.lease = run.lease /\ pbl.exp >= 0 /\ pbl.exp \in Int
  BY DEF Granted, Holds, Expires, Outer, Leases
<1>4. exp \in Nat
  <2>1. run.exp \in Int /\ clock \in Nat /\ TTL \in Nat
    BY <1>1, CoordinatorAssumption DEF Run, Outer
  <2>2. ttl \in Nat
    BY <2>1 DEF Later, Sooner
  <2> HIDE DEF ttl
  <2> QED  BY <1>3, <2>1, <2>2
<1>5. run.exp # NoTime => exp = run.exp /\ pbl.status # "none"
  BY <1>1 DEF Expires, Backed
<1> HIDE DEF exp
<1>6. run' = MarkAcquired(run, gen, exp) /\ st'.terminal = st.terminal
  BY <1>2 DEF Inner, Profile, run
<1>7. /\ run' \in Run /\ run'.lease = run.lease /\ run'.exp = exp
      /\ run'.pending = run.pending /\ run'.occs = run.occs
  <2>1. run' \in Run
    BY <1>1, <1>4, <1>6, <1>G, MarkAcquiredType
  <2> QED  BY <1>1, <1>6, <2>1 DEF MarkAcquired, Run
<1>8. pbl.status # "none" => pbl.exp = exp
  BY DEF exp
<1> QED  BY <1>1, <1>2, <1>3, <1>4, <1>5, <1>6, <1>7, <1>8

-----------------------------------------------------------------------------
\* Only the first acquire answers a run that has no expiry yet.
LEMMA ExpiryAfter ==
    ASSUME Inner, Expires, NEW a \in {"release", "safeOff"}, At(a), stack' = Rest, st' = st
    PROVE  /\ Active => run.exp # NoTime
           /\ "merged" \in Special' => "merged" \in Special
<1>1. a \notin Plain
  BY DEF Plain, NeedPrev
<1>2. Special = {a} \cup Special' /\ \A x \in Special' : <<a, x>> \in Pairs
  BY <1>1, SpecialRest
<1>3. "started" \notin Special
  BY <1>2 DEF Pairs
<1> QED  BY <1>2, <1>3 DEF Expires, Unanswered

\* Every answer.
LEMMA ExpiresAnswers ==
    ASSUME Inner, Outer, Inner', CanInv, Expires, Answers PROVE Expires'
<1>0. st \in Profile /\ job \in Jobs /\ pbl \in Leases
  BY DEF Inner, Outer
<1>1. CASE Granted
  <2>1. /\ run \in Run /\ run' \in Run /\ run'.lease = run.lease /\ run'.exp \in Nat
        /\ run.exp # NoTime => run'.exp = run.exp
        /\ pbl'.status # "none" /\ pbl'.lease = run.lease /\ pbl'.exp = run'.exp
        /\ pbl.status # "none" => pbl.lease = run.lease /\ pbl.exp = run'.exp
    BY <1>1, GrantKeeps
  <2>2. retired' = retired /\ disk' = disk /\ job'.prev = job.prev
    BY <1>0, <1>1 DEF Granted, Calm, Jobs
  <2>3. Special = {"acquire"} \cup Special'
    <3>1. "acquire" \notin Plain /\ At("acquire") /\ stack' = Rest
      BY <1>1 DEF Granted, Plain, NeedRun, Goto
    <3> QED  BY <3>1, SpecialRest
  <2>4. run'.exp # NoTime /\ Backed(run)'
    BY <2>1 DEF Backed, NoTime
  <2>5. disk'.run # NoRun => disk'.run.exp # NoTime /\ Backed(disk.run)'
    BY <2>1, <2>2 DEF Expires, Backed
  <2>6. "merged" \in Special' => job'.prev.exp = run'.exp
    BY <2>1, <2>2, <2>3 DEF Expires
  <2>7. pbl'.exp >= 0
    BY <2>1
  <2> QED  BY <2>4, <2>5, <2>6, <2>7 DEF Expires
<1>2. CASE Refused
  <2>1. Special = {"acquire"} \cup Special'
    <3>1. "acquire" \notin Plain /\ At("acquire") /\ stack' = Rest
      BY <1>2 DEF Refused, Plain, NeedRun, Goto
    <3> QED  BY <3>1, SpecialRest
  <2>2. st' = st /\ disk' = disk /\ UNCHANGED peer /\ job'.prev = job.prev /\ ~job'.ok
    BY <1>0, <1>2 DEF Refused, Calm, Jobs
  <2>3. Active /\ run.exp = NoTime => Unanswered'
    BY <2>1, <2>2 DEF Expires, Unanswered
  <2> QED  BY <2>1, <2>2, <2>3, ExpiresStill
<1>3. CASE Released \/ NotReleased \/ SafeOff \/ NotSafeOff
  <2>1. /\ st' = st /\ disk' = disk /\ job' = job /\ stack' = Rest
        /\ \E a \in {"release", "safeOff"} : At(a)
    BY <1>3 DEF Released, NotReleased, SafeOff, NotSafeOff, Calm, Goto
  <2>2. /\ Active => run.exp # NoTime
        /\ "merged" \in Special' => "merged" \in Special
    BY <2>1, ExpiryAfter
  <2>3. (Retire /\ pbl.status # "none") \/ UNCHANGED peer
    <3>1. CASE Released
      BY <3>1 DEF Released
    <3>2. CASE NotReleased \/ NotSafeOff
      BY <3>2 DEF NotReleased, NotSafeOff
    <3>3. CASE SafeOff
      BY <3>3 DEF SafeOff, LightsBecome
    <3> QED  BY <1>3, <3>1, <3>2, <3>3
  <2> QED  BY <2>1, <2>2, <2>3, ExpiresStill
<1>4. CASE \/ \E T \in SUBSET Leaf : Dispatched(T)
           \/ NotDispatched(TRUE) \/ NotDispatched(FALSE) \/ DispatchFailed
           \/ Settling
  <2>1. Moves
    BY <1>4, DispatchedMoves, NotDispatchedMoves, SettledMoves DEF Moves
  <2>2. UNCHANGED <<disk, peer>>
    BY <1>4 DEF Dispatched, NotDispatched, DispatchFailed, Settling, Calm, Quiet
  <2>3. At("send") \/ At("settling")
    BY <1>4 DEF Dispatched, NotDispatched, DispatchFailed, Settling
  <2>4. Active => run.exp # NoTime
    BY <2>3, ExpiryKnown
  <2> QED  BY <2>1, <2>2, <2>4, ExpiresMove
<1>5. CASE Save \/ Persist
  <2>1. At("save") \/ At("persist")
    BY <1>5 DEF Save, Persist
  <2>2. Active => run.exp # NoTime /\ Backed(run)
    BY <2>1, ExpiryKnown
  <2>3. st' = st /\ disk' = st /\ UNCHANGED peer
    BY <1>5 DEF Save, Persist
  <2>4. "merged" \notin Special'
    <3>1. "save" \in Plain /\ "persist" \in Plain
      BY DEF Plain, StageNames, NeedRun, NeedPrev, FirstOnly
    <3>2. Rest \in Seq(Plain)
      BY <2>1, AtPlain
    <3>3. stack' \in Seq(Plain)
      <4>1. stack' = <<>> \/ stack' = Rest
        BY <1>5 DEF Save, Persist, Goto
      <4>2. <<>> \in Seq(Plain)
        BY EmptySeq
      <4> QED  BY <3>2, <4>1, <4>2
    <3> QED  BY <3>3, SpecialPlain
  <2> QED  BY <2>2, <2>3, <2>4 DEF Expires, Backed, Active, run, peer
<1> QED  BY <1>1, <1>2, <1>3, <1>4, <1>5 DEF Answers

\* A handler has taken an event.
LEMMA HandlersTake ==
    ASSUME Handlers PROVE \E k : Take(k)
BY DEF Handlers, OnStart, OnTimer, OnPoke, OnLeafOff, OnRootOff, OnRevoke,
   OnVacation, OnHazard, OnEnd, OnDismiss, OnAdd, OnDelete, OnStop, OnUnload

\* Every handler that gets the lock.
LEMMA ExpiresHandlers ==
    ASSUME Inner, Outer, Expires, Handlers PROVE Expires'
<1>1. \E kind : Take(kind)
  BY HandlersTake
<1>2. Special = {}
  BY <1>1, StagesOfOne, FirstStages DEF Take, Special, StagesOf
<1>3. Handled
  BY <1>2, PlainHandlers, CancelHandlers, EndHandlers, AlarmHandlers DEF Handlers
<1>4. disk' = disk /\ pbl' = pbl /\ retired' = retired
  BY <1>1 DEF Take, peer
<1>5. Active => run.exp # NoTime /\ Backed(run)
  BY <1>2 DEF Expires, Unanswered
<1>6. "merged" \notin Special'
  BY <1>3 DEF Handled, Quits
<1>7. run' = NoRun \/ (Active /\ run'.lease = run.lease /\ run'.exp = run.exp)
  <2>1. CASE run' = NoRun
    BY <2>1
  <2>2. CASE KeepsLease(run', run)
    BY <2>2, NoRunAssumption DEF KeepsLease, SameGrant, Active
  <2> QED  BY <1>3, <2>1, <2>2 DEF Handled
<1> QED  BY <1>4, <1>5, <1>6, <1>7 DEF Expires, Backed, Active, run

\* The process forgets; the run of the Store comes back.
LEMMA ExpiresForget ==
    ASSUME Inner, Outer, Expires, Forget,
           \/ UNCHANGED peer
           \/ /\ pbl' = IF pbl.status = "none" THEN pbl
                        ELSE [pbl EXCEPT !.status = "recovering", !.grace = clock + Grace]
              /\ retired' = retired
    PROVE  Expires'
<1>1. st' = disk /\ disk' = disk /\ Special' = {}
  <2>1. stack' = <<>> /\ <<>> \in Seq(Plain)
    BY EmptySeq DEF Forget
  <2> QED  BY <2>1, SpecialPlain DEF Forget
<1>2. /\ retired' = retired /\ pbl'.lease = pbl.lease /\ pbl'.exp = pbl.exp
      /\ pbl'.status = "none" <=> pbl.status = "none"
  <2>1. pbl \in Leases
    BY DEF Outer
  <2>2. CASE UNCHANGED peer
    BY <2>2 DEF peer
  <2>3. CASE pbl.status = "none" /\ pbl' = pbl /\ retired' = retired
    BY <2>3
  <2>4. CASE /\ pbl' = [pbl EXCEPT !.status = "recovering", !.grace = clock + Grace]
             /\ pbl.status # "none" /\ retired' = retired
    BY <2>1, <2>4 DEF Leases
  <2> QED  BY <2>2, <2>3, <2>4
<1> QED  BY <1>1, <1>2 DEF Expires, Backed, Active, run

\* At first there is nothing, and every step keeps it.
LEMMA ExpiresInit == Init => Expires
<1> SUFFICES ASSUME Init PROVE Expires
  OBVIOUS
<1>1. run = NoRun /\ disk.run = NoRun /\ stack = <<>> /\ pbl.status = "none"
  BY DEF Init, run, NoLease
<1>2. Special = {}
  BY <1>1, StagesOfOne, FirstStages DEF Special, StagesOf
<1> QED  BY <1>1, <1>2 DEF Expires, Active

\* Every step keeps that.
LEMMA ExpiresNext == TypeInv /\ TypeInv' /\ CanInv /\ Expires /\ [Next]_vars => Expires'
<1> SUFFICES ASSUME Inner, Outer, Inner', CanInv, Expires, [Next]_vars PROVE Expires'
  <2>1. TypeInv' => Inner'
    BY TwoParts DEF TypeInv, TypeOK, Inner
  <2> QED  BY <2>1, TwoParts
<1>1. CASE UNCHANGED vars
  <2>1. /\ st' = st /\ disk' = disk /\ Special' = Special /\ job' = job /\ UNCHANGED peer
    BY <1>1 DEF vars, peer, Special, StagesOf
  <2> QED  BY <2>1, ExpiresStill DEF Expires, Unanswered
<1>2. CASE Stages
  <2>1. CASE Unloaded
    BY <2>1, ExpiresForget DEF Unloaded
  <2>2. CASE ~Unloaded
    BY <1>2, <2>2, ExpiresStages
  <2> QED  BY <2>1, <2>2
<1>3. CASE Users \/ (Machine /\ ~Die)
  <2>1. Still
    BY <1>3 DEF Users, LeafOff, LeafOn, SetVacation, SetRoom, PblRevoke, Command, Machine,
       Tick, FireTimer, Poke, PblExpire, Stop, Unload, Boot, CoreRunning
  <2>2. (Retire /\ pbl.status # "none") \/ UNCHANGED peer
    <3>1. CASE \E l \in Leaf : LeafOff(l)
      BY <3>1 DEF LeafOff, LightsBecome
    <3>2. CASE PblExpire \/ \E u \in BOOLEAN : PblRevoke(u)
      BY <3>2 DEF PblExpire, PblRevoke
    <3>3. CASE UNCHANGED peer
      BY <3>3
    <3> QED  BY <1>3, <3>1, <3>2, <3>3 DEF Users, LeafOn, SetVacation, SetRoom, Command, Machine,
                Tick, FireTimer, Poke, Stop, Unload, Boot, CoreRunning
  <2>3. st' = st /\ disk' = disk /\ job' = job /\ Special' = Special
    BY <2>1, StillSame DEF Still
  <2> QED  BY <2>2, <2>3, ExpiresStill DEF Expires, Unanswered
<1>4. CASE Die
  BY <1>4, ExpiresForget DEF Die
<1> QED  BY <1>1, <1>2, <1>3, <1>4, ExpiresAnswers, ExpiresHandlers DEF Next, Machine

-----------------------------------------------------------------------------
(***************************************************************************)
(* What every stage does: a handler keeps the time it began at, and the    *)
(* next retry is at most a step away.                                      *)
(***************************************************************************)
OnTime == /\ KeepsTime
          /\ retryAt' \in {retryAt, NoTime} \/ retryAt' <= clock + Step

\* Cancelling, failing, retrying and losing a leaf.
LEMMA PartsOnTime ==
    ASSUME Inner, NEW p, NEW l, NEW rest,
           \/ NoCancel(p, rest) \/ FailRecovery(p, rest) \/ ReleaseLeaf(l, rest)
           \/ \E u, v, w : Cancel(p, u, v, w, rest)
    PROVE  job'.now = job.now
<1>0. job \in Jobs
  BY DEF Inner
<1>1. ASSUME NEW q, NEW u, NEW v, NEW w, NEW s, Cancel(q, u, v, w, s) PROVE job'.now = job.now
  BY <1>0, <1>1 DEF Cancel, Jobs
<1>2. NoCancel(p, rest) \/ FailRecovery(p, rest) => job'.now = job.now
  BY <1>0 DEF NoCancel, FailRecovery, Jobs
<1>3. ReleaseLeaf(l, rest) => job'.now = job.now
  BY <1>1 DEF ReleaseLeaf, NoCancel
<1> QED  BY <1>1, <1>2, <1>3

\* A recovery that is not granted.
LEMMA RetriesOnTime ==
    ASSUME Inner, Outer, FenceInner, NEW r \in Run, NEW rest,
           \/ RetryOrFail(r, rest) \/ BlockedRecovery(r, rest)
           \/ FailRecovery(r, rest) /\ UNCHANGED retryAt
    PROVE  OnTime
<1>0. /\ job.now \in Int /\ clock \in Nat /\ job.now <= clock /\ Step \in Nat
      /\ retryAt \in Int
  BY FenceBase, TimeAssumption DEF Inner
<1>1. CASE RetryOrFail(r, rest)
  <2> DEFINE by == IF retryBy = NoTime THEN RetryDeadline(r, job.now) ELSE retryBy
  <2>1. CASE job.now >= by
    BY <1>1, <2>1, PartsOnTime DEF RetryOrFail, OnTime, KeepsTime
  <2>2. CASE ~(job.now >= by)
    <3>1. /\ NoCancel([st EXCEPT !.run = [r EXCEPT !.pending = TRUE]], rest)
          /\ retryAt' = Sooner(job.now + Step, by)
      BY <1>1, <2>2 DEF RetryOrFail
    <3> HIDE DEF by
    <3>2. job'.now = job.now
      BY <3>1 DEF NoCancel
    <3>3. CASE job.now + Step <= by
      BY <1>0, <3>1, <3>2, <3>3 DEF Sooner, OnTime, KeepsTime
    <3>4. CASE ~(job.now + Step <= by)
      <4>1. retryAt' = by
        BY <3>1, <3>4 DEF Sooner
      <4>2. by \in Int
        BY <1>0, RetryDeadlineType DEF by, Inner
      <4> QED  BY <1>0, <3>2, <3>4, <4>1, <4>2 DEF OnTime, KeepsTime
    <3> QED  BY <3>3, <3>4
  <2> QED  BY <2>1, <2>2
<1>2. CASE FailRecovery(r, rest) /\ UNCHANGED retryAt
  BY <1>2, PartsOnTime DEF OnTime, KeepsTime
<1>3. CASE BlockedRecovery(r, rest) /\ ~RetryOrFail(r, rest)
  BY <1>3, PartsOnTime DEF BlockedRecovery, OnTime, KeepsTime
<1> QED  BY <1>1, <1>2, <1>3

\* The run that a recovery goes on with.
LEMMA RecoverKept ==
    ASSUME Inner, Outer, RecoverRun
    PROVE  LET kept == Watched(ReleaseLeaves(run, GoneLeaves), job.now)
           IN  run \in Run /\ kept \in Run /\ kept.exp = run.exp /\ kept.occs = run.occs
<1> DEFINE less == ReleaseLeaves(run, GoneLeaves)
           kept == Watched(less, job.now)
<1>1. run \in Run
  BY ActiveRun DEF RecoverRun
<1>2. less \in Run
  <2>1. GoneLeaves = {} \/ ~(run.targets \subseteq GoneLeaves)
    BY DEF RecoverRun, NoTargetLeft
  <2> QED  BY <1>1, <2>1, ReleaseLeavesType
<1>3. less.exp = run.exp /\ less.occs = run.occs
  BY <1>1, <1>2, ReleaseLeavesKeeps
<1>4. kept \in Run /\ kept.exp = less.exp /\ kept.occs = less.occs
  BY <1>2, WatchedKeeps DEF Outer
<1> QED  BY <1>1, <1>3, <1>4

\* Every stage.
LEMMA StagesOnTime ==
    ASSUME Inner, Outer, FenceInner, Stages, ~Unloaded PROVE OnTime
<1>0. /\ job \in Jobs /\ job.now \in Int /\ clock \in Nat /\ job.now <= clock /\ Step \in Nat
      /\ lights \in [Leaf -> 0 .. Full]
  BY FenceBase, TimeAssumption DEF Outer
<1>1. CASE Reconcile \/ Drain \/ Dispatch \/ Updated \/ Finish
  <2>1. retryAt' = retryAt
    BY <1>1 DEF Reconcile, Drain, Dispatch, Updated, Finish
  <2>2. KeepsTime
    <3>1. \/ job' = job \/ (job' = NoJob /\ stack' = <<>>)
          \/ \E p, s : NoCancel(p, s) \/ \E l : ReleaseLeaf(l, s)
          \/ \E p, u, v, w, s : Cancel(p, u, v, w, s)
      BY <1>1 DEF Reconcile, Drain, Dispatch, Updated, Finish, Goto
    <3>2. NoJob.now = NoTime
      BY DEF NoJob
    <3> QED  BY <3>1, <3>2, PartsOnTime DEF KeepsTime
  <2> QED  BY <2>1, <2>2 DEF OnTime
<1>2. CASE Pending
  <2>1. Active => run \in Run
    BY ActiveRun
  <2>2. \/ \E s : NoCancel(st, s) /\ UNCHANGED retryAt
        \/ /\ Active
           /\ \/ FailRecovery(run, <<"finish">>) /\ UNCHANGED retryAt
              \/ BlockedRecovery(run, <<"finish">>)
    BY <1>2 DEF Pending
  <2> QED  BY <2>1, <2>2, PartsOnTime, RetriesOnTime DEF OnTime, KeepsTime
<1>3. CASE Reacquired \/ Recovered
  <2>1. run \in Run
    BY <1>3, AtNeeds DEF Reacquired, Recovered, NeedRun
  <2>2. \/ \E p, s : NoCancel(p, s) /\ retryAt' \in {retryAt, NoTime}
        \/ \E s : \/ FailRecovery(run, s) /\ UNCHANGED retryAt
                  \/ RetryOrFail(run, s)
    BY <1>3 DEF Reacquired, Recovered, NotRecovered
  <2> QED  BY <2>1, <2>2, PartsOnTime, RetriesOnTime DEF OnTime, KeepsTime
<1>4. CASE JoinDue
  <2>1. retryAt' \in {retryAt, NoTime}
    BY <1>4 DEF JoinDue
  <2>2. \/ \E p, s : NoCancel(p, s)
        \/ \E p, u, v, w, s : Cancel(p, u, v, w, s)
        \/ \E r : job' = [job EXCEPT !.prev = r]
    BY <1>4 DEF JoinDue
  <2>3. job'.now = job.now
    <3>1. CASE \E r : job' = [job EXCEPT !.prev = r]
      BY <1>0, <3>1 DEF Jobs
    <3> QED  BY <2>2, <3>1, PartsOnTime
  <2> QED  BY <2>1, <2>3 DEF OnTime, KeepsTime
<1>5. CASE \/ Merged \/ Complete \/ CompletedRun \/ Cancelled \/ Failed \/ Abandoned
           \/ Ended \/ Fence \/ RecoverNoTargets
  <2>1. retryAt' \in {retryAt, NoTime}
    BY <1>5 DEF Merged, Complete, CompletedRun, Cancelled, Failed, Abandoned, Ended, Fence,
       RecoverNoTargets
  <2>2. \/ job' = job \/ \E r : job' = [job EXCEPT !.prev = r]
        \/ \E p, s : NoCancel(p, s)
    BY <1>5 DEF Merged, Complete, CompletedRun, Cancelled, Failed, Abandoned, Ended, Fence,
       RecoverNoTargets
  <2>3. job'.now = job.now
    <3>1. CASE \E r : job' = [job EXCEPT !.prev = r]
      BY <1>0, <3>1 DEF Jobs
    <3> QED  BY <2>2, <3>1, PartsOnTime
  <2> QED  BY <2>1, <2>3 DEF OnTime, KeepsTime
<1>6. CASE Begin \/ Started
  <2>1. retryAt' \in {retryAt, NoTime, job.now + Step}
    BY <1>6 DEF Begin, Started
  <2>2. \E p, s : NoCancel(p, s)
    BY <1>6 DEF Begin, Started
  <2>3. KeepsTime
    BY <2>2, PartsOnTime DEF KeepsTime
  <2> QED  BY <1>0, <2>1, <2>3 DEF OnTime
<1>7. CASE Decide
  <2>1. \/ \E p, s : NoCancel(p, s)
        \/ \E f, v : job' = [job EXCEPT !.force = f, !.level = v]
    BY <1>7 DEF Decide
  <2>2. job'.now = job.now
    <3>1. CASE \E f, v : job' = [job EXCEPT !.force = f, !.level = v]
      BY <1>0, <3>1 DEF Jobs
    <3> QED  BY <2>1, <3>1, PartsOnTime
  <2> QED  BY <1>7, <2>2 DEF OnTime, KeepsTime, Decide
<1>8. CASE RecoverNothing \/ RecoverRootOff
  BY <1>8, PartsOnTime DEF RecoverNothing, RecoverRootOff, OnTime, KeepsTime
<1>9. CASE RecoverRun
  <2> DEFINE kept == Watched(ReleaseLeaves(run, GoneLeaves), job.now)
  <2>1. kept \in Run
    BY <1>0, <1>9, RecoverKept
  <2>2. \/ BlockedRecovery(kept, Rest)
        \/ FailRecovery(kept, Rest) /\ UNCHANGED retryAt
        \/ NoCancel([st EXCEPT !.run = [kept EXCEPT !.pending = TRUE]],
                    <<"acquire", "recovered">> \o Rest) /\ UNCHANGED retryAt
    BY <1>9 DEF RecoverRun
  <2> HIDE DEF kept
  <2> QED  BY <2>1, <2>2, PartsOnTime, RetriesOnTime DEF OnTime, KeepsTime
<1> QED  BY <1>1, <1>2, <1>3, <1>4, <1>5, <1>6, <1>7, <1>8, <1>9 DEF Stages

-----------------------------------------------------------------------------
\* A stage that plods on takes no recovery up; unless the run ends or is given
\* up, the lease and the recovery of the run are what they were.
LEMMA PlodsOn ==
    ASSUME CanInv, Expires, Plods
    PROVE  /\ Special' \cap Recovering = {} /\ "recover" \notin Special'
           /\ Over \/ /\ Active /\ Active' /\ Special \cap Quits = {}
                      /\ run'.pending = run.pending /\ run'.exp = run.exp
<1> USE DEF Quits, Recovering, Over, Active
<1>1. CASE Carries
  BY <1>1, NoRunAssumption DEF Carries, KeepsLease, SameGrant
<1>2. CASE Quitting
  BY <1>2 DEF Quitting
<1>3. CASE Gone
  BY <1>3 DEF Gone
<1>4. CASE Joins
  BY <1>4, NoRunAssumption DEF Joins, Extended, SameGrant, Active
<1>5. CASE Completes
  BY <1>5 DEF Completes
<1>6. CASE PutsBack /\ Special' \cap Quits = {} /\ Active'
  <2>1. job.prev.exp = run.exp /\ job.prev.pending = run.pending
    BY <1>6 DEF PutsBack, Expires, CanInv, SamePrev
  <2> QED  BY <1>6, <2>1 DEF PutsBack
<1>7. CASE Opens
  BY <1>7 DEF Opens
<1>8. PutsBack => Special' = {}
  BY DEF PutsBack
<1> QED  BY <1>1, <1>2, <1>3, <1>4, <1>5, <1>6, <1>7, <1>8 DEF Plods

\* Once nothing is pending, plodding on or starting a run leaves it so.
LEMMA LateMove ==
    ASSUME CanInv, Expires, Plods \/ Starts, Listening => ~Waiting,
           phase \in NotUp /\ Active' =>
              retryAt' \in {retryAt, NoTime} /\ retryBy' \in {retryBy, NoTime}
    PROVE  Over \/ Free
<1>1. CASE Plods
  <2>1. CASE Over
    BY <2>1
  <2>2. CASE ~Over
    BY <1>1, <2>2, PlodsOn DEF Free, Waiting
  <2> QED  BY <2>1, <2>2
<1>2. CASE Starts
  <2>1. phase \notin NotUp
    BY <1>2 DEF Starts, Preflight, Available, NotUp
  <2> QED  BY <1>2, <2>1 DEF Starts, Free, Waiting, Recovering
<1> QED  BY <1>1, <1>2

\* Plodding on before or after the look at a pending recovery.
LEMMA GoesMove ==
    ASSUME CanInv, Expires, Plods, retryAt' = retryAt, retryBy' = retryBy,
           Active /\ Active' => run.occs \cup st.terminal \subseteq run'.occs \cup st'.terminal,
           Listening /\ Waiting /\ ~Over =>
             \/ StagesOf(stack)' \cap Pre # {}
             \/ /\ stack' # <<>> /\ StagesOf(stack)' \subseteq {"finish", "save"}
                /\ retryAt # NoTime /\ job'.now < retryBy
             \/ /\ stack' = <<>> /\ timer' # NoTime /\ timer' <= clock + Step
                /\ retryBy # NoTime /\ timer' <= retryBy
    PROVE  Over \/ Goes
<1>1. CASE Over
  BY <1>1
<1>2. CASE ~Over
  <2>1. /\ Special' \cap Recovering = {} /\ Active /\ Active' /\ Special \cap Quits = {}
        /\ run'.pending = run.pending /\ run'.exp = run.exp
    BY <1>2, PlodsOn
  <2>2. Keeps
    BY <2>1 DEF Keeps
  <2>3. Waiting' <=> Waiting
    BY <2>1 DEF Waiting
  <2> QED  BY <1>2, <2>1, <2>2, <2>3 DEF Goes
<1> QED  BY <1>1, <1>2

\* After the look at the pending recovery nothing is pending.
LEMMA LateIdle ==
    ASSUME Inner, RetryInv, At("active") \/ At("merged") \/ At("complete") \/ At("completed")
             \/ At("begin") \/ At("started") \/ At("dispatch") \/ At("decide") \/ At("send")
    PROVE  Listening => ~Waiting
<1>1. PICK a \in {"active", "merged", "complete", "completed", "begin", "started", "dispatch",
                  "decide", "send"} : At(a)
  OBVIOUS
<1>2. Ahead(stack, ~Listening)
  BY DEF RetryInv
<1>3. StagesOf(Rest) \cap Pre = {}
  BY <1>1, <1>2, AheadAt DEF Late
<1>4. StagesOf(stack) = {a} \cup StagesOf(Rest) /\ stack # <<>>
  BY <1>1, StagesAt DEF At
<1>5. Special = {a} \ Plain
  BY <1>1, SpecialAt
<1>6. ~Undecided
  BY <1>1, <1>5 DEF Undecided, Quits, Recovering
<1>7. StagesOf(stack) \cap Pre = {} /\ ~(StagesOf(stack) \subseteq {"finish", "save"})
  BY <1>1, <1>3, <1>4 DEF Pre
<1> QED  BY <1>4, <1>6, <1>7 DEF RetryInv, Chosen

\* Before it, a handler that has nothing else to decide still comes to it.
LEMMA RestPre ==
    ASSUME Inner, RetryInv, NEW a, At(a), a \notin Pre \cup {"finish", "save"},
           Special \cap ({"recover"} \cup Quits \cup Recovering) = {}, Listening, Waiting
    PROVE  StagesOf(Rest) \cap Pre # {}
<1>1. StagesOf(stack) = {a} \cup StagesOf(Rest) /\ stack # <<>>
  BY StagesAt DEF At
<1>2. ~(StagesOf(stack) \subseteq {"finish", "save"})
  BY <1>1
<1>3. StagesOf(stack) \cap Pre # {}
  BY <1>1, <1>2 DEF RetryInv, Chosen, Undecided
<1> QED  BY <1>1, <1>3

-----------------------------------------------------------------------------
(***************************************************************************)
(* Retrying and failing.                                                   *)
(***************************************************************************)
\* A recovery that fails is given up.
LEMMA FailsOver ==
    ASSUME Inner, NEW r \in Run, NEW rest \in Seq(Plain), FailRecovery(r, rest)
    PROVE  Over
BY FailRecoveryDoes DEF Over, Quits, Recovering

\* So is a run that is cancelled.
LEMMA CancelsOver ==
    ASSUME Inner, clock \in Nat, NEW p \in Profile, NEW u \in BOOLEAN, NEW v \in BOOLEAN,
           NEW w \in BOOLEAN, NEW rest \in Seq(Plain), Cancel(p, u, v, w, rest)
    PROVE  Over
<1>1. p.run = NoRun => Special' = {} /\ st'.run = NoRun
  BY CancelDoes
<1>2. p.run # NoRun => "cancelled" \in Special' /\ Special' \subseteq {"release", "cancelled"}
  BY CancelDoes
<1> QED  BY <1>1, <1>2 DEF Over, Quits, Recovering, Active, run

\* The deadline of the retries is within the catch-up of the last alarm.
LEMMA DeadlineLimited ==
    ASSUME NEW r \in Run, NEW now \in Int, r.exp # NoTime, Begun(r, clock)
    PROVE  /\ RetryDeadline(r, now) <= r.exp
           /\ \E o \in r.occs : /\ RampStart[o] <= clock
                                /\ RetryDeadline(r, now) <= WakeAt[o] + Catchup
<1> DEFINE S == {WakeAt[o] : o \in r.occs}
           last == LastDeadline(r)
<1>1. /\ r.occs \in SUBSET Occ /\ r.occs # {} /\ r.exp \in Int /\ r # NoRun
      /\ \A o \in r.occs : WakeAt[o] \in Nat
      /\ Catchup \in Nat /\ RetryBudget \in Nat
  BY TimeAssumption, NoRunAssumption DEF Run
<1>2. IsFiniteSet(S) /\ S \subseteq Int /\ S # {}
  <2>1. IsFiniteSet(r.occs)
    BY <1>1, OccAssumption, FS_Subset
  <2>2. IsFiniteSet(S)
    <3> DEFINE f == [o \in r.occs |-> WakeAt[o]]
    <3>1. IsFiniteSet({f[o] : o \in r.occs})
      BY <2>1, TimesFinite
    <3>2. {f[o] : o \in r.occs} = S
      OBVIOUS
    <3> QED  BY <3>1, <3>2
  <2> QED  BY <1>1, <2>2
<1>3. last \in S /\ last \in Int
  BY <1>2, LatestIn DEF LastDeadline
<1>4. PICK o \in r.occs : last = WakeAt[o]
  BY <1>3
<1>5. RampStart[o] <= clock
  BY <1>1 DEF Begun
<1> HIDE DEF S, last
<1>6. RetryDeadline(r, now) = Sooner(Sooner(now + RetryBudget, last + Catchup), r.exp)
  BY DEF RetryDeadline, last
<1>7. RetryDeadline(r, now) <= last + Catchup /\ RetryDeadline(r, now) <= r.exp
  BY <1>1, <1>3, <1>6 DEF Sooner
<1> QED  BY <1>4, <1>5, <1>7

\* A recovery that is tried again later, on a run with its expiry.
LEMMA RetryAgain ==
    ASSUME Inner, Outer, FenceInner, RetryInv, clock' = clock, Active, phase \notin NotUp,
           NEW r \in Run, r.exp = run.exp, run.exp # NoTime, r.occs = run.occs,
           NEW rest \in Seq(Plain), rest # <<>>,
           Listening => \/ StagesOf(rest) \cap Pre # {}
                        \/ StagesOf(rest) \subseteq {"finish", "save"},
           Listening /\ retryBy # NoTime => Limited(retryBy),
           RetryOrFail(r, rest)
    PROVE  Over \/ Again
<1> DEFINE by == IF retryBy = NoTime THEN RetryDeadline(r, job.now) ELSE retryBy
<1>0. /\ job.now \in Int /\ job.now >= NoTime /\ Step \in Nat \ {0} /\ st \in Profile
      /\ clock \in Nat /\ Begun(run, clock) /\ retryBy \in Int /\ run \in Run
  BY FenceBase, TimeAssumption, ActiveRun DEF Inner, RetryInv, Timed
<1>1. CASE job.now >= by
  BY <1>1, FailsOver DEF RetryOrFail
<1>2. CASE ~(job.now >= by)
  <2>1. /\ retryBy' = by /\ retryAt' = Sooner(job.now + Step, by)
        /\ NoCancel([st EXCEPT !.run = [r EXCEPT !.pending = TRUE]], rest)
    BY <1>2 DEF RetryOrFail
  <2>2. by \in Int
    BY <1>0, RetryDeadlineType
  <2>3. /\ stack' = rest /\ job' = job /\ Special' = {}
        /\ st' = [st EXCEPT !.run = [r EXCEPT !.pending = TRUE]]
    BY <2>1, NoCancelDoes DEF NoCancel, Goto
  <2>4. run'.exp = run.exp /\ run'.occs = run.occs /\ st'.terminal = st.terminal
    BY <1>0, <2>3 DEF Profile, Run, run
  <2>5. Begun(r, clock)
    BY <1>0, NoRunAssumption DEF Begun
  <2>6. ASSUME Listening
        PROVE  /\ by <= run.exp
               /\ \E o \in run.occs \cup st.terminal :
                     RampStart[o] <= clock /\ by <= WakeAt[o] + Catchup
    <3>1. CASE retryBy = NoTime
      <4>1. by = RetryDeadline(r, job.now)
        BY <3>1
      <4>2. /\ by <= r.exp
            /\ \E o \in r.occs : RampStart[o] <= clock /\ by <= WakeAt[o] + Catchup
        BY <1>0, <2>5, <4>1, DeadlineLimited
      <4> QED  BY <4>2
    <3>2. CASE retryBy # NoTime
      BY <2>6, <3>2 DEF Limited
    <3> QED  BY <3>1, <3>2
  <2> HIDE DEF by
  <2>7. retryAt' # NoTime /\ retryBy' # NoTime /\ retryAt' <= retryBy' /\ job.now < retryBy'
    BY <1>0, <1>2, <2>1, <2>2 DEF Sooner, NoTime
  <2>8. Listening => Limited(retryBy)'
    BY <2>1, <2>4, <2>6 DEF Limited
  <2>9. stack' # <<>> /\ StagesOf(stack)' = StagesOf(rest)
    BY <2>3 DEF StagesOf
  <2> QED  BY <2>3, <2>7, <2>8, <2>9 DEF Again
<1> QED  BY <1>1, <1>2

-----------------------------------------------------------------------------
\* A pending recovery has its expiry, unless a run is being started.
LEMMA PendingExpires ==
    ASSUME Inner, Expires, RetryInv, Active, run.pending \/ Special \cap {"recover"} # {}
    PROVE  "started" \notin Special => run.exp # NoTime
BY DEF Expires, Unanswered

\* Preflight blocks the recovery of r, a run like the one there is.
LEMMA BlockedAgain ==
    ASSUME Inner, Outer, FenceInner, RetryInv, clock' = clock, Active,
           NEW r \in Run, r.exp = run.exp, run.exp # NoTime, r.occs = run.occs,
           NEW rest \in Seq(Plain), rest # <<>>,
           Listening => \/ StagesOf(rest) \cap Pre # {}
                        \/ StagesOf(rest) \subseteq {"finish", "save"},
           Listening /\ retryBy # NoTime => Limited(retryBy),
           BlockedRecovery(r, rest)
    PROVE  Over \/ Again
<1>1. CASE Retryable /\ RetryOrFail(r, rest)
  <2>1. phase \notin NotUp
    BY <1>1 DEF Retryable, Available, NotUp
  <2> QED  BY <1>1, <2>1, RetryAgain
<1>2. CASE Cancel([st EXCEPT !.run = r], FALSE, FALSE, VacationBlocks, rest)
  <2>1. /\ [st EXCEPT !.run = r] \in Profile /\ VacationBlocks \in BOOLEAN /\ clock \in Nat
    BY DEF Inner, Outer, Profile, VacationBlocks, Available
  <2> QED  BY <1>2, <2>1, CancelsOver
<1> QED  BY <1>1, <1>2 DEF BlockedRecovery

\* The look at the pending recovery.
LEMMA PendingMoves ==
    ASSUME Inner, Outer, FenceInner, Expires, RetryInv, Pending
    PROVE  Over \/ Free \/ Again \/ Asks
<1>0. /\ st \in Profile /\ job.now \in Int /\ job.now >= NoTime /\ clock \in Nat
      /\ retryAt \in Int /\ retryBy \in Int
  BY FenceBase DEF Inner, Outer, RetryInv, Timed
<1>1. /\ Rest \in Seq(Plain) /\ <<"finish">> \in Seq(Plain) /\ At("pending")
      /\ Special = {} /\ clock' = clock
  <2>1. Special = {}
    BY PlainNamesPlain, PlainAt DEF Pending, PlainNames
  <2> QED  BY <2>1, AtPlain, PipelinePlain DEF Pending, Quiet, world
<1>2. CASE ~Waiting
  <2>1. NoCancel(st, Rest) /\ UNCHANGED <<retryAt, retryBy>>
    BY <1>2 DEF Pending, Waiting
  <2>2. Special' = {} /\ run' = run
    BY <1>1, <2>1, NoCancelDoes DEF run
  <2> QED  BY <1>1, <1>2, <2>1, <2>2 DEF Over, Free, Waiting, Active
<1>3. CASE Waiting
  <2>0. /\ Active /\ run.pending /\ run \in Run /\ run.exp # NoTime
        /\ Listening /\ retryBy # NoTime => Limited(retryBy)
        /\ Listening /\ retryAt # NoTime => retryBy # NoTime /\ retryAt <= retryBy
        /\ phase \in NotUp => retryAt = NoTime
    <3>1. Active /\ run.pending /\ run \in Run
      BY <1>3, ActiveRun DEF Waiting
    <3>2. Special \cap Quits = {} /\ "started" \notin Special
      BY <1>1
    <3> QED  BY <1>3, <3>1, <3>2, PendingExpires DEF RetryInv, Retrying, NeverTried, Fresh
  <2>1. CASE /\ retryAt # NoTime /\ retryAt > job.now
             /\ NoCancel(st, <<"finish">>) /\ UNCHANGED <<retryAt, retryBy>>
    <3>1. stack' = <<"finish">> /\ job' = job /\ st' = st /\ Special' = {}
      BY <1>1, <2>1, NoCancelDoes DEF NoCancel, Goto
    <3>2. stack' # <<>> /\ StagesOf(stack)' = {"finish"}
      BY <3>1 DEF StagesOf
    <3>3. Listening => Limited(retryBy)'
      BY <1>1, <2>0, <2>1, <3>1 DEF Limited, run
    <3>4. phase \notin NotUp
      BY <2>0, <2>1
    <3> QED  BY <1>0, <2>0, <2>1, <3>1, <3>2, <3>3, <3>4 DEF Again
  <2>2. CASE FailRecovery(run, <<"finish">>)
    BY <1>1, <2>0, <2>2, FailsOver
  <2>3. CASE BlockedRecovery(run, <<"finish">>)
    <3>1. <<"finish">> # <<>> /\ StagesOf(<<"finish">>) = {"finish"}
      BY DEF StagesOf
    <3> QED  BY <1>1, <2>0, <2>3, <3>1, BlockedAgain
  <2>4. CASE /\ Preflight /\ NoCancel(st, <<"acquire", "reacquired">> \o Rest)
             /\ UNCHANGED <<retryAt, retryBy>>
    <3>1. Special' = {"acquire", "reacquired"} /\ st' = st
      BY <1>1, <2>4, CallSpecial DEF NoCancel, Goto
    <3>2. phase \notin NotUp
      BY <2>4 DEF Preflight, Available, NotUp
    <3>3. Keeps
      BY <3>1 DEF Keeps, run
    <3> QED  BY <1>1, <1>3, <2>0, <2>4, <3>1, <3>2, <3>3 DEF Asks, Recovering, Quits, run
  <2> QED  BY <1>3, <2>1, <2>2, <2>3, <2>4 DEF Pending, Waiting
<1> QED  BY <1>2, <1>3

\* The answer to the acquire of a recovery.
LEMMA AnsweredMoves ==
    ASSUME Inner, Outer, FenceInner, Expires, RetryInv, Reacquired \/ Recovered
    PROVE  Over \/ Free \/ Again
<1>0. st \in Profile /\ run \in Run /\ clock' = clock
  BY AtNeeds DEF Inner, Reacquired, Recovered, NeedRun, Quiet, world
<1>1. /\ Rest \in Seq(Plain) /\ <<"finish">> \in Seq(Plain)
      /\ Special = {"recovered"} \/ Special = {"reacquired"}
      /\ Recovered => Special = {"recovered"}
  <2>1. {"recovered", "reacquired"} \cap Plain = {}
    BY DEF Plain, NeedRun
  <2>2. Special = {"recovered"} \/ Special = {"reacquired"}
    BY <2>1, SpecialAt DEF Recovered, Reacquired
  <2>3. Recovered => Special = {"recovered"}
    BY <2>1, SpecialAt DEF Recovered
  <2> QED  BY <2>2, <2>3, AtPlain, PipelinePlain DEF Reacquired, Recovered
<1>2. /\ Active /\ run.pending /\ phase \notin NotUp /\ Special \cap Quits = {}
      /\ run.exp # NoTime
  <2>1. Active /\ run.pending /\ phase \notin NotUp /\ Special \cap Quits = {}
    BY <1>0, <1>1, NoRunAssumption DEF RetryInv, Resuming, Recovering, Quits, Active
  <2>2. "started" \notin Special
    BY <1>1
  <2> QED  BY <2>1, <2>2, PendingExpires
<1>3. Listening /\ retryBy # NoTime => Limited(retryBy)
  BY <1>2 DEF RetryInv, Retrying, Waiting
<1>4. CASE /\ NoCancel([st EXCEPT !.run = Resumed], Rest)
           /\ retryBy' = NoTime /\ retryAt' \in {retryAt, NoTime}
  <2>1. run' = Resumed /\ Special' = {}
    BY <1>0, <1>1, <1>4, NoCancelDoes DEF Profile, run
  <2>2. RefreshHolds(run, job.now) \in Run
    <3>1. job.now \in Int
      BY DEF Inner, Jobs
    <3> QED  BY <1>0, <3>1, RefreshHoldsType
  <2>3. ~run'.pending
    BY <2>1, <2>2 DEF Resumed, Run
  <2> QED  BY <1>2, <2>1, <2>3 DEF Free, Waiting
<1>5. CASE Recovered /\ NotRecovered(Rest)
  <2>1. "reconcile" \in StagesOf(stack) /\ At("recovered")
    BY <1>1, <1>5 DEF RetryInv, Resuming, Soon, Recovered
  <2>2. "reconcile" \in StagesOf(Rest)
    BY <2>1, StagesAt
  <2>3. Rest # <<>>
    BY <2>2 DEF StagesOf
  <2>4. StagesOf(Rest) \cap Pre # {}
    BY <2>2 DEF Pre
  <2> QED  BY <1>0, <1>1, <1>2, <1>3, <1>5, <2>3, <2>4, FailsOver, RetryAgain DEF NotRecovered
<1>6. CASE NotRecovered(<<"finish">>)
  <2>1. <<"finish">> # <<>> /\ StagesOf(<<"finish">>) = {"finish"}
    BY DEF StagesOf
  <2> QED  BY <1>0, <1>1, <1>2, <1>3, <1>6, <2>1, FailsOver, RetryAgain DEF NotRecovered
<1> QED  BY <1>4, <1>5, <1>6 DEF Reacquired, Recovered

\* A restart takes the run of the Store up.
LEMMA RecoverRunMoves ==
    ASSUME Inner, Outer, FenceInner, Expires, RetryInv, RecoverRun
    PROVE  Over \/ Again \/ Asks
<1> DEFINE kept == Watched(ReleaseLeaves(run, GoneLeaves), job.now)
<1>0. /\ st \in Profile /\ clock' = clock /\ Active /\ At("recover") /\ Rest \in Seq(Plain)
  BY AtPlain DEF Inner, RecoverRun, Quiet, world
<1>1. Special = {"recover"}
  <2>1. "recover" \notin Plain
    BY DEF Plain, FirstOnly
  <2> QED  BY <1>0, <2>1, SpecialAt
<1>2. run \in Run /\ kept \in Run /\ kept.exp = run.exp /\ kept.occs = run.occs
  BY RecoverKept
<1>3. run.exp # NoTime
  BY <1>0, <1>1, PendingExpires
<1>4. retryAt = NoTime /\ retryBy = NoTime
  BY <1>0, <1>1 DEF RetryInv, NeverTried, Fresh, Quits
<1>5. "reconcile" \in StagesOf(Rest)
  <2>1. "reconcile" \in StagesOf(stack)
    BY <1>1 DEF RetryInv, Resuming, Soon
  <2> QED  BY <1>0, <2>1, StagesAt
<1>6. Rest # <<>> /\ StagesOf(Rest) \cap Pre # {}
  BY <1>5 DEF StagesOf, Pre
<1>7. \/ BlockedRecovery(kept, Rest)
      \/ FailRecovery(kept, Rest)
      \/ /\ Preflight /\ NoCancel([st EXCEPT !.run = [kept EXCEPT !.pending = TRUE]],
                                  <<"acquire", "recovered">> \o Rest)
         /\ UNCHANGED <<retryAt, retryBy>>
  BY DEF RecoverRun
<1> HIDE DEF kept
<1>8. CASE BlockedRecovery(kept, Rest)
  BY <1>0, <1>2, <1>3, <1>4, <1>6, <1>8, BlockedAgain
<1>9. CASE FailRecovery(kept, Rest)
  BY <1>0, <1>2, <1>9, FailsOver
<1>10. CASE /\ Preflight /\ NoCancel([st EXCEPT !.run = [kept EXCEPT !.pending = TRUE]],
                                     <<"acquire", "recovered">> \o Rest)
            /\ UNCHANGED <<retryAt, retryBy>>
  <2>1. stack' = <<"acquire", "recovered">> \o Rest
    BY <1>10 DEF NoCancel, Goto
  <2>2. Special' = {"acquire", "recovered"}
    BY <1>0, <2>1, CallSpecial
  <2>3. run'.pending
    BY <1>0, <1>2, <1>10 DEF NoCancel, Profile, Run, run
  <2>4. phase \notin NotUp
    BY <1>10 DEF Preflight, Available, NotUp
  <2>5. Soon("reconcile")'
    <3>1. Rest \in Seq(StageNames) /\ "acquire" \in StageNames /\ "recovered" \in StageNames
      BY <1>0, SeqDef DEF Plain, StageNames
    <3>2. StagesOf(stack') = {"acquire", "recovered"} \cup StagesOf(Rest)
      BY <2>1, <3>1, StagesOfTwo
    <3> QED  BY <1>5, <3>2, StagesNext DEF Soon
  <2> QED  BY <1>4, <1>10, <2>2, <2>3, <2>4, <2>5 DEF Asks, Recovering, Quits
<1> QED  BY <1>7, <1>8, <1>9, <1>10

\* A restart that finds no run, or gives it up.
LEMMA RecoverOver ==
    ASSUME Inner, Outer, RecoverNothing \/ RecoverRootOff \/ RecoverNoTargets PROVE Over
<1>0. st \in Profile /\ clock \in Nat
  BY DEF Inner, Outer
<1>1. Rest \in Seq(Plain)
  BY AtPlain DEF RecoverNothing, RecoverRootOff, RecoverNoTargets
<1>2. CASE RecoverNothing
  BY <1>1, <1>2, NoCancelDoes DEF RecoverNothing, Over, Active, run
<1>3. CASE RecoverRootOff
  BY <1>0, <1>1, <1>3, CancelsOver DEF RecoverRootOff
<1>4. CASE RecoverNoTargets
  <2>1. stack' = ReleaseOf(run) \o <<"abandoned">> \o Rest
    BY <1>4 DEF RecoverNoTargets, Goto
  <2>2. "abandoned" \in StageNames \ Plain
    BY DEF StageNames, Plain, NeedPrev
  <2>3. Special' = {"abandoned"} \cup (IF run.gen = 0 THEN {} ELSE {"release"})
    BY <1>1, <2>1, <2>2, SpecialRelease
  <2> QED  BY <2>3 DEF Over, Quits, Recovering
<1> QED  BY <1>2, <1>3, <1>4

-----------------------------------------------------------------------------
\* The stages after the look at the pending recovery.
LEMMA LateStages ==
    ASSUME Inner, Outer, CanInv, Expires, RetryInv,
           \/ JoinDue \/ Merged \/ Complete \/ CompletedRun \/ Begin \/ Started \/ Dispatch
           \/ Decide
    PROVE  Over \/ Free
<1>0. st \in Profile
  BY DEF Inner
<1>1. Listening => ~Waiting
  BY LateIdle DEF JoinDue, Merged, Complete, CompletedRun, Begin, Started, Dispatch, Decide
<1>2. Plods \/ Starts
  BY JoinMoves, AnswerMoves, CompleteMoves, EndMoves, BeginMoves, EasyMoves, DecideMoves
<1>3. phase \in NotUp /\ Active' =>
         retryAt' \in {retryAt, NoTime} /\ retryBy' \in {retryBy, NoTime}
  <2>1. CASE Begin
    <3>1. /\ retryBy' = retryBy
          /\ retryAt' \in {retryAt, NoTime} \/ (~Active /\ NoCancel(st, Rest))
      BY <2>1 DEF Begin
    <3> QED  BY <3>1 DEF NoCancel, Active, run
  <2>2. CASE Started
    <3>1. /\ retryBy' = retryBy
          /\ retryAt' = retryAt \/ NoCancel([st EXCEPT !.run = NoRun], Rest)
      BY <2>2 DEF Started
    <3> QED  BY <1>0, <3>1 DEF NoCancel, Active, run, Profile
  <2>3. CASE JoinDue
    BY <2>3 DEF JoinDue
  <2>4. CASE Merged \/ Complete \/ CompletedRun \/ Dispatch \/ Decide
    BY <2>4 DEF Merged, Complete, CompletedRun, Dispatch, Decide
  <2> QED  BY <2>1, <2>2, <2>3, <2>4
<1> QED  BY <1>1, <1>2, <1>3, LateMove

\* The stages at which a run ends.
LEMMA EndStages ==
    ASSUME Inner, Outer, CanInv, Expires, Cancelled \/ Failed \/ Abandoned \/ Fence
    PROVE  Over
<1>1. Plods
  BY EndMoves
<1>2. CASE Cancelled \/ Failed \/ Abandoned
  <2>1. {"cancelled", "failed", "abandoned"} \cap Plain = {}
    BY DEF Plain, NeedRun, NeedPrev
  <2>2. Special \cap Quits # {}
    BY <1>2, <2>1, SpecialAt DEF Cancelled, Failed, Abandoned, Quits
  <2> QED  BY <1>1, <2>2, PlodsOn
<1>3. CASE Fence
  <2>1. ~Active'
    BY <1>3 DEF Fence, RememberUserCancellation, Active, run, Inner, Profile
  <2> QED  BY <1>1, <2>1, PlodsOn
<1> QED  BY <1>2, <1>3

\* Losing a leaf, or not, before the stages rest.
LEMMA LeafGoes ==
    ASSUME Inner, Outer, NEW l, NEW rest \in Seq(Plain),
           NoCancel(st, rest) \/ ReleaseLeaf(l, rest)
    PROVE  Over \/ /\ StagesOf(rest) \subseteq StagesOf(stack)'
                   /\ st'.terminal = st.terminal
                   /\ Active => run'.occs = run.occs
<1>0. st \in Profile /\ clock \in Nat /\ rest \in Seq(StageNames)
  BY SeqDef DEF Inner, Outer, Plain
<1>1. CASE NoCancel(st, rest)
  BY <1>1 DEF NoCancel, Goto, run, StagesOf
<1>2. ASSUME NEW v \in BOOLEAN, Cancel(st, TRUE, v, FALSE, rest) PROVE Over
  BY <1>0, <1>2, CancelsOver
<1>3. CASE /\ run \in Run /\ ReleaseLeaves(run, {l}) \in Run
           /\ st' = [st EXCEPT !.run = ReleaseLeaves(run, {l})]
           /\ stack' = <<"acquire", "updated">> \o rest
  <2>1. StagesOf(stack') = {"acquire", "updated"} \cup StagesOf(rest)
    BY <1>0, <1>3, StagesOfTwo DEF StageNames
  <2>2. run' = ReleaseLeaves(run, {l}) /\ st'.terminal = st.terminal
    BY <1>0, <1>3 DEF Profile, run
  <2>3. run'.occs = run.occs
    BY <1>3, <2>2, ReleaseLeavesKeeps
  <2> QED  BY <2>1, <2>2, <2>3, StagesNext
<1>4. CASE ReleaseLeaf(l, rest) /\ ~Active
  BY <1>1, <1>4 DEF ReleaseLeaf
<1>5. CASE ReleaseLeaf(l, rest) /\ Active
  <2> DEFINE reduced == ReleaseLeaves(run, {l})
  <2>1. \/ NoCancel(st, rest)
        \/ \E v \in BOOLEAN : Cancel(st, TRUE, v, FALSE, rest)
        \/ reduced # NoRun /\ reduced # run
           /\ NoCancel([st EXCEPT !.run = reduced], <<"acquire", "updated">> \o rest)
    BY <1>5 DEF ReleaseLeaf
  <2>2. run \in Run
    BY <1>5, ActiveRun
  <2>3. reduced # NoRun => reduced \in Run
    BY <2>2, ReleaseLeavesType DEF ReleaseLeaves
  <2> QED  BY <1>1, <1>2, <1>3, <2>1, <2>2, <2>3 DEF NoCancel, Goto
<1> QED  BY <1>1, <1>4, <1>5

\* The stages before the look at the pending recovery.
LEMMA EarlyStages ==
    ASSUME Inner, Outer, CanInv, Expires, RetryInv, Reconcile \/ Drain \/ Updated \/ Ended
    PROVE  Over \/ Goes
<1>0. st \in Profile /\ clock \in Nat /\ job.now \in Int
  BY DEF Inner, Outer, Jobs
<1>1. Plods /\ retryAt' = retryAt /\ retryBy' = retryBy
  <2>1. Plods
    BY EasyMoves, EndMoves
  <2> QED  BY <2>1 DEF Reconcile, Drain, Updated, Ended
<1>2. CASE Reconcile
  <2>1. run' = run /\ st.terminal \subseteq st'.terminal
    BY <1>0, <1>2, RefreshedGrows DEF Reconcile, run
  <2>2. stack' = Pipeline /\ Pipeline[2] = "pending" /\ Len(Pipeline) = 7
    BY <1>2 DEF Reconcile, Goto, Pipeline
  <2>3. "pending" \in StagesOf(stack)'
    BY <2>2 DEF StagesOf
  <2>4. StagesOf(stack)' \cap Pre # {}
    BY <2>3 DEF Pre
  <2> QED  BY <1>1, <2>1, <2>4, GoesMove
<1>3. CASE Drain
  <2>0. /\ At("drain") /\ Special = {} /\ Rest \in Seq(Plain) /\ stack \in Seq(Plain)
        /\ StagesOf(Rest) \subseteq StagesOf(stack)
    <3>1. At("drain") /\ "drain" \in Plain
      BY <1>3, PlainNamesPlain DEF Drain, PlainNames
    <3> QED  BY <3>1, PlainAt, AtPlain, AtAllPlain, StagesAt
  <2>1. \/ NoCancel(st, Rest) \/ NoCancel(st, stack) \/ \E l \in Leaf : ReleaseLeaf(l, stack)
    BY <1>3 DEF Drain
  <2>2. \/ Over
        \/ /\ StagesOf(Rest) \subseteq StagesOf(stack)' /\ st'.terminal = st.terminal
           /\ Active => run'.occs = run.occs
    BY <2>0, <2>1, LeafGoes
  <2>3. Listening /\ Waiting => StagesOf(Rest) \cap Pre # {}
    BY <2>0, RestPre DEF Pre
  <2> QED  BY <1>1, <2>2, <2>3, GoesMove
<1>4. CASE Updated
  <2>0. At("updated") /\ Special = {} /\ Rest \in Seq(Plain)
    <3>1. At("updated") /\ "updated" \in Plain
      BY <1>4, PlainNamesPlain DEF Updated, PlainNames
    <3> QED  BY <3>1, PlainAt, AtPlain
  <2>1. NoCancel(st, Rest) \/ Cancel(st, FALSE, FALSE, FALSE, Rest)
    BY <1>4 DEF Updated
  <2>2. \/ Over
        \/ /\ StagesOf(Rest) \subseteq StagesOf(stack)' /\ st'.terminal = st.terminal
           /\ Active => run'.occs = run.occs
    BY <1>0, <2>0, <2>1, LeafGoes, CancelsOver
  <2>3. Listening /\ Waiting => StagesOf(Rest) \cap Pre # {}
    BY <2>0, RestPre DEF Pre
  <2> QED  BY <1>1, <2>2, <2>3, GoesMove
<1>5. CASE Ended
  <2>0. At("ended") /\ Special = {"ended"} /\ Rest \in Seq(Plain)
    <3>1. "ended" \notin Plain
      BY DEF Plain, NeedPrev
    <3> QED  BY <1>5, <3>1, SpecialAt, AtPlain DEF Ended
  <2>1. stack' = <<"fence">> \o Rest \/ stack' = <<"safeOff", "fence">> \o Rest
    <3>1. stack' = (IF OwnedLights(job.prev) = {} THEN <<>> ELSE <<"safeOff">>)
                      \o <<"fence">> \o Rest
      BY <1>5 DEF Ended, Goto
    <3> QED  BY <3>1, Joined
  <2>2. StagesOf(Rest) \subseteq StagesOf(stack)'
    <3>1. Rest \in Seq(StageNames) /\ {"fence", "safeOff"} \subseteq StageNames
      BY <2>0, SeqDef DEF Plain, StageNames
    <3>2. stack' = <<"fence">> \o Rest => StagesOf(stack') = {"fence"} \cup StagesOf(Rest)
      BY <3>1, StagesOfOne
    <3>3. stack' = <<"safeOff", "fence">> \o Rest
            => StagesOf(stack') = {"safeOff", "fence"} \cup StagesOf(Rest)
      BY <3>1, StagesOfTwo
    <3> QED  BY <2>1, <3>2, <3>3, StagesNext
  <2>3. st' = st
    BY <1>5 DEF Ended
  <2>4. Listening /\ Waiting => StagesOf(Rest) \cap Pre # {}
    BY <2>0, RestPre DEF Pre, Quits, Recovering
  <2>5. run.occs \cup st.terminal \subseteq run'.occs \cup st'.terminal
    BY <2>3 DEF run
  <2> QED  BY <1>1, <2>2, <2>4, <2>5, GoesMove
<1> QED  BY <1>2, <1>3, <1>4, <1>5

\* The end of a handler.
LEMMA FinishMoves ==
    ASSUME Inner, Outer, FenceInner, CanInv, Expires, RetryInv, Finish \/ Save
    PROVE  Over \/ Goes
<1>0. /\ st \in Profile /\ clock \in Nat /\ job.now \in Int /\ job.now <= clock
      /\ Step \in Nat \ {0} /\ retryAt \in Int /\ retryBy \in Int /\ revokeBy \in Int
      /\ scheduled \in SUBSET Occ /\ job.now >= NoTime
  BY FenceBase, TimeAssumption DEF Inner, RetryInv, Timed
<1>1. Plods /\ retryAt' = retryAt /\ retryBy' = retryBy
  <2>1. Plods
    BY EasyMoves, SettledMoves
  <2> QED  BY <2>1 DEF Finish, Save
<1>2. run' = run /\ st.terminal \subseteq st'.terminal
  BY <1>0, RefreshedGrows DEF Finish, Save, run
<1>3. PICK a \in {"finish", "save"} : At(a)
  BY DEF Finish, Save
<1>4. Special = {}
  <2>1. a \in Plain
    BY DEF Plain, StageNames, NeedRun, NeedPrev, FirstOnly
  <2> QED  BY <1>3, <2>1, PlainAt
<1>5. ASSUME Listening, Waiting
      PROVE  /\ retryAt # NoTime /\ job.now < retryBy /\ retryBy # NoTime
             /\ retryAt <= retryBy /\ retryAt <= clock + Step
  <2>1. StagesOf(stack) = {a} \cup StagesOf(Rest) /\ stack # <<>>
    BY <1>3, StagesAt DEF At
  <2>2. StagesOf(Rest) \cap Pre = {}
    BY <1>3, AheadAt DEF RetryInv, Late
  <2>3. StagesOf(stack) \cap Pre = {}
    BY <2>1, <2>2 DEF Pre
  <2>4. ~Undecided /\ Special \cap Quits = {}
    BY <1>4 DEF Undecided
  <2>5. retryAt # NoTime /\ job.now < retryBy
    BY <1>5, <2>1, <2>3, <2>4 DEF RetryInv, Chosen
  <2> QED  BY <1>5, <2>4, <2>5 DEF RetryInv, Retrying, Timed
<1>6. CASE stack' = <<"save">>
  <2>1. job' = job
    <3>1. <<"save">> # <<>>
      OBVIOUS
    <3> QED  BY <1>6, <3>1 DEF Finish, Save, Goto
  <2>2. stack' # <<>> /\ StagesOf(stack)' = {"save"}
    BY <1>6 DEF StagesOf
  <2> QED  BY <1>1, <1>2, <1>5, <2>1, <2>2, GoesMove
<1>7. CASE stack' = <<>>
  <2>1. timer' = NextTimer(st', scheduled', job.now) /\ revokeBy' = revokeBy
    <3>1. <<"save">> # <<>>
      OBVIOUS
    <3> QED  BY <1>7, <3>1 DEF Finish, Save, Goto
  <2>2. st' \in Profile /\ scheduled' \in SUBSET Occ
    BY <1>0, RefreshedType DEF Finish, Save, Scheduled, Profile
  <2>3. /\ timer' \in Int
        /\ ~stopping /\ retryAt # NoTime =>
             timer' > job.now /\ (timer' <= retryAt \/ timer' = job.now + 1)
    BY <1>0, <2>1, <2>2, NextTimerType
  <2>4. Listening => ~stopping
    BY DEF Listening
  <2>5. Listening /\ Waiting =>
          /\ timer' # NoTime /\ timer' <= clock + Step /\ retryBy # NoTime /\ timer' <= retryBy
    BY <1>0, <1>5, <2>3, <2>4 DEF NoTime
  <2> QED  BY <1>1, <1>2, <1>7, <2>5, GoesMove
<1> QED  BY <1>6, <1>7 DEF Finish, Save, Goto

-----------------------------------------------------------------------------
(***************************************************************************)
(* The stages and the answers keep the invariant.                          *)
(***************************************************************************)
\* What is posted makes the queue longer.
LEMMA PostLonger ==
    ASSUME NEW s \in Seq(Others), Post(s) PROVE Longer
BY DEF Post, Longer

\* Lights that go off.
LEMMA LightsLonger ==
    ASSUME Inner, Outer, NEW now, NEW before \in Seq(Others), LightsBecome(now, before)
    PROVE  Longer
<1> DEFINE drop == RootOn(lights) /\ ~RootOn(now)
           gone == drop /\ pbl.status = "active"
           lease == IF Active THEN run.lease ELSE NoOcc
           root == [Task("rootOff") EXCEPT !.occ = lease]
           revoke == [Task("revoke") EXCEPT !.gen = pbl.gen, !.user = TRUE]
           a == IF drop THEN <<root>> ELSE <<>>
           b == IF gone THEN <<revoke>> ELSE <<>>
<1>0. \A t \in Tasks : t.kind \in {"rootOff", "revoke"} /\ t.now = NoTime => t \in Others
  BY DEF Others, NoTime
<1>1. root \in Others
  <2>1. lease \in Occ \cup {NoOcc}
    BY ActiveRun DEF Run
  <2> HIDE DEF lease
  <2>2. root \in Tasks
    <3>1. "rootOff" \in Kinds
      BY DEF Kinds
    <3> QED  BY <2>1, <3>1, OccTaskType
  <2>3. root.now = NoTime /\ root.kind = "rootOff"
    BY DEF Task
  <2> HIDE DEF root
  <2> QED  BY <1>0, <2>2, <2>3
<1>2. revoke \in Others
  <2>1. pbl.gen \in Nat
    BY DEF Outer, Leases
  <2>2. revoke \in Tasks
    BY <2>1, EnvTasks
  <2>3. revoke.now = NoTime /\ revoke.kind = "revoke"
    BY DEF Task
  <2> HIDE DEF revoke
  <2> QED  BY <1>0, <2>2, <2>3
<1>3. Post(before \o a \o b)
  BY DEF LightsBecome
<1> HIDE DEF root, revoke
<1>4. a \in Seq(Others) /\ b \in Seq(Others)
  BY <1>1, <1>2
<1> HIDE DEF a, b
<1>5. before \o a \o b \in Seq(Others)
  BY <1>4, ConcatProperties
<1> QED  BY <1>3, <1>5, PostLonger

\* Every stage but the end of the entry.
LEMMA StagesInside ==
    ASSUME Inner, Outer, FenceInner, RetryInv, CanInv, Expires, Stages, ~Unloaded PROVE Inside
<1>1. Quiet /\ stack # <<>>
  <2>1. Quiet
    BY DEF Stages, Reconcile, Drain, Pending, Reacquired, JoinDue, Merged,
       Complete, CompletedRun, Begin, Started, Dispatch, Decide, Finish, Cancelled,
       Updated, Failed, Ended, Fence, RecoverNothing, RecoverRootOff,
       RecoverNoTargets, RecoverRun, Recovered, Abandoned
  <2>2. stack # <<>>
    BY DEF Stages, Reconcile, Drain, Pending, Reacquired, JoinDue, Merged,
       Complete, CompletedRun, Begin, Started, Dispatch, Decide, Finish, Cancelled,
       Updated, Failed, Ended, Fence, RecoverNothing, RecoverRootOff,
       RecoverNoTargets, RecoverRun, Recovered, Abandoned, At
  <2> QED  BY <2>1, <2>2
<1>2. OnTime
  BY StagesOnTime
<1>3. KeepsAhead
  BY AheadStages DEF RetryInv
<1>4. "recover" \notin Special'
  <2>1. Moves
    BY StageMoves
  <2>2. CASE Plods
    BY <2>2, PlodsOn
  <2>3. CASE ~Plods
    BY <2>1, <2>3 DEF Moves, Retries, AsksAgain, Starts, Resumes
  <2> QED  BY <2>2, <2>3
<1> QED  BY <1>1, <1>2, <1>3, <1>4 DEF Inside, Quiet, proc, world, Longer, OnTime

\* Every stage but the end of the entry keeps the invariant.
LEMMA RetryStages ==
    ASSUME Inner, Outer, Inner', FenceInner, CanInv, Expires, RetryInv, Stages, ~Unloaded
    PROVE  RetryInv'
<1>1. Inside
  BY StagesInside
<1>2. Over \/ Free \/ Goes \/ Again \/ Asks
  <2>1. CASE \/ JoinDue \/ Merged \/ Complete \/ CompletedRun \/ Begin \/ Started \/ Dispatch
             \/ Decide
    BY <2>1, LateStages
  <2>2. CASE Cancelled \/ Failed \/ Abandoned \/ Fence
    BY <2>2, EndStages
  <2>3. CASE Reconcile \/ Drain \/ Updated \/ Ended
    BY <2>3, EarlyStages
  <2>4. CASE Finish
    BY <2>4, FinishMoves
  <2>5. CASE Pending
    BY <2>5, PendingMoves
  <2>6. CASE Reacquired \/ Recovered
    BY <2>6, AnsweredMoves
  <2>7. CASE RecoverRun
    BY <2>7, RecoverRunMoves
  <2>8. CASE RecoverNothing \/ RecoverRootOff \/ RecoverNoTargets
    BY <2>8, RecoverOver
  <2> QED  BY <2>1, <2>2, <2>3, <2>4, <2>5, <2>6, <2>7, <2>8 DEF Stages
<1> QED  BY <1>1, <1>2, RetryMove

-----------------------------------------------------------------------------
\* The answer to an acquire.
LEMMA AcquireMoves ==
    ASSUME Inner, Outer, CanInv, Expires, RetryInv, Granted \/ Refused
    PROVE  "recover" \notin Special' /\ (Goes \/ Asks)
<1>1. /\ At("acquire") /\ run \in Run /\ stack' = Rest
      /\ retryAt' = retryAt /\ retryBy' = retryBy /\ clock' = clock
  BY AtNeeds DEF Granted, Refused, Goto, Calm, NeedRun, world
<1>2. /\ Special = {"acquire"} \cup Special' /\ "acquire" \notin Special'
      /\ \A x \in Special' : <<"acquire", x>> \in Pairs
  <2>1. "acquire" \notin Plain
    BY DEF Plain, NeedRun
  <2> QED  BY <1>1, <2>1, SpecialRest
<1>3. Special' \subseteq {"recovered", "reacquired", "merged", "started"}
  BY <1>2 DEF Pairs
<1>4. /\ run'.pending = run.pending /\ run' \in Run
      /\ run.exp # NoTime => run'.exp = run.exp
      /\ run'.occs = run.occs /\ st'.terminal = st.terminal
  <2>1. CASE Granted
    BY <2>1, GrantKeeps
  <2>2. CASE Refused
    BY <1>1, <2>2 DEF Refused, run
  <2> QED  BY <2>1, <2>2
<1>5. Active /\ Active' /\ Special \cap Quits = {} /\ Special' \cap Quits = {}
  BY <1>1, <1>2, <1>3, <1>4, NoRunAssumption DEF Active, Quits
<1>6. run.pending => run.exp # NoTime
  BY <1>5 DEF Expires
<1>7. run.pending => Keeps
  BY <1>4, <1>6 DEF Keeps
<1>8. CASE Special' \cap Recovering # {}
  <2>1. run.pending /\ phase \notin NotUp
    BY <1>2, <1>8 DEF RetryInv, Resuming
  <2>2. "recovered" \in Special' => Soon("reconcile")'
    <3>1. ASSUME "recovered" \in Special' PROVE Soon("reconcile")'
      <4>1. "reconcile" \in StagesOf(stack)
        BY <1>2, <3>1 DEF RetryInv, Resuming, Soon
      <4>2. "reconcile" \in StagesOf(Rest)
        BY <1>1, <4>1, StagesAt
      <4> QED  BY <1>1, <4>2, StagesNext DEF Soon
    <3> QED  BY <3>1
  <2> QED  BY <1>1, <1>3, <1>4, <1>5, <1>7, <1>8, <2>1, <2>2 DEF Asks, Waiting
<1>9. CASE Special' \cap Recovering = {}
  <2>1. Special \cap ({"recover"} \cup Quits \cup Recovering) = {}
    BY <1>2, <1>3, <1>9 DEF Quits, Recovering
  <2>2. Listening /\ Waiting => StagesOf(stack)' \cap Pre # {}
    <3>1. Listening /\ Waiting => StagesOf(Rest) \cap Pre # {}
      BY <1>1, <2>1, RestPre DEF Pre
    <3> QED  BY <1>1, <3>1, StagesNext
  <2>3. Waiting' => Waiting /\ run.pending
    BY <1>4, <1>5 DEF Waiting
  <2> QED  BY <1>1, <1>3, <1>5, <1>7, <1>9, <2>2, <2>3 DEF Goes
<1> QED  BY <1>3, <1>8, <1>9

\* The answer to a release, and to the off of the lights.
LEMMA ReleasedMoves ==
    ASSUME Inner, Outer, RetryInv, Released \/ NotReleased \/ SafeOff \/ NotSafeOff
    PROVE  "recover" \notin Special' /\ (Over \/ Goes)
<1>1. PICK a \in {"release", "safeOff"} : At(a)
  BY DEF Released, NotReleased, SafeOff, NotSafeOff
<1>2. /\ stack' = Rest /\ st' = st /\ retryAt' = retryAt /\ retryBy' = retryBy
  BY DEF Released, NotReleased, SafeOff, NotSafeOff, Goto, Calm
<1>3. /\ Special = {a} \cup Special' /\ a \notin Special'
      /\ \A x \in Special' : <<a, x>> \in Pairs
  <2>1. a \notin Plain
    BY DEF Plain, NeedPrev
  <2> QED  BY <1>1, <1>2, <2>1, SpecialRest
<1>4. Special' \cap ({"recover"} \cup Recovering) = {}
  BY <1>3 DEF Pairs, Recovering
<1>5. CASE ~Active \/ Special' \cap Quits # {}
  BY <1>2, <1>4, <1>5 DEF Over, Active, run
<1>6. CASE Active /\ Special' \cap Quits = {}
  <2>1. Special \cap ({"recover"} \cup Quits \cup Recovering) = {}
    BY <1>3, <1>4, <1>6 DEF Quits, Recovering
  <2>2. Listening /\ Waiting => StagesOf(stack)' \cap Pre # {}
    <3>1. Listening /\ Waiting => StagesOf(Rest) \cap Pre # {}
      BY <1>1, <2>1, RestPre DEF Pre
    <3> QED  BY <1>2, <3>1, StagesNext
  <2>3. Keeps /\ (Waiting' => Waiting)
    BY <1>2 DEF Keeps, Waiting, Active, run
  <2> QED  BY <1>2, <1>4, <1>6, <2>1, <2>2, <2>3 DEF Goes
<1> QED  BY <1>4, <1>5, <1>6

\* The answer of the lights, and a stage that only stores.
LEMMA SentMoves ==
    ASSUME Inner, Outer, CanInv, Expires, RetryInv,
           \/ \E T \in SUBSET Leaf : Dispatched(T)
           \/ NotDispatched(TRUE) \/ NotDispatched(FALSE) \/ DispatchFailed \/ Persist
    PROVE  "recover" \notin Special' /\ (Over \/ Free)
<1>1. Plods
  BY DispatchedMoves, NotDispatchedMoves, SettledMoves
<1>2. retryAt' = retryAt /\ retryBy' = retryBy
  BY DEF Dispatched, NotDispatched, DispatchFailed, Persist, Calm
<1>3. Listening => ~Waiting
  <2>1. CASE At("send")
    BY <2>1, LateIdle
  <2>2. CASE At("persist")
    <3>1. "persist" \in StagesOf(stack)
      BY <2>2, StagesAt
    <3> QED  BY <3>1 DEF RetryInv, Ahead
  <2> QED  BY <2>1, <2>2 DEF Dispatched, NotDispatched, DispatchFailed, Persist
<1> QED  BY <1>1, <1>2, <1>3, LateMove, PlodsOn

\* A group of lights has settled.
LEMMA SettlingMoves ==
    ASSUME Inner, Outer, CanInv, Expires, RetryInv, Settling
    PROVE  "recover" \notin Special' /\ (Over \/ Goes)
<1>0. st \in Profile /\ clock \in Nat
  BY DEF Inner, Outer
<1>1. At("settling") /\ Special = {"settling"} /\ Rest \in Seq(Plain)
  <2>1. "settling" \notin Plain
    BY DEF Plain, FirstOnly
  <2> QED  BY <2>1, SpecialAt, AtPlain DEF Settling
<1>2. Plods /\ retryAt' = retryAt /\ retryBy' = retryBy
  BY SettledMoves DEF Settling
<1>3. ReleaseLeaf(job.leaf, Rest) \/ Cancel(st, TRUE, TRUE, FALSE, Rest)
  BY DEF Settling
<1>4. \/ Over
      \/ /\ StagesOf(Rest) \subseteq StagesOf(stack)' /\ st'.terminal = st.terminal
         /\ Active => run'.occs = run.occs
  BY <1>0, <1>1, <1>3, LeafGoes, CancelsOver
<1>5. Listening /\ Waiting => StagesOf(Rest) \cap Pre # {}
  BY <1>1, RestPre DEF Pre, Quits, Recovering
<1> QED  BY <1>2, <1>4, <1>5, GoesMove, PlodsOn

-----------------------------------------------------------------------------
\* Every answer.
LEMMA AnswersInside ==
    ASSUME Inner, Outer, RetryInv, Answers, "recover" \notin Special' PROVE Inside
<1>0. job \in Jobs
  BY DEF Inner
<1>1. stack # <<>> /\ phase' = phase /\ stopping' = stopping /\ clock' = clock
  BY DEF Answers, Granted, Refused, NotDispatched, Dispatched, DispatchFailed,
     Released, NotReleased, SafeOff, NotSafeOff, Settling, Save, Persist, Quiet, Calm, world,
     proc, At
<1>2. retryAt' = retryAt
  BY DEF Answers, Granted, Refused, NotDispatched, Dispatched, DispatchFailed,
     Released, NotReleased, SafeOff, NotSafeOff, Settling, Save, Persist, Calm
<1>3. Longer
  <2>1. CASE SafeOff
    <3>1. <<>> \in Seq(Others)
      BY EmptySeq
    <3>2. PICK now : LightsBecome(now, <<>>)
      BY <2>1 DEF SafeOff
    <3> QED  BY <3>1, <3>2, LightsLonger
  <2>2. CASE ~SafeOff
    BY <2>2 DEF Answers, Granted, Refused, NotDispatched, Dispatched, DispatchFailed,
       Released, NotReleased, NotSafeOff, Settling, Save, Persist, Quiet, Calm, Longer
  <2> QED  BY <2>1, <2>2
<1>4. KeepsTime
  <2>1. \/ job' = job \/ (job' = NoJob /\ (stack' = <<>> \/ At("persist")))
        \/ \E u, v : job' = [job EXCEPT !.ok = u, !.stale = v]
        \/ \E l : ReleaseLeaf(l, Rest)
        \/ \E p, u, v, w : Cancel(p, u, v, w, Rest)
    <3>1. CASE Granted \/ Refused
      <4>1. \E u, v : job' = [job EXCEPT !.ok = u, !.stale = v]
        BY <3>1 DEF Granted, Refused
      <4> QED  BY <4>1
    <3>2. CASE \/ \E T \in SUBSET Leaf : Dispatched(T)
               \/ NotDispatched(TRUE) \/ NotDispatched(FALSE) \/ DispatchFailed \/ Settling
      BY <3>2 DEF Dispatched, NotDispatched, DispatchFailed, Settling
    <3>3. CASE Released \/ NotReleased \/ SafeOff \/ NotSafeOff \/ Save \/ Persist
      BY <3>3 DEF Released, NotReleased, SafeOff, NotSafeOff, Save, Persist, Goto
    <3> QED  BY <3>1, <3>2, <3>3 DEF Answers
  <2>2. NoJob.now = NoTime
    BY DEF NoJob
  <2>3. CASE \E u, v : job' = [job EXCEPT !.ok = u, !.stale = v]
    <3>1. job'.now = job.now
      BY <1>0, <2>3 DEF Jobs
    <3> QED  BY <3>1 DEF KeepsTime
  <2>4. CASE (\E l : ReleaseLeaf(l, Rest)) \/ \E p, u, v, w : Cancel(p, u, v, w, Rest)
    <3>1. job'.now = job.now
      BY <2>4, PartsOnTime
    <3> QED  BY <3>1 DEF KeepsTime
  <2>5. CASE job' = job \/ (job' = NoJob /\ (stack' = <<>> \/ At("persist")))
    BY <2>2, <2>5 DEF KeepsTime
  <2> QED  BY <2>1, <2>3, <2>4, <2>5
<1>5. KeepsAhead
  BY AheadAnswers DEF RetryInv
<1> QED  BY <1>1, <1>2, <1>3, <1>4, <1>5 DEF Inside

\* What every answer does.
LEMMA AnswersMove ==
    ASSUME Inner, Outer, FenceInner, CanInv, Expires, RetryInv, Answers
    PROVE  "recover" \notin Special' /\ (Over \/ Free \/ Goes \/ Again \/ Asks)
<1>1. CASE Granted \/ Refused
  BY <1>1, AcquireMoves
<1>2. CASE Released \/ NotReleased \/ SafeOff \/ NotSafeOff
  BY <1>2, ReleasedMoves
<1>3. CASE \/ \E T \in SUBSET Leaf : Dispatched(T)
           \/ NotDispatched(TRUE) \/ NotDispatched(FALSE) \/ DispatchFailed \/ Persist
  BY <1>3, SentMoves
<1>4. CASE Settling
  BY <1>4, SettlingMoves
<1>5. CASE Save
  <2>1. Plods
    BY <1>5, SettledMoves
  <2> QED  BY <1>5, <2>1, FinishMoves, PlodsOn
<1> QED  BY <1>1, <1>2, <1>3, <1>4, <1>5 DEF Answers

\* Every answer keeps the invariant.
LEMMA RetryAnswers ==
    ASSUME Inner, Outer, Inner', FenceInner, CanInv, Expires, RetryInv, Answers
    PROVE  RetryInv'
<1>1. "recover" \notin Special' /\ (Over \/ Free \/ Goes \/ Again \/ Asks)
  BY AnswersMove
<1>2. Inside
  BY <1>1, AnswersInside
<1> QED  BY <1>1, <1>2, RetryMove

-----------------------------------------------------------------------------
(***************************************************************************)
(* The handlers.                                                           *)
(***************************************************************************)
\* A handler other than the start: it takes the retries as they are, and comes
\* to a pending recovery unless the run is given up.
Heeds == /\ Special' \cap ({"recover"} \cup Recovering) = {}
         /\ Active' => Active
         /\ retryAt' \in {retryAt, NoTime} /\ job'.now >= NoTime
         /\ Waiting' /\ Special' \cap Quits = {} => Waiting /\ Keeps
         /\ Listening /\ Waiting' /\ stack' # <<>> =>
              Special' \cap Quits # {} \/ StagesOf(stack)' \cap Pre # {}
         /\ stack' = <<>> => timer' = timer /\ retryAt' = retryAt /\ st' = st
                             /\ Event.kind # "timer"

\* The queue of a handler at work.
LEMMA TakenQueue ==
    ASSUME Outer, RetryInv, NEW k, Take(k)
    PROVE  /\ Queued' \subseteq Queued /\ Queued \subseteq Queued' \cup {Event}
           /\ Event \in Queued /\ Event.kind = k
           /\ \A x : Waits(x)' => Waits(x)
           /\ k = "start" => ~Waits("start")'
           /\ \A i, j \in 1 .. Len(queue') :
                 queue'[i].kind = "start" /\ queue'[j].kind = "start" => i = j
<1>1. /\ queue \in Seq(Tasks) /\ queue # <<>> /\ queue' = Tail(queue)
      /\ Head(queue).kind = k
  BY DEF Outer, Take
<1>2. /\ Len(queue) \in Nat /\ Len(queue) >= 1 /\ Len(queue') = Len(queue) - 1
      /\ \A i \in 1 .. Len(queue') : queue'[i] = queue[i + 1]
      /\ Head(queue) = queue[1]
  BY <1>1
<1>3. \A i \in 1 .. Len(queue') : i + 1 \in 1 .. Len(queue)
  BY <1>2
<1>4. Queued' \subseteq Queued /\ Event \in Queued
  BY <1>2, <1>3 DEF Queued, Event
<1>5. Queued \subseteq Queued' \cup {Event}
  BY <1>1, QueuedTail
<1>6. \A i, j \in 1 .. Len(queue) :
         queue[i].kind = "start" /\ queue[j].kind = "start" => i = j
  BY DEF RetryInv, OneStart
<1>7. \A i, j \in 1 .. Len(queue') :
         queue'[i].kind = "start" /\ queue'[j].kind = "start" => i = j
  <2> TAKE i, j \in 1 .. Len(queue')
  <2> HAVE queue'[i].kind = "start" /\ queue'[j].kind = "start"
  <2>1. i + 1 = j + 1
    BY <1>2, <1>3, <1>6
  <2> QED  BY <1>2, <2>1
<1>8. k = "start" => ~Waits("start")'
  <2>1. ASSUME k = "start", NEW i \in 1 .. Len(queue'), queue'[i].kind = "start" PROVE FALSE
    <3>1. i + 1 = 1
      BY <1>1, <1>2, <1>3, <1>6, <2>1
    <3> QED  BY <1>2, <3>1
  <2> QED  BY <2>1 DEF Waits, Queued
<1> QED  BY <1>1, <1>4, <1>5, <1>7, <1>8 DEF Waits, Event

\* Every such handler keeps the invariant.
LEMMA RetryHandler ==
    ASSUME Outer, Inner, Inner', RetryInv, NEW k, k # "start", Take(k),
           proc' = proc, Heeds, Ahead(stack', ~Listening)
    PROVE  RetryInv'
<1>0. /\ retryAt \in Int /\ clock \in Nat /\ Step \in Nat /\ retryBy \in Int
  BY TimeAssumption DEF Inner, Outer
<1>1. /\ Queued' \subseteq Queued /\ Queued \subseteq Queued' \cup {Event}
      /\ Event.kind = k /\ \A x : Waits(x)' => Waits(x)
      /\ \A i, j \in 1 .. Len(queue') :
            queue'[i].kind = "start" /\ queue'[j].kind = "start" => i = j
  BY TakenQueue
<1>2. /\ Listening' = Listening /\ phase' = phase /\ stopping' = stopping
      /\ clock' = clock /\ retryBy' = retryBy /\ stack = <<>> /\ Special = {}
  <2>1. stack = <<>>
    BY DEF Take
  <2> QED  BY <2>1 DEF Take, Listening, proc, world, Special, StagesOf
<1>3. Timed'
  BY <1>0, <1>1, <1>2 DEF RetryInv, Timed, Heeds
<1>4. /\ Waits("start")' => phase = "starting"
      /\ OneStart' /\ StopsWait'
  <2>1. Waits("start")' => phase = "starting"
    BY <1>1 DEF RetryInv, OneStart
  <2> QED  BY <1>1, <1>2, <2>1 DEF RetryInv, OneStart, StopsWait
<1>5. Fresh' => phase \in NotUp
  BY <1>2, <1>4 DEF Fresh, Heeds, NotUp
<1>6. NeverTried'
  BY <1>2, <1>5 DEF NeverTried, RetryInv, Fresh, Heeds
<1>7. Resuming'
  BY DEF Resuming, Heeds, Recovering
<1>8. Retrying'
  <2>1. ASSUME Listening, Waiting', Special' \cap Quits = {}
        PROVE  /\ retryAt' # NoTime => retryBy' # NoTime /\ retryAt' <= retryBy'
               /\ retryBy' # NoTime => Limited(retryBy)'
    <3>1. Waiting /\ Keeps
      BY <2>1 DEF Heeds
    <3>2. /\ retryAt # NoTime => retryBy # NoTime /\ retryAt <= retryBy
          /\ retryBy # NoTime => Limited(retryBy)
      BY <1>2, <2>1, <3>1 DEF RetryInv, Retrying
    <3>3. Limited(retryBy) => Limited(retryBy)'
      BY <1>2, <3>1 DEF Limited, Keeps
    <3> QED  BY <1>2, <3>2, <3>3 DEF Heeds
  <2> QED  BY <1>2, <2>1 DEF Retrying
<1>9. Chosen'
  <2>1. Special' \cap Quits # {} => Undecided'
    BY DEF Undecided
  <2> QED  BY <1>2, <2>1 DEF Chosen, Heeds
<1>10. Armed'
  <2>1. ASSUME Listening, Waiting', stack' = <<>>, ~Waits("timer")'
        PROVE  timer # NoTime /\ timer <= clock + Step /\ retryBy # NoTime /\ timer <= retryBy
    <3>1. Waiting
      BY <2>1 DEF Heeds, Waiting, Active, run
    <3>2. ~Waits("timer")
      BY <1>1, <2>1 DEF Heeds, Waits
    <3> QED  BY <1>2, <2>1, <3>1, <3>2 DEF RetryInv, Armed
  <2> QED  BY <1>2, <2>1 DEF Armed, Heeds
<1>11. Ahead(stack, ~Listening)'
  BY <1>2 DEF Ahead, StagesOf
<1> QED  BY <1>3, <1>4, <1>6, <1>7, <1>8, <1>9, <1>10, <1>11 DEF RetryInv

-----------------------------------------------------------------------------
\* What a handler begins with.
LEMMA HeedsIf ==
    ASSUME Special' \cap ({"recover"} \cup Recovering) = {},
           KeepsLease(run', run) \/ run' = NoRun,
           Active' => run.occs \cup st.terminal \subseteq run'.occs \cup st'.terminal,
           retryAt' \in {retryAt, NoTime}, job'.now >= NoTime, stack' # <<>>,
           Listening /\ Active' =>
              Special' \cap Quits # {} \/ StagesOf(stack)' \cap Pre # {}
    PROVE  Heeds
<1>1. Active' => /\ Active /\ run'.exp = run.exp /\ run'.pending = run.pending
  BY NoRunAssumption DEF KeepsLease, SameGrant, Active
<1>2. Waiting' => Waiting /\ Keeps
  BY <1>1 DEF Waiting, Keeps
<1>3. Waiting' => Active'
  BY DEF Waiting
<1> QED  BY <1>1, <1>2, <1>3 DEF Heeds

\* The reconciliation comes to a pending recovery.
LEMMA ReconcileStages ==
    ASSUME NEW s \in Seq(StageNames), stack' = s \o <<"reconcile">>
    PROVE  stack' # <<>> /\ StagesOf(stack)' \cap Pre # {}
<1> DEFINE t == <<"reconcile">>
           n == Len(s) + 1
<1>1. t \in Seq(StageNames) /\ Len(t) = 1 /\ t[1] = "reconcile"
  BY DEF StageNames
<1> HIDE DEF t
<1>2. stack' = s \o t /\ Len(s) \in Nat
  BY DEF t
<1>3. Len(stack') = n /\ n \in 1 .. n /\ stack'[n] = "reconcile" /\ n # 0
  BY <1>1, <1>2
<1>4. "reconcile" \in StagesOf(stack)'
  BY <1>3 DEF StagesOf
<1>5. stack' # <<>>
  BY <1>3
<1> QED  BY <1>4, <1>5 DEF Pre

\* Handlers that only reconcile or store.
LEMMA PlainHeeds ==
    ASSUME Inner, Outer, KeepsLease(run', run),
           Active' => run.occs \cup st.terminal \subseteq run'.occs \cup st'.terminal,
           retryAt' \in {retryAt, NoTime}, NEW j, j.now >= NoTime, NEW s \in Seq(Plain),
           Begins(j, s), s = <<"reconcile">> \/ (~Listening /\ s # <<>>)
    PROVE  Heeds
<1>1. stack' = s /\ Special' = {} /\ job'.now >= NoTime
  BY SpecialPlain DEF Begins, Goto
<1>2. CASE s = <<"reconcile">>
  <2>1. stack' = <<>> \o <<"reconcile">> /\ <<>> \in Seq(StageNames)
    BY <1>1, <1>2, Joined
  <2>2. stack' # <<>> /\ StagesOf(stack)' \cap Pre # {}
    BY <2>1, ReconcileStages
  <2> QED  BY <1>1, <2>2, HeedsIf
<1>3. CASE ~Listening /\ s # <<>>
  BY <1>1, <1>3, HeedsIf
<1> QED  BY <1>2, <1>3

\* Handlers that give the run up.
LEMMA CancelHeeds ==
    ASSUME Inner, Outer, Special = {}, NEW user \in BOOLEAN, NEW revoked \in BOOLEAN,
           NEW off \in BOOLEAN, NEW rest \in Seq(Plain),
           rest = <<"reconcile">> \/ (Active /\ rest = <<"finish">>),
           CancelOn(user, revoked, off, rest)
    PROVE  Heeds
<1>0. clock \in Nat
  BY DEF Outer
<1>1. /\ run' = run /\ st'.terminal = st.terminal /\ job'.now = clock
      /\ Active => "cancelled" \in Special' /\ Special' \subseteq {"release", "cancelled"}
  BY CancelOnDoes
<1>2. retryAt' = retryAt
  BY DEF CancelOn
<1>3. KeepsLease(run', run)
  BY <1>1 DEF KeepsLease, SameGrant
<1>4. CASE Active
  <2>1. "cancelled" \in Special' /\ Special' \subseteq {"release", "cancelled"}
    BY <1>1, <1>4
  <2>2. Special' \cap ({"recover"} \cup Recovering) = {} /\ Special' \cap Quits # {}
    BY <2>1 DEF Quits, Recovering
  <2>3. stack' # <<>>
    BY <2>1 DEF Special, StagesOf
  <2>4. clock >= NoTime
    BY <1>0 DEF NoTime
  <2> QED  BY <1>1, <1>2, <1>3, <2>2, <2>3, <2>4, HeedsIf
<1>5. CASE ~Active
  <2>1. Begins(Now(clock), rest) /\ rest = <<"reconcile">> /\ st' = st
    BY <1>5 DEF CancelOn
  <2>2. Now(clock).now >= NoTime
    BY <1>0 DEF Now, NoJob, NoTime
  <2>3. ~Active'
    BY <1>1, <1>5 DEF Active
  <2> QED  BY <1>2, <1>3, <2>1, <2>2, <2>3, PlainHeeds
<1> QED  BY <1>4, <1>5

\* The handlers of events that do not forbid the run.
LEMMA EventsHeed ==
    ASSUME Inner, Outer, RetryInv, Special = {}, OnTimer \/ OnPoke \/ OnLeafOff \/ OnStop
    PROVE  Heeds
<1>0. st \in Profile /\ clock \in Nat /\ Now(clock).now >= NoTime /\ <<"reconcile">> \in Seq(Plain)
  BY FirstStages DEF Inner, Outer, Now, NoJob, NoTime
<1>1. CASE OnTimer \/ OnStop \/ (OnLeafOff /\ ThenReconcile)
  <2>1. /\ st' = st /\ retryAt' \in {retryAt, NoTime}
    BY <1>1 DEF OnTimer, OnStop, OnLeafOff
  <2>2. KeepsLease(run', run) /\ run.occs \cup st.terminal \subseteq run'.occs \cup st'.terminal
    BY <2>1 DEF KeepsLease, SameGrant, run
  <2>3. \E j : /\ j.now >= NoTime
               /\ \/ Begins(j, <<"reconcile">>)
                  \/ Begins(j, <<"persist">>) /\ OnStop
    <3>1. CASE OnTimer
      <4>1. Event \in Queued
        BY <3>1, TakenQueue DEF OnTimer
      <4>2. Event.now >= NoTime
        BY <4>1 DEF RetryInv, Timed
      <4>3. Begins(Now(Event.now), <<"reconcile">>) /\ Now(Event.now).now >= NoTime
        BY <3>1, <4>2 DEF OnTimer, Now, NoJob
      <4> QED  BY <4>3
    <3>2. CASE OnStop
      BY <1>0, <3>2 DEF OnStop
    <3>3. CASE OnLeafOff /\ ThenReconcile
      BY <1>0, <3>3 DEF ThenReconcile
    <3> QED  BY <1>1, <3>1, <3>2, <3>3
  <2>4. OnStop => ~Listening
    <3>1. OnStop => Waits("stop")
      <4>1. OnStop => Event \in Queued /\ Event.kind = "stop"
        BY TakenQueue DEF OnStop
      <4> QED  BY <4>1 DEF Waits
    <3> QED  BY <3>1 DEF RetryInv, StopsWait, Listening
  <2>5. <<"persist">> # <<>> /\ <<"persist">> \in Seq(Plain)
    BY FirstStages
  <2> QED  BY <1>0, <2>1, <2>2, <2>3, <2>4, <2>5, PlainHeeds
<1>2. CASE OnPoke
  <2>1. Begins(Now(clock), <<"reconcile">>) /\ retryAt' = retryAt
    BY <1>2 DEF OnPoke, ThenReconcile
  <2>2. CASE Active /\ Event.user
    <3> DEFINE q == Watched(run, clock)
    <3>1. run \in Run
      BY <2>2, ActiveRun
    <3>2. /\ q \in Run /\ q.lease = run.lease /\ q.gen = run.gen /\ q.exp = run.exp
          /\ q.pending = run.pending /\ q.occs = run.occs /\ q.hold = run.hold
      BY <3>1, WatchedKeeps DEF Outer
    <3>3. st' = [st EXCEPT !.run = q]
      BY <1>2, <2>2 DEF OnPoke
    <3> HIDE DEF q
    <3>4. run' = q /\ st'.terminal = st.terminal
      BY <1>0, <3>3 DEF Profile, run
    <3>5. KeepsLease(run', run) /\ run.occs \cup st.terminal \subseteq run'.occs \cup st'.terminal
      BY <3>1, <3>2, <3>4 DEF KeepsLease, SameGrant
    <3> QED  BY <1>0, <2>1, <3>5, PlainHeeds
  <2>3. CASE ~(Active /\ Event.user)
    <3>1. st' = st
      BY <1>2, <2>3 DEF OnPoke
    <3>2. KeepsLease(run', run) /\ run.occs \cup st.terminal \subseteq run'.occs \cup st'.terminal
      BY <3>1 DEF KeepsLease, SameGrant, run
    <3> QED  BY <1>0, <2>1, <3>2, PlainHeeds
  <2> QED  BY <2>2, <2>3
<1>3. CASE OnLeafOff /\ ~ThenReconcile
  <2>1. /\ st' = st /\ retryAt' = retryAt /\ stack' = <<"settling", "reconcile">>
        /\ job' = [Now(clock) EXCEPT !.leaf = Event.leaf]
    BY <1>3 DEF OnLeafOff, Begins, Goto
  <2>2. /\ <<"settling", "reconcile">> = <<"settling">> \o <<"reconcile">>
        /\ "settling" \in StageNames \ Plain /\ <<"settling">> \in Seq(StageNames)
    BY Joined DEF StageNames, Plain, FirstOnly
  <2>3. Special' = {"settling"}
    BY <1>0, <2>1, <2>2, SpecialOne
  <2>4. stack' # <<>> /\ StagesOf(stack)' \cap Pre # {}
    BY <2>1, <2>2, ReconcileStages
  <2>5. job'.now >= NoTime
    BY <1>0, <2>1 DEF Now, NoJob
  <2>6. KeepsLease(run', run) /\ run.occs \cup st.terminal \subseteq run'.occs \cup st'.terminal
    BY <2>1 DEF KeepsLease, SameGrant, run
  <2> QED  BY <2>1, <2>3, <2>4, <2>5, <2>6, HeedsIf DEF Recovering
<1> QED  BY <1>1, <1>2, <1>3

\* The handlers of what forbids the run.
LEMMA HazardsHeed ==
    ASSUME Inner, Outer, RetryInv, Special = {}, stack = <<>>,
           OnRootOff \/ OnRevoke \/ OnVacation \/ OnHazard
    PROVE  Heeds
<1>1. Event.user \in BOOLEAN
  <2>1. Event \in Tasks
    BY TakeType DEF OnRootOff, OnRevoke, OnVacation, OnHazard
  <2> QED  BY <2>1 DEF Tasks
<1>2. CASE \E u, v, w \in BOOLEAN, s \in {<<"reconcile">>, <<"finish">>} :
              (s = <<"finish">> => Active) /\ CancelOn(u, v, w, s)
  BY <1>2, FirstStages, CancelHeeds
<1>3. CASE /\ OnRevoke /\ ~(Active /\ Event.gen = run.gen)
  <2>1. /\ st' = st /\ stack' = stack /\ job' = job /\ Event.kind = "revoke"
        /\ retryAt' = retryAt /\ timer' = timer
    BY <1>3 DEF OnRevoke, Take, Event
  <2>2. run' = run /\ Special' = {} /\ job.now >= NoTime
    BY <2>1 DEF run, Special, StagesOf, RetryInv, Timed
  <2>3. (Active' => Active) /\ (Waiting' => Waiting /\ Keeps)
    BY <2>1, <2>2 DEF Active, Waiting, Keeps
  <2> QED  BY <2>1, <2>2, <2>3 DEF Heeds
<1>4. CASE /\ OnHazard /\ ThenReconcile
           /\ UNCHANGED <<st, scheduled, retryAt, revokeBy, timer, proc>>
  <2>1. Begins(Now(clock), <<"reconcile">>) /\ Now(clock).now >= NoTime
    BY <1>4 DEF ThenReconcile, Now, NoJob, NoTime, Outer
  <2>2. KeepsLease(run', run) /\ run.occs \cup st.terminal \subseteq run'.occs \cup st'.terminal
    BY <1>4 DEF KeepsLease, SameGrant, run
  <2> QED  BY <1>4, <2>1, <2>2, FirstStages, PlainHeeds
<1>5. OnRevoke /\ Active /\ Event.gen = run.gen => CancelOn(Event.user, TRUE, FALSE, <<"finish">>)
  BY DEF OnRevoke
<1>6. /\ OnRootOff => CancelOn(TRUE, TRUE, FALSE, <<"reconcile">>)
      /\ OnVacation => CancelOn(FALSE, FALSE, Event.user, <<"reconcile">>)
      /\ OnHazard => \/ CancelOn(FALSE, FALSE, FALSE, <<"reconcile">>)
                     \/ /\ room = "ready" /\ ThenReconcile
                        /\ UNCHANGED <<st, scheduled, retryAt, revokeBy, timer, proc>>
  BY DEF OnRootOff, OnVacation, OnHazard
<1>7. <<"reconcile">> # <<"finish">>
  OBVIOUS
<1> QED  BY <1>1, <1>2, <1>3, <1>4, <1>5, <1>6, <1>7

-----------------------------------------------------------------------------
\* The handlers that end the episode or the coordinator.
LEMMA EndsHeed ==
    ASSUME Inner, Outer, RetryInv, Special = {}, OnEnd \/ OnUnload
    PROVE  Heeds
<1>0. st \in Profile /\ clock \in Nat /\ clock >= NoTime /\ Now(clock).now = clock
  BY DEF Inner, Outer, Now, NoJob, NoTime
<1>1. CASE OnEnd /\ Active
  <2>1. /\ st' = [st EXCEPT !.run = NoRun, !.terminal = @ \cup run.occs,
                            !.alarms = @ \ FiredAlarms(run)]
        /\ stack' = ReleaseOf(run) \o <<"ended", "reconcile">>
        /\ job' = [Now(clock) EXCEPT !.prev = run] /\ retryAt' = retryAt
    BY <1>1 DEF OnEnd, Begins, Goto
  <2>2. run' = NoRun
    BY <1>0, <2>1 DEF Profile, run
  <2>3. stack' = (ReleaseOf(run) \o <<"ended">>) \o <<"reconcile">>
        /\ ReleaseOf(run) \o <<"ended">> \in Seq(StageNames)
        /\ stack' = ReleaseOf(run) \o <<"ended">> \o <<"reconcile">>
    <3>1. /\ <<"ended", "reconcile">> = <<"ended">> \o <<"reconcile">>
          /\ ReleaseOf(run) \in Seq(StageNames) /\ <<"ended">> \in Seq(StageNames)
          /\ <<"reconcile">> \in Seq(StageNames)
      BY Joined, ReleaseOfSeq DEF StageNames
    <3> QED  BY <2>1, <3>1, ConcatAssociative, ConcatProperties
  <2>4. Special' \subseteq {"ended", "release"}
    <3>1. "ended" \in StageNames \ Plain
      BY DEF StageNames, Plain, NeedPrev
    <3>2. Special' = {"ended"} \cup (IF run.gen = 0 THEN {} ELSE {"release"})
      BY <2>3, <3>1, FirstStages, SpecialRelease
    <3> QED  BY <3>2
  <2>5. Special' \cap ({"recover"} \cup Recovering) = {}
    BY <2>4 DEF Recovering
  <2>6. stack' # <<>>
    BY <2>3, ReconcileStages
  <2>7. ~Active' /\ job'.now >= NoTime
    BY <1>0, <2>1, <2>2 DEF Active, Now, NoJob
  <2> QED  BY <2>1, <2>2, <2>5, <2>6, <2>7, HeedsIf
<1>2. ASSUME OnUnload PROVE ~Listening /\ st' = st /\ retryAt' = retryAt
  <2>1. Event \in Queued /\ Event.kind = "unload"
    BY <1>2, TakenQueue DEF OnUnload
  <2> QED  BY <1>2, <2>1 DEF RetryInv, StopsWait, Waits, Listening, OnUnload
<1>3. CASE OnUnload /\ Active /\ ~stopping
  <2>1. /\ stack' = ReleaseOf(run) \o <<"abandoned", "persist", "unloaded">>
        /\ job' = [Now(clock) EXCEPT !.prev = run]
    BY <1>3 DEF OnUnload, Begins, Goto
  <2>2. stack' = ReleaseOf(run) \o <<"abandoned">> \o <<"persist", "unloaded">>
    <3>1. ReleaseOf(run) \in Seq(StageNames)
      BY ReleaseOfSeq
    <3>2. <<"abandoned">> \in Seq(StageNames) /\ <<"persist", "unloaded">> \in Seq(StageNames)
      BY DEF StageNames
    <3> QED  BY <2>1, <3>1, <3>2, ThreeJoined, ConcatAssociative
  <2>3. Special' = {"abandoned"} \cup (IF run.gen = 0 THEN {} ELSE {"release"})
    <3>1. "abandoned" \in StageNames \ Plain
      BY DEF StageNames, Plain, NeedPrev
    <3> QED  BY <2>2, <3>1, FirstStages, SpecialRelease
  <2>4. Special' \cap ({"recover"} \cup Recovering) = {} /\ stack' # <<>>
    BY <2>3 DEF Recovering, Special, StagesOf
  <2>5. KeepsLease(run', run) /\ run' = run /\ st'.terminal = st.terminal
    BY <1>2, <1>3 DEF KeepsLease, SameGrant, run
  <2>6. job'.now >= NoTime
    BY <1>0, <2>1 DEF Now, NoJob
  <2> QED  BY <1>2, <1>3, <2>4, <2>5, <2>6, HeedsIf
<1>4. CASE \E s \in Seq(Plain) : /\ Begins(Now(clock), s) /\ st' = st /\ retryAt' = retryAt
                                 /\ s = <<"reconcile">> \/ (~Listening /\ s # <<>>)
  <2>1. KeepsLease(run', run) /\ run.occs \cup st.terminal \subseteq run'.occs \cup st'.terminal
    BY <1>4 DEF KeepsLease, SameGrant, run
  <2> QED  BY <1>0, <1>4, <2>1, PlainHeeds
<1>5. <<"persist", "unloaded">> # <<>>
  OBVIOUS
<1>6. CASE OnEnd /\ ~Active
  <2>1. Begins(Now(clock), <<"reconcile">>) /\ st' = st /\ retryAt' = retryAt
    BY <1>6 DEF OnEnd, ThenReconcile
  <2> QED  BY <1>4, <2>1, FirstStages
<1>7. CASE OnUnload /\ ~(Active /\ ~stopping)
  <2>1. Begins(Now(clock), <<"persist", "unloaded">>)
    BY <1>7 DEF OnUnload
  <2> QED  BY <1>2, <1>4, <1>5, <1>7, <2>1, FirstStages
<1> QED  BY <1>1, <1>3, <1>6, <1>7

\* dismiss, upsert_alarm and delete_alarm.
LEMMA AlarmsHeed ==
    ASSUME Inner, Outer, RetryInv, Special = {}, OnDismiss \/ OnAdd \/ OnDelete
    PROVE  Heeds
<1>0. /\ st \in Profile /\ clock \in Nat /\ clock >= NoTime /\ Now(clock).now = clock
      /\ retryAt' = retryAt
  BY DEF Inner, Outer, OnDismiss, OnAdd, OnDelete, Now, NoJob, NoTime
<1>1. CASE OnDelete \/ OnAdd \/ (OnDismiss /\ ~(Active /\ Event.occ \in run.occs))
  <2>1. Begins(Now(clock), <<"reconcile">>) /\ run' = run /\ st'.terminal = st.terminal
    BY <1>0, <1>1 DEF OnDelete, OnAdd, OnDismiss, ThenReconcile, Profile, run
  <2>2. KeepsLease(run', run) /\ run.occs \cup st.terminal \subseteq run'.occs \cup st'.terminal
    BY <2>1 DEF KeepsLease, SameGrant
  <2> QED  BY <1>0, <2>1, <2>2, FirstStages, PlainHeeds
<1>2. CASE OnDismiss /\ Active /\ Event.occ \in run.occs
  <2> DEFINE r == Without(run, {Event.occ})
  <2>1. run \in Run /\ r \in Run \cup {NoRun}
    BY <1>2, ActiveRun, WithoutType
  <2>2. r # NoRun => /\ r.lease = run.lease /\ r.gen = run.gen /\ r.exp = run.exp
                     /\ r.pending = run.pending /\ r.occs = run.occs \ {Event.occ}
                     /\ r.hold = run.hold
    BY <2>1 DEF Without, Run
  <2>3. /\ st' = [st EXCEPT !.run = r, !.terminal = @ \cup {Event.occ},
                            !.alarms = @ \ (FiredAlarms(run) \cap {Event.occ})]
        /\ stack' = (IF r = NoRun THEN ReleaseOf(run)
                     ELSE <<"acquire", "updated">>) \o <<"reconcile">>
        /\ job' = [Now(clock) EXCEPT !.prev = run]
    BY <1>2 DEF OnDismiss, Begins, Goto
  <2> HIDE DEF r
  <2>4. run' = r /\ st'.terminal = st.terminal \cup {Event.occ} /\ job'.now >= NoTime
    BY <1>0, <2>3 DEF Profile, run, Now, NoJob
  <2>5. CASE r = NoRun
    <3>1. stack' = ReleaseOf(run) \o <<"reconcile">> /\ ReleaseOf(run) \in Seq(StageNames)
      BY <2>3, <2>5, ReleaseOfSeq
    <3>2. <<>> \o <<"reconcile">> = <<"reconcile">>
      BY Joined
    <3>3. stack' = <<"reconcile">> \/ stack' = <<"release">> \o <<"reconcile">>
      BY <3>1, <3>2 DEF ReleaseOf
    <3>4. Special' \subseteq {"release"}
      BY <3>3, FirstStages, SpecialPlain, SpecialOne DEF StageNames
    <3>5. stack' # <<>> /\ StagesOf(stack)' \cap Pre # {}
      BY <3>1, ReconcileStages
    <3>6. ~Active' /\ Special' \cap ({"recover"} \cup Recovering) = {}
      BY <2>4, <2>5, <3>4 DEF Active, Recovering
    <3> QED  BY <1>0, <2>4, <2>5, <3>5, <3>6, HeedsIf
  <2>6. CASE r # NoRun
    <3>1. stack' = <<"acquire", "updated">> \o <<"reconcile">>
      BY <2>3, <2>6
    <3>2. Special' = {"acquire", "updated"} \ Plain
      BY <3>1, FirstStages, SpecialCall DEF StageNames
    <3>3. <<"acquire", "updated">> \in Seq(StageNames)
      BY DEF StageNames
    <3>4. stack' # <<>> /\ StagesOf(stack)' \cap Pre # {}
      BY <3>1, <3>3, ReconcileStages
    <3>5. KeepsLease(run', run) /\ run.occs \cup st.terminal \subseteq run'.occs \cup st'.terminal
      BY <2>1, <2>2, <2>4, <2>6 DEF KeepsLease, SameGrant
    <3>6. Special' \cap ({"recover"} \cup Recovering) = {}
      BY <3>2 DEF Recovering
    <3> QED  BY <1>0, <2>4, <3>4, <3>5, <3>6, HeedsIf
  <2> QED  BY <2>5, <2>6
<1> QED  BY <1>1, <1>2

-----------------------------------------------------------------------------
\* The start of the coordinator takes the recovery up, with no retry behind it.
LEMMA StartKeeps ==
    ASSUME Inner, Outer, RetryInv, OnStart PROVE RetryInv'
<1>0. st \in Profile /\ clock \in Nat /\ Now(clock).now = clock /\ clock >= NoTime
  BY DEF Inner, Outer, Now, NoJob, NoTime
<1>1. /\ Queued' \subseteq Queued /\ Event \in Queued /\ Event.kind = "start"
      /\ \A x : Waits(x)' => Waits(x)
      /\ ~Waits("start")'
      /\ \A i, j \in 1 .. Len(queue') :
            queue'[i].kind = "start" /\ queue'[j].kind = "start" => i = j
  BY TakenQueue DEF OnStart
<1>2. Waits("start")
  BY <1>1 DEF Waits
<1>3. /\ stack = <<>> /\ Special = {} /\ clock' = clock /\ retryAt' = retryAt
      /\ retryBy' = retryBy /\ stopping' = stopping
  BY DEF OnStart, Take, world, Special, StagesOf
<1>4. OneStart'
  BY <1>1 DEF OneStart
<1>5. CASE stopping
  <2>1. run' = run /\ st' = st /\ phase' = phase /\ job' = job /\ stack' = stack
    BY <1>5 DEF OnStart, run
  <2>2. Special' = Special /\ ~Listening' /\ ~Listening
    BY <1>3, <1>5, <2>1 DEF Special, StagesOf, Listening
  <2>3. Timed' /\ StopsWait'
    BY <1>1, <1>3, <2>1 DEF RetryInv, Timed, StopsWait
  <2>4. NeverTried' /\ Resuming'
    <3>1. Fresh' => Fresh
      BY <1>2 DEF Fresh
    <3>2. Active' = Active /\ run'.pending = run.pending /\ Soon("reconcile")' = Soon("reconcile")
      BY <2>1 DEF Active, Soon, StagesOf
    <3> QED  BY <1>3, <2>1, <2>2, <3>1, <3>2 DEF RetryInv, NeverTried, Resuming
  <2>5. Retrying' /\ Chosen' /\ Armed'
    BY <2>2 DEF Retrying, Chosen, Armed
  <2>6. Ahead(stack, ~Listening)'
    BY <2>1, <2>2 DEF RetryInv, Ahead, StagesOf
  <2> QED  BY <1>4, <2>3, <2>4, <2>5, <2>6 DEF RetryInv
<1>6. CASE ~stopping
  <2>1. /\ phase' = "running" /\ st' = Refreshed(st, clock) /\ job' = Now(clock)
        /\ stack' = <<"recover", "reconcile">>
    BY <1>6 DEF OnStart, Begins, Goto
  <2>2. run' = run
    BY <1>0, <2>1, RefreshedType DEF run
  <2>3. /\ <<"recover", "reconcile">> = <<"recover">> \o <<"reconcile">>
        /\ "recover" \in StageNames \ Plain /\ <<"recover">> \in Seq(StageNames)
    BY Joined DEF StageNames, Plain, FirstOnly
  <2>4. Special' = {"recover"}
    BY <2>1, <2>3, FirstStages, SpecialOne
  <2>5. Soon("reconcile")'
    <3>1. 2 \in 1 .. Len(stack') /\ stack'[2] = "reconcile"
      BY <2>1
    <3> QED  BY <3>1 DEF Soon, StagesOf
  <2>6. Active => retryAt = NoTime /\ retryBy = NoTime
    BY <1>2, <1>3 DEF RetryInv, NeverTried, Fresh
  <2>7. phase \in {"starting", "running"}
    BY <1>2 DEF RetryInv, OneStart
  <2>8. Active' => retryAt' = NoTime /\ retryBy' = NoTime
    BY <1>3, <2>2, <2>6 DEF Active
  <2>9. Timed'
    BY <1>0, <1>1, <1>3, <2>1 DEF RetryInv, Timed
  <2>10. StopsWait'
    BY <1>1, <1>6, <2>7 DEF RetryInv, StopsWait
  <2>11. NeverTried' /\ Resuming'
    BY <2>1, <2>4, <2>5, <2>8 DEF NeverTried, Resuming, Recovering, NotUp
  <2>12. Retrying' /\ Chosen' /\ Armed'
    <3>1. Undecided'
      BY <2>4 DEF Undecided
    <3>2. stack' # <<>>
      BY <2>1
    <3> QED  BY <2>8, <3>1, <3>2 DEF Retrying, Chosen, Armed, Waiting
  <2>13. Ahead(stack, ~Listening)'
    <3>1. Ahead(<<"recover", "reconcile">>, ~Listening')
      BY PlainAhead
    <3> QED  BY <2>1, <3>1 DEF Ahead, StagesOf
  <2> QED  BY <1>4, <2>9, <2>10, <2>11, <2>12, <2>13 DEF RetryInv
<1> QED  BY <1>5, <1>6

\* The handlers.
LEMMA RetryHandlers ==
    ASSUME Inner, Outer, Inner', RetryInv, Handlers PROVE RetryInv'
<1>1. CASE OnStart
  BY <1>1, StartKeeps
<1>2. CASE ~OnStart
  <2>1. \E k : k # "start" /\ Take(k)
    <3>1. CASE OnTimer \/ OnPoke \/ OnLeafOff \/ OnStop
      BY <3>1 DEF OnTimer, OnPoke, OnLeafOff, OnStop
    <3>2. CASE OnRootOff \/ OnRevoke \/ OnVacation \/ OnHazard
      BY <3>2 DEF OnRootOff, OnRevoke, OnVacation, OnHazard
    <3>3. CASE OnEnd \/ OnUnload \/ OnDismiss \/ OnAdd \/ OnDelete
      BY <3>3 DEF OnEnd, OnUnload, OnDismiss, OnAdd, OnDelete
    <3> QED  BY <1>2, <3>1, <3>2, <3>3 DEF Handlers
  <2>2. PICK k : k # "start" /\ Take(k)
    BY <2>1
  <2>3. stack = <<>> /\ Special = {}
    BY <2>2 DEF Take, Special, StagesOf
  <2>4. proc' = proc
    <3>1. CASE OnTimer \/ OnPoke \/ OnLeafOff \/ OnStop
      BY <3>1 DEF OnTimer, OnPoke, OnLeafOff, OnStop
    <3>2. CASE OnRootOff \/ OnRevoke \/ OnVacation \/ OnHazard
      BY <3>2 DEF OnRootOff, OnRevoke, OnVacation, OnHazard, CancelOn
    <3>3. CASE OnEnd \/ OnUnload \/ OnDismiss \/ OnAdd \/ OnDelete
      BY <3>3 DEF OnEnd, OnUnload, OnDismiss, OnAdd, OnDelete
    <3> QED  BY <1>2, <3>1, <3>2, <3>3 DEF Handlers
  <2>5. Heeds
    BY <1>2, <2>3, EventsHeed, HazardsHeed, EndsHeed, AlarmsHeed DEF Handlers
  <2>6. OnStop \/ OnUnload => ~Listening
    <3>1. OnStop \/ OnUnload => Event \in Queued /\ Event.kind \in {"stop", "unload"}
      BY TakenQueue DEF OnStop, OnUnload
    <3> QED  BY <3>1 DEF RetryInv, StopsWait, Waits, Listening
  <2>7. Ahead(stack', ~Listening)
    BY <2>6, AheadHandlers
  <2> QED  BY <2>2, <2>4, <2>5, <2>7, RetryHandler
<1> QED  BY <1>1, <1>2

-----------------------------------------------------------------------------
\* Time only widens a bound.
LEMMA LaterStill ==
    ASSUME NEW a \in Int, NEW b \in Nat, NEW c \in Nat, NEW d \in Nat, a <= b + d, b <= c
    PROVE  a <= c + d
OBVIOUS

\* What happens around the coordinator while no handler has a part in it.
LEMMA RetryAround ==
    ASSUME Inner, Outer, RetryInv, Still, proc' = proc, clock' \in Nat, clock <= clock',
           Longer, timer' = timer \/ Waits("timer")'
    PROVE  RetryInv'
<1>0. clock \in Nat /\ Step \in Nat /\ retryAt \in Int /\ timer \in Int
  BY TimeAssumption DEF Inner, Outer
<1>1. /\ \A k \in {"start", "stop", "unload"} : Waits(k)' <=> Waits(k)
      /\ Waits("timer") => Waits("timer")'
      /\ \A t \in Queued' : t \in Queued \/ t.now >= NoTime
      /\ queue # <<>> => Event' = Event
      /\ OneStart => \A i, j \in 1 .. Len(queue') :
            queue'[i].kind = "start" /\ queue'[j].kind = "start" => i = j
  BY LongerQueue
<1>2. /\ st' = st /\ run' = run /\ retryAt' = retryAt /\ retryBy' = retryBy /\ job' = job
      /\ stack' = stack /\ Special' = Special /\ phase' = phase /\ stopping' = stopping
      /\ Listening' = Listening /\ (Active' <=> Active) /\ (Waiting' <=> Waiting)
      /\ (Undecided' <=> Undecided) /\ (Soon("reconcile")' <=> Soon("reconcile"))
      /\ StagesOf(stack)' = StagesOf(stack)
  BY DEF Still, proc, run, Special, StagesOf, Listening, Active, Waiting, Undecided, Soon
<1>3. Timed'
  <2>1. retryAt # NoTime => retryAt <= clock' + Step
    <3>1. ASSUME retryAt # NoTime PROVE retryAt <= clock' + Step
      <4>1. retryAt <= clock + Step
        BY <3>1 DEF RetryInv, Timed
      <4>2. clock' \in Nat /\ clock <= clock'
        OBVIOUS
      <4> QED  BY <1>0, <4>1, <4>2, LaterStill
    <3> QED  BY <3>1
  <2>2. \A t \in Queued' : t.now >= NoTime
    BY <1>1 DEF RetryInv, Timed
  <2>3. job.now >= NoTime
    BY DEF RetryInv, Timed
  <2> QED  BY <1>2, <2>1, <2>2, <2>3 DEF Timed
<1>4. Waits("start") => queue # <<>>
  BY DEF Waits, Queued
<1>5. OneStart' /\ StopsWait'
  BY <1>1, <1>2, <1>4 DEF RetryInv, OneStart, StopsWait
<1>6. Fresh' <=> Fresh
  BY <1>1, <1>2 DEF Fresh
<1>7. NeverTried' /\ Resuming'
  BY <1>2, <1>6 DEF RetryInv, NeverTried, Resuming
<1>8. Active /\ Limited(retryBy) => Limited(retryBy)'
  <2>1. ASSUME Active, NEW o \in run.occs \cup st.terminal, RampStart[o] <= clock
        PROVE  RampStart[o] <= clock'
    <3>1. run.occs \subseteq Occ /\ st.terminal \subseteq Occ
      BY <2>1, ActiveRun DEF Inner, Profile, Run
    <3>2. RampStart[o] \in Nat
      BY <2>1, <3>1, OccAssumption, TimeAssumption
    <3> QED  BY <1>0, <2>1, <3>2
  <2> QED  BY <1>2, <2>1 DEF Limited
<1>9. Retrying' /\ Chosen'
  BY <1>2, <1>8 DEF RetryInv, Retrying, Chosen, Waiting
<1>10. Armed'
  BY <1>0, <1>1, <1>2 DEF RetryInv, Armed
<1>11. Ahead(stack, ~Listening)'
  BY <1>2 DEF RetryInv, Ahead, StagesOf
<1> QED  BY <1>3, <1>5, <1>7, <1>9, <1>10, <1>11 DEF RetryInv

\* One task is posted.
LEMMA PostedOne ==
    ASSUME Outer, NEW t \in Others, Post(<<t>>) \/ queue' = Append(queue, t)
    PROVE  Longer
<1>1. t \in Tasks /\ <<t>> \in Seq(Others) /\ queue \in Seq(Tasks)
  BY DEF Others, Outer
<1>2. Append(queue, t) = queue \o <<t>>
  BY <1>1, AppendIsConcat
<1>3. CASE Post(<<t>>)
  BY <1>1, <1>3, PostLonger
<1>4. CASE queue' = Append(queue, t)
  BY <1>1, <1>2, <1>4 DEF Longer
<1> QED  BY <1>3, <1>4

\* The tasks that the environment posts.
LEMMA OtherTasks ==
    /\ \A k \in {"poke", "hazard"} : Task(k) \in Others
    /\ \A u \in BOOLEAN : /\ [Task("poke") EXCEPT !.user = u] \in Others
                          /\ [Task("vacation") EXCEPT !.user = u] \in Others
    /\ clock \in Nat => [Task("timer") EXCEPT !.now = clock] \in Others
    /\ \A g \in Nat, u \in BOOLEAN : [Task("revoke") EXCEPT !.gen = g, !.user = u] \in Others
    /\ \A g \in Nat : [Task("revoke") EXCEPT !.gen = g] \in Others
    /\ \A l \in Leaf, o \in Occ \cup {NoOcc} :
          [Task("leafOff") EXCEPT !.leaf = l, !.occ = o] \in Others
    /\ \A k \in {"dismiss", "add", "delete", "end"}, o \in Occ \cup {NoOcc} :
          (k = "add" => o \in Occ) => [Task(k) EXCEPT !.occ = o] \in Others
<1>1. ASSUME NEW t \in Tasks, t.kind \notin {"start", "stop", "unload"},
             \/ t.now = NoTime /\ t.kind # "timer"
             \/ t.now = clock /\ clock \in Nat
      PROVE  t \in Others
  BY <1>1 DEF Others, NoTime
<1>2. ASSUME NEW k \in {"poke", "hazard"} PROVE Task(k) \in Others
  <2>1. Task(k) \in Tasks /\ Task(k).kind = k /\ Task(k).now = NoTime
    BY EnvTasks DEF Task
  <2> QED  BY <1>1, <2>1
<1>3. ASSUME NEW k \in {"poke", "vacation"}, NEW u \in BOOLEAN
      PROVE  [Task(k) EXCEPT !.user = u] \in Others
  <2> DEFINE t == [Task(k) EXCEPT !.user = u]
  <2>1. t \in Tasks
    BY EnvTasks
  <2>2. t.kind = k /\ t.now = NoTime
    BY DEF Task
  <2> HIDE DEF t
  <2>3. t \in Others
    BY <1>1, <2>1, <2>2
  <2> QED  BY <2>3 DEF t
<1>4. ASSUME clock \in Nat PROVE [Task("timer") EXCEPT !.now = clock] \in Others
  <2> DEFINE t == [Task("timer") EXCEPT !.now = clock]
  <2>1. t \in Tasks
    <3>1. clock \in Int
      BY <1>4
    <3> QED  BY <3>1, EnvTasks
  <2>2. t.kind = "timer" /\ t.now = clock
    BY DEF Task
  <2> HIDE DEF t
  <2>3. t \in Others
    BY <1>1, <1>4, <2>1, <2>2
  <2> QED  BY <2>3 DEF t
<1>5. ASSUME NEW g \in Nat, NEW u \in BOOLEAN
      PROVE  [Task("revoke") EXCEPT !.gen = g, !.user = u] \in Others
  <2> DEFINE t == [Task("revoke") EXCEPT !.gen = g, !.user = u]
  <2>1. t \in Tasks
    BY EnvTasks
  <2>2. t.kind = "revoke" /\ t.now = NoTime
    BY DEF Task
  <2> HIDE DEF t
  <2>3. t \in Others
    BY <1>1, <2>1, <2>2
  <2> QED  BY <2>3 DEF t
<1>6. ASSUME NEW g \in Nat PROVE [Task("revoke") EXCEPT !.gen = g] \in Others
  <2> DEFINE t == [Task("revoke") EXCEPT !.gen = g]
  <2>1. Task("revoke") \in Tasks /\ Task("revoke").kind # "add"
    <3>1. "revoke" \in Kinds \ {"add"}
      BY DEF Kinds
    <3> QED  BY <3>1, TaskType DEF Task
  <2>2. t \in Tasks
    BY <2>1 DEF Tasks
  <2>3. t.kind = "revoke" /\ t.now = NoTime
    BY DEF Task
  <2> HIDE DEF t
  <2>4. t \in Others
    BY <1>1, <2>2, <2>3
  <2> QED  BY <2>4 DEF t
<1>7. ASSUME NEW l \in Leaf, NEW o \in Occ \cup {NoOcc}
      PROVE  [Task("leafOff") EXCEPT !.leaf = l, !.occ = o] \in Others
  <2> DEFINE t == [Task("leafOff") EXCEPT !.leaf = l, !.occ = o]
  <2>1. t \in Tasks
    BY EnvTasks
  <2>2. t.kind = "leafOff" /\ t.now = NoTime
    BY DEF Task
  <2> HIDE DEF t
  <2>3. t \in Others
    BY <1>1, <2>1, <2>2
  <2> QED  BY <2>3 DEF t
<1>8. ASSUME NEW k \in {"dismiss", "add", "delete", "end"}, NEW o \in Occ \cup {NoOcc},
             k = "add" => o \in Occ
      PROVE  [Task(k) EXCEPT !.occ = o] \in Others
  <2> DEFINE t == [Task(k) EXCEPT !.occ = o]
  <2>1. t \in Tasks
    BY <1>8, CommandTask
  <2>2. t.kind = k /\ t.now = NoTime
    BY DEF Task
  <2> HIDE DEF t
  <2>3. t \in Others
    BY <1>1, <2>1, <2>2
  <2> QED  BY <2>3 DEF t
<1> QED  BY <1>2, <1>3, <1>4, <1>5, <1>6, <1>7, <1>8

\* The acts of users post tasks.
LEMMA UsersPost ==
    ASSUME Inner, Outer, Users
    PROVE  Still /\ proc' = proc /\ clock' = clock /\ timer' = timer /\ Longer
<1>0. clock \in Nat /\ pbl.gen \in Nat /\ (Active => run.lease \in Occ)
  <2>1. Active => run \in Run
    BY ActiveRun
  <2> QED  BY <2>1 DEF Outer, Leases, Run
<1>2. ASSUME NEW l \in Leaf, LeafOff(l)
      PROVE  Still /\ proc' = proc /\ clock' = clock /\ timer' = timer /\ Longer
  <2> DEFINE off == [Task("leafOff") EXCEPT !.leaf = l, !.occ = IF Active THEN run.lease ELSE NoOcc]
             now == [lights EXCEPT ![l] = 0]
  <2>1. LightsBecome(now, <<off>>)
    BY <1>2 DEF LeafOff
  <2>2. off \in Others
    BY <1>0, OtherTasks
  <2> HIDE DEF off, now
  <2>3. <<off>> \in Seq(Others)
    BY <2>2
  <2> QED  BY <1>2, <2>1, <2>3, LightsLonger DEF LeafOff
<1>3. ASSUME NEW l \in Leaf, NEW level \in 1 .. Full, LeafOn(l, level)
      PROVE  Still /\ proc' = proc /\ clock' = clock /\ timer' = timer /\ Longer
  <2>1. [Task("poke") EXCEPT !.user = TRUE] \in Others
    BY OtherTasks
  <2> QED  BY <1>3, <2>1, PostedOne DEF LeafOn
<1>4. ASSUME NEW v \in {"off", "on", "unknown"}, SetVacation(v)
      PROVE  Still /\ proc' = proc /\ clock' = clock /\ timer' = timer /\ Longer
  <2>1. /\ Task("poke") \in Others
        /\ (v = "on") \in BOOLEAN /\ [Task("vacation") EXCEPT !.user = (v = "on")] \in Others
    BY OtherTasks
  <2> QED  BY <1>4, <2>1, PostedOne DEF SetVacation
<1>5. ASSUME NEW r \in {"ready", "unknown", "blocked"}, SetRoom(r)
      PROVE  Still /\ proc' = proc /\ clock' = clock /\ timer' = timer /\ Longer
  <2>1. Task(IF r = "ready" THEN "poke" ELSE "hazard") \in Others
    BY OtherTasks
  <2> QED  BY <1>5, <2>1, PostedOne DEF SetRoom
<1>6. ASSUME NEW u \in BOOLEAN, PblRevoke(u)
      PROVE  Still /\ proc' = proc /\ clock' = clock /\ timer' = timer /\ Longer
  <2>1. [Task("revoke") EXCEPT !.gen = pbl.gen, !.user = u] \in Others
    BY <1>0, OtherTasks
  <2> QED  BY <1>6, <2>1, PostedOne DEF PblRevoke
<1>7. ASSUME NEW kind \in {"dismiss", "add", "delete", "end"}, NEW o \in Occ \cup {NoOcc},
             kind = "add" => o \in Occ, Command(kind, o)
      PROVE  Still /\ proc' = proc /\ clock' = clock /\ timer' = timer /\ Longer
  <2>1. [Task(kind) EXCEPT !.occ = o] \in Others
    BY <1>7, OtherTasks
  <2> QED  BY <1>7, <2>1, PostedOne DEF Command
<1> QED  BY <1>2, <1>3, <1>4, <1>5, <1>6, <1>7 DEF Users

\* They keep the invariant.
LEMMA RetryUsers ==
    ASSUME Inner, Outer, RetryInv, Users PROVE RetryInv'
<1>1. clock' \in Nat /\ clock <= clock'
  BY UsersPost DEF Outer
<1> QED  BY <1>1, UsersPost, RetryAround

-----------------------------------------------------------------------------
\* A task at the end of the queue.
LEMMA Appended ==
    ASSUME Outer, NEW t \in Tasks, queue' = Append(queue, t)
    PROVE  /\ Queued' = Queued \cup {t}
           /\ queue # <<>> => Event' = Event
           /\ \A i \in 1 .. Len(queue') : queue'[i] = t \/ (i \in 1 .. Len(queue) /\ queue'[i] = queue[i])
           /\ \A i \in 1 .. Len(queue') : i \in 1 .. Len(queue) \/ i = Len(queue) + 1
<1>0. queue \in Seq(Tasks) /\ Len(queue) \in Nat
  BY LenProperties DEF Outer
<1>1. /\ Len(queue') = Len(queue) + 1 /\ queue'[Len(queue) + 1] = t
      /\ \A i \in 1 .. Len(queue) : queue'[i] = queue[i]
      /\ queue' \in Seq(Tasks)
  BY <1>0, AppendProperties
<1>2. \A i \in 1 .. Len(queue') : i \in 1 .. Len(queue) \/ i = Len(queue) + 1
  BY <1>0, <1>1
<1>3. \A i \in 1 .. Len(queue') : queue'[i] = t \/ (i \in 1 .. Len(queue) /\ queue'[i] = queue[i])
  BY <1>1, <1>2
<1>4. Queued' \subseteq Queued \cup {t}
  BY <1>3 DEF Queued
<1>5. Queued \subseteq Queued' /\ t \in Queued'
  <2>1. Len(queue) + 1 \in 1 .. Len(queue') /\ \A i \in 1 .. Len(queue) : i \in 1 .. Len(queue')
    BY <1>0, <1>1
  <2> QED  BY <1>1, <2>1 DEF Queued
<1>6. queue # <<>> => Event' = Event
  <2>1. ASSUME queue # <<>> PROVE Event' = Event
    <3>1. Len(queue) # 0
      BY <1>0, <2>1, EmptySeq
    <3>2. 1 \in 1 .. Len(queue) /\ queue' # <<>>
      BY <1>0, <1>1, <3>1
    <3>3. Head(queue) = queue[1] /\ Head(queue') = queue'[1]
      BY <1>0, <1>1, <2>1, <3>2
    <3> QED  BY <1>1, <3>2, <3>3 DEF Event
  <2> QED  BY <2>1
<1> QED  BY <1>2, <1>3, <1>4, <1>5, <1>6

\* A coordinator that stops, is unloaded, is set up or starts; it does not listen.
LEMMA RetryDeaf ==
    ASSUME Inner, Outer, RetryInv, Still, clock' = clock, ~Listening',
           phase \in NotUp \/ phase' \notin NotUp, OneStart', StopsWait',
           Fresh' => Fresh, \A t \in Queued' : t \in Queued \/ t.now = NoTime
    PROVE  RetryInv'
<1>1. /\ st' = st /\ run' = run /\ retryAt' = retryAt /\ retryBy' = retryBy /\ job' = job
      /\ stack' = stack /\ Special' = Special
      /\ (Active' <=> Active) /\ (Soon("reconcile")' <=> Soon("reconcile"))
  BY DEF Still, run, Special, StagesOf, Active, Soon
<1>2. Timed'
  <2>1. NoTime >= NoTime
    BY DEF NoTime
  <2> QED  BY <1>1, <2>1 DEF RetryInv, Timed
<1>3. NeverTried'
  BY <1>1 DEF RetryInv, NeverTried
<1>4. Resuming'
  BY <1>1 DEF RetryInv, Resuming
<1>5. Retrying' /\ Chosen' /\ Armed'
  BY DEF Retrying, Chosen, Armed
<1>6. Ahead(stack, ~Listening)'
  BY <1>1 DEF RetryInv, Ahead, StagesOf
<1> QED  BY <1>2, <1>3, <1>4, <1>5, <1>6 DEF RetryInv

\* Stop and Unload.
LEMMA RetryLeaves ==
    ASSUME Inner, Outer, RetryInv, Stop \/ Unload PROVE RetryInv'
<1>1. PICK k \in {"stop", "unload"} : queue' = Append(queue, Task(k))
  BY DEF Stop, Unload
<1>2. Task(k) \in Tasks /\ Task(k).kind = k /\ Task(k).now = NoTime
  BY EnvTasks DEF Task
<1>3. /\ Still /\ clock' = clock /\ phase = "running" /\ phase' \in {"running", "unloading"}
      /\ stopping' \/ phase' = "unloading"
      /\ phase' = "running" \/ ~Starting
  BY DEF Stop, Unload
<1>4. /\ Queued' = Queued \cup {Task(k)} /\ (queue # <<>> => Event' = Event)
      /\ \A i \in 1 .. Len(queue') :
            queue'[i] = Task(k) \/ (i \in 1 .. Len(queue) /\ queue'[i] = queue[i])
  BY <1>1, <1>2, Appended
<1>5. Waits("start")' <=> Waits("start")
  BY <1>2, <1>4 DEF Waits
<1>6. ~Listening' /\ StopsWait' /\ phase' \notin NotUp
  BY <1>3 DEF Listening, StopsWait, NotUp
<1>7. OneStart'
  <2>1. ASSUME NEW i \in 1 .. Len(queue'), NEW j \in 1 .. Len(queue'),
               queue'[i].kind = "start", queue'[j].kind = "start"
        PROVE  i = j
    <3>1. /\ i \in 1 .. Len(queue) /\ queue[i].kind = "start"
          /\ j \in 1 .. Len(queue) /\ queue[j].kind = "start"
      BY <1>2, <1>4, <2>1
    <3> QED  BY <3>1 DEF RetryInv, OneStart
  <2>2. ASSUME Waits("start")'
        PROVE  phase' = "running" /\ stack' = <<>> /\ ~Active' /\ Event'.kind = "start"
    <3>1. Waits("start")
      BY <1>5, <2>2
    <3>2. queue # <<>> /\ Starting
      BY <3>1 DEF Waits, Queued, Starting
    <3>3. stack = <<>> /\ ~Active /\ Event.kind = "start"
      BY <1>3, <3>1 DEF RetryInv, OneStart
    <3> QED  BY <1>3, <1>4, <3>2, <3>3 DEF Still, Active, run
  <2> QED  BY <2>1, <2>2 DEF OneStart
<1>8. Fresh' => Fresh
  <2>1. Special' = Special
    BY <1>3, StillSame
  <2> QED  BY <1>5, <1>6, <2>1 DEF Fresh
<1> QED  BY <1>2, <1>3, <1>4, <1>6, <1>7, <1>8, RetryDeaf

\* Boot and CoreRunning.
LEMMA RetryArrives ==
    ASSUME Inner, Outer, RetryInv, Boot \/ CoreRunning PROVE RetryInv'
<1>1. /\ Still /\ clock' = clock /\ phase \in NotUp /\ phase' = "starting" /\ stopping' = stopping
      /\ queue' = queue \/ (queue' = Append(queue, Task("start")) /\ ~Starting)
  BY DEF Boot, CoreRunning, NotUp, world, proc
<1>2. Task("start") \in Tasks /\ Task("start").kind = "start" /\ Task("start").now = NoTime
  BY EnvTasks DEF Task
<1>3. phase # "unloading" /\ ~Listening' /\ Fresh
  BY <1>1 DEF NotUp, Listening, Fresh
<1>4. CASE queue' = queue
  <2>1. Queued' = Queued /\ \A k : Waits(k)' <=> Waits(k)
    BY <1>4 DEF Queued, Waits
  <2>2. OneStart' /\ StopsWait'
    BY <1>1, <1>3, <1>4, <2>1 DEF RetryInv, OneStart, StopsWait
  <2> QED  BY <1>1, <1>3, <2>1, <2>2, RetryDeaf
<1>5. CASE queue' = Append(queue, Task("start")) /\ ~Starting
  <2>1. /\ Queued' = Queued \cup {Task("start")}
        /\ \A i \in 1 .. Len(queue') :
              queue'[i] = Task("start") \/ (i \in 1 .. Len(queue) /\ queue'[i] = queue[i])
        /\ \A i \in 1 .. Len(queue') : i \in 1 .. Len(queue) \/ i = Len(queue) + 1
    BY <1>2, <1>5, Appended
  <2>2. \A k \in {"stop", "unload"} : Waits(k)' <=> Waits(k)
    BY <1>2, <2>1 DEF Waits
  <2>3. ASSUME NEW i \in 1 .. Len(queue'), queue'[i].kind = "start" PROVE i = Len(queue) + 1
    <3>1. CASE i \in 1 .. Len(queue)
      <4>1. queue'[i] = queue[i]
        BY <1>5, <3>1, AppendProperties DEF Outer
      <4> QED  BY <1>5, <2>3, <3>1, <4>1 DEF Starting
    <3> QED  BY <2>1, <3>1
  <2>4. OneStart'
    BY <1>1, <2>3 DEF OneStart
  <2>5. StopsWait'
    BY <1>1, <1>3, <2>2 DEF RetryInv, StopsWait
  <2> QED  BY <1>1, <1>2, <1>3, <2>1, <2>4, <2>5, RetryDeaf
<1> QED  BY <1>1, <1>4, <1>5

\* The memory of the process is gone.
LEMMA RetryForget ==
    ASSUME Outer, Forget, clock' = clock PROVE RetryInv'
<1>1. /\ phase' = "down" /\ queue' = <<>> /\ stack' = <<>> /\ job' = NoJob
      /\ retryAt' = NoTime /\ retryBy' = NoTime
  BY DEF Forget
<1>2. Queued' = {} /\ Special' = {} /\ ~Listening' /\ \A k : ~Waits(k)'
  BY <1>1 DEF Queued, Special, StagesOf, Listening, Waits
<1>3. Timed'
  BY <1>1, <1>2 DEF Timed, NoJob, NoTime
<1>4. OneStart' /\ StopsWait' /\ NeverTried' /\ Resuming'
  BY <1>1, <1>2 DEF OneStart, StopsWait, NeverTried, Resuming
<1>5. Retrying' /\ Chosen' /\ Armed'
  BY <1>2 DEF Retrying, Chosen, Armed
<1>6. Ahead(stack, ~Listening)'
  <2>1. Ahead(<<>>, ~Listening')
    BY PlainAhead
  <2> QED  BY <1>1, <2>1 DEF Ahead, StagesOf
<1> QED  BY <1>3, <1>4, <1>5, <1>6 DEF RetryInv

\* Time, the timer and what the machine does with the coordinator.
LEMMA RetryMachine ==
    ASSUME Inner, Outer, RetryInv, Machine PROVE RetryInv'
<1>0. clock \in Nat /\ pbl.gen \in Nat
  BY DEF Outer, Leases
<1>1. CASE Tick
  <2>1. Still /\ proc' = proc /\ clock' \in Nat /\ clock <= clock' /\ timer' = timer /\ Longer
    BY <1>0, <1>1 DEF Tick, Longer
  <2> QED  BY <2>1, RetryAround
<1>2. CASE FireTimer
  <2> DEFINE t == [Task("timer") EXCEPT !.now = clock]
  <2>1. t \in Others /\ t.kind = "timer"
    BY <1>0, OtherTasks DEF Task
  <2>2. queue' = Append(queue, t) /\ Still /\ proc' = proc /\ clock' = clock
    BY <1>2 DEF FireTimer, world
  <2> HIDE DEF t
  <2>3. Longer
    BY <2>1, <2>2, PostedOne
  <2>4. Queued' = Queued \cup {t}
    BY <2>1, <2>2, Appended DEF Others
  <2>5. Waits("timer")'
    BY <2>1, <2>4 DEF Waits
  <2>6. clock' \in Nat /\ clock <= clock'
    BY <1>0, <2>2
  <2> QED  BY <2>2, <2>3, <2>5, <2>6, RetryAround
<1>3. CASE Poke \/ PblExpire
  <2>1. \E t \in Others : Post(<<t>>)
    BY <1>0, <1>3, OtherTasks DEF Poke, PblExpire
  <2>2. Longer
    BY <2>1, PostedOne
  <2>3. Still /\ proc' = proc /\ clock' = clock /\ timer' = timer
    BY <1>3 DEF Poke, PblExpire, world
  <2>4. clock' \in Nat /\ clock <= clock'
    BY <1>0, <2>3
  <2> QED  BY <2>2, <2>3, <2>4, RetryAround
<1>4. CASE Die
  BY <1>4, RetryForget DEF Die
<1> QED  BY <1>1, <1>2, <1>3, <1>4, RetryLeaves, RetryArrives DEF Machine

\* At first there is no run.
LEMMA RetryInit == Init => RetryInv
<1> SUFFICES ASSUME Init PROVE RetryInv
  OBVIOUS
<1>1. /\ ~Active /\ phase = "running" /\ ~stopping /\ stack = <<>> /\ job = NoJob
      /\ retryAt = NoTime /\ queue = <<Task("start")>>
  BY DEF Init, Active, run
<1>2. /\ Len(queue) = 1 /\ queue[1] = Task("start") /\ Event = Task("start")
  BY <1>1 DEF Event
<1>3. Task("start").kind = "start" /\ Task("start").now = NoTime /\ NoTime >= NoTime
  BY DEF Task, NoTime
<1>4. Queued = {Task("start")} /\ Special = {} /\ Listening
  BY <1>1, <1>2 DEF Queued, Special, StagesOf, Listening
<1>5. Timed
  BY <1>1, <1>3, <1>4 DEF Timed, NoJob
<1>6. OneStart
  BY <1>1, <1>2, <1>3 DEF OneStart
<1>7. StopsWait
  BY <1>3, <1>4 DEF StopsWait, Waits
<1>8. NeverTried /\ Resuming /\ Retrying /\ Chosen /\ Armed
  BY <1>1, <1>4 DEF NeverTried, Resuming, Retrying, Chosen, Armed, Waiting
<1>9. Ahead(stack, ~Listening)
  BY <1>1, PlainAhead
<1> QED  BY <1>5, <1>6, <1>7, <1>8, <1>9 DEF RetryInv

\* Every step keeps the promise of a retry.
LEMMA RetryNext ==
    TypeInv /\ TypeInv' /\ FenceInv /\ CanInv /\ Expires /\ RetryInv /\ [Next]_vars => RetryInv'
<1> SUFFICES ASSUME Inner, Outer, Inner', FenceInner, CanInv, Expires, RetryInv, [Next]_vars
             PROVE  RetryInv'
  <2>1. TypeInv' => Inner'
    BY TwoParts DEF TypeInv, TypeOK, Inner
  <2> QED  BY <2>1, TwoParts DEF FenceInv
<1>1. CASE UNCHANGED vars
  <2>1. /\ Still /\ proc' = proc /\ clock' = clock /\ timer' = timer /\ queue' = queue
    BY <1>1 DEF vars, Still, proc
  <2>2. clock' \in Nat /\ clock <= clock' /\ Longer
    BY <2>1 DEF Outer, Longer
  <2> QED  BY <2>1, <2>2, RetryAround
<1>2. CASE Stages
  <2>1. CASE Unloaded
    BY <2>1, RetryForget DEF Unloaded, world
  <2>2. CASE ~Unloaded
    BY <1>2, <2>2, RetryStages
  <2> QED  BY <2>1, <2>2
<1> QED  BY <1>1, <1>2, RetryHandlers, RetryAnswers, RetryUsers, RetryMachine DEF Next

\* A coordinator that sleeps on a pending recovery has the timer of its retry.
LEMMA SettledRetries == TypeInv /\ RetryInv => RecoveryBounded
<1> SUFFICES ASSUME Inner, Outer, RetryInv, Settled, Active, run.pending
             PROVE  /\ timer # NoTime /\ timer <= clock + Step /\ clock <= run.exp
                    /\ \E o \in run.occs \cup st.terminal :
                          RampStart[o] <= clock /\ clock <= WakeAt[o] + Catchup
  BY TwoParts DEF RecoveryBounded
<1>0. /\ clock \in Nat /\ timer \in Int /\ retryBy \in Int /\ run.exp \in Int
      /\ run.occs \subseteq Occ /\ st.terminal \subseteq Occ
  BY ActiveRun DEF Inner, Outer, Profile, Run
<1>1. Listening /\ stack = <<>> /\ queue = <<>> /\ (timer = NoTime \/ clock < timer) /\ Waiting
  BY DEF Settled, Idle, Waiting
<1>2. ~Waits("timer") /\ Special = {}
  BY <1>1 DEF Waits, Queued, Special, StagesOf
<1>3. timer # NoTime /\ timer <= clock + Step /\ retryBy # NoTime /\ timer <= retryBy
  BY <1>1, <1>2 DEF RetryInv, Armed
<1>4. Limited(retryBy)
  BY <1>1, <1>2, <1>3 DEF RetryInv, Retrying
<1>5. PICK o \in run.occs \cup st.terminal :
         RampStart[o] <= clock /\ retryBy <= WakeAt[o] + Catchup
  BY <1>4 DEF Limited
<1>6. WakeAt[o] + Catchup \in Int
  <2>1. o \in Occ
    BY <1>0
  <2> QED  BY <2>1, OccAssumption, TimeAssumption
<1>7. clock <= run.exp /\ clock <= WakeAt[o] + Catchup
  BY <1>0, <1>1, <1>3, <1>4, <1>5, <1>6 DEF Limited
<1> QED  BY <1>3, <1>5, <1>7

\* A recovery that is not granted is retried by a timer at every step, no longer
\* than the lease lasts and the catch-up of the last alarm the run had
\* (_recover_locked, _retry_or_fail_recovery_locked, _schedule_next_locked).
THEOREM RecoveriesBounded == Spec => []RecoveryBounded
<1>1. TypeInv /\ FenceInv /\ CanInv /\ Expires /\ RetryInv /\ [Next]_vars
        => TypeInv' /\ FenceInv' /\ CanInv' /\ Expires' /\ RetryInv'
  BY TypeNext, FenceNext, CanNext, ExpiresNext, RetryNext
<1>2. Init => TypeInv /\ FenceInv /\ CanInv /\ Expires /\ RetryInv
  BY TypeInit, FenceInit, CanInit, ExpiresInit, RetryInit
<1> QED  BY <1>1, <1>2, SettledRetries, PTL DEF Spec

-----------------------------------------------------------------------------
(***************************************************************************)
(* The holds of a run and the lease that lights them.  Without a restart   *)
(* no recovery refreshes a hold, so what fits the lease when it joins the  *)
(* run fits it for good; and a first grant lasts from now, because PBL     *)
(* keeps no lease of a run that may still start.                           *)
(***************************************************************************)
Secured(r, now) ==
    /\ ~r.pending /\ (r.exp # NoTime => r.gen # 0)
    /\ \A o \in r.occs : r.hold[o] <= IF r.exp = NoTime THEN now + TTL ELSE r.exp

\* PBL's lease belongs to the run or to alarms that are over.
Lent == pbl.status # "none" =>
    pbl.lease \in st.terminal \/ (Active /\ run.exp # NoTime /\ pbl.lease = run.lease)

LeaseInv ==
    /\ Active => Secured(run, clock)
    /\ "merged" \in Special => job.prev \in Run /\ Secured(job.prev, clock)
    /\ "recover" \in Special => ~Active
    /\ Lent
    /\ Active /\ run.exp = NoTime => run.lease \notin st.terminal

\* A run that keeps its lease, or extends it within the expiry, stays secured.
LEMMA SecuredKept ==
    ASSUME NEW r \in Run, NEW q, NEW t \in Int, NEW u \in Int, t <= u, Secured(r, t),
           KeepsLease(q, r) \/ (Extended(q, r) /\ r.exp # NoTime)
    PROVE  q \in Run /\ Secured(q, u) /\ q.lease = r.lease /\ q.exp = r.exp
<1>1. q = r \/ SameGrant(q, r)
  BY DEF KeepsLease, Extended
<1>2. /\ q \in Run /\ q.lease = r.lease /\ q.gen = r.gen /\ q.exp = r.exp
      /\ q.pending = r.pending
  BY <1>1 DEF SameGrant
<1>3. TTL \in Nat /\ r.exp \in Int
  BY CoordinatorAssumption DEF Run
<1>4. ASSUME NEW o \in q.occs
      PROVE  q.hold[o] <= IF q.exp = NoTime THEN u + TTL ELSE q.exp
  <2>1. o \in Occ /\ q.hold[o] \in Int
    BY <1>2 DEF Run
  <2>2. CASE o \in r.occs /\ q.hold[o] = r.hold[o]
    <3>1. r.hold[o] <= IF r.exp = NoTime THEN t + TTL ELSE r.exp
      BY <2>2 DEF Secured
    <3> QED  BY <1>2, <1>3, <2>1, <2>2, <3>1
  <2>3. CASE q.hold[o] <= r.exp /\ r.exp # NoTime
    BY <1>2, <2>3
  <2> QED  BY <2>2, <2>3 DEF KeepsLease, Extended
<1> QED  BY <1>2, <1>4 DEF Secured

\* What keeps the invariant while the run goes on or ends.
LEMMA LeaseStep ==
    ASSUME LeaseInv, pbl' \in {pbl, NoLease}, st.terminal \subseteq st'.terminal,
           "recover" \in Special' => ~Active',
           "merged" \in Special' => job'.prev \in Run /\ Secured(job'.prev, clock'),
           \/ run' = NoRun /\ (Active => run.gen = 0 \/ run.lease \in st'.terminal)
           \/ /\ Active /\ run' # NoRun /\ Secured(run', clock')
              /\ run'.lease = run.lease /\ run'.exp = run.exp
              /\ (run.exp = NoTime => st'.terminal = st.terminal)
    PROVE  LeaseInv'
<1>1. Active' => Secured(run, clock)'
  BY DEF Active, Secured, run
<1>2. "merged" \in Special' => job'.prev \in Run /\ Secured(job.prev, clock)'
  BY DEF Secured
<1>3. Lent'
  <2>1. CASE pbl' = NoLease
    BY <2>1 DEF Lent, NoLease
  <2>2. CASE pbl' = pbl
    <3>1. pbl.status # "none" /\ ~(pbl.lease \in st.terminal) =>
            Active /\ run.exp # NoTime /\ pbl.lease = run.lease /\ run.gen # 0
      BY DEF LeaseInv, Lent, Secured
    <3>2. CASE run' = NoRun
      BY <2>2, <3>1, <3>2 DEF Lent
    <3>3. CASE run' # NoRun
      <4>1. run'.lease = run.lease /\ run'.exp = run.exp
        BY <3>3
      <4> QED  BY <2>2, <3>1, <3>3, <4>1 DEF Lent, Active
    <3> QED  BY <3>2, <3>3
  <2> QED  BY <2>1, <2>2
<1>4. Active' /\ run'.exp = NoTime => run'.lease \notin st'.terminal
  BY DEF LeaseInv, Active, run
<1> QED  BY <1>1, <1>2, <1>3, <1>4 DEF LeaseInv, Active, run

\* A stage that works on the run, or starts one.
LEMMA LeaseMove ==
    ASSUME Inner, Outer, FenceInner, CanInv, Expires, LeaseInv, Plods \/ Starts,
           clock' = clock, pbl' = pbl, st.terminal \subseteq st'.terminal,
           Active => run.exp # NoTime \/ run' = NoRun,
           run' = NoRun => "merged" \notin Special',
           Active /\ run' = NoRun => run.gen = 0 \/ run.lease \in st'.terminal
    PROVE  LeaseInv'
<1>0. clock \in Int /\ clock <= clock
  BY DEF Outer
<1>1. CASE Starts
  <2>1. ~Active /\ pbl'.status # "none" => pbl'.lease \in st'.terminal
    BY DEF LeaseInv, Lent
  <2>2. job.now \in Int /\ job.now <= clock /\ TTL \in Nat
    BY CoordinatorAssumption DEF Inner, Jobs, FenceInner
  <2>3. ASSUME NEW o \in run'.occs PROVE run'.hold[o] <= clock + TTL
    <3>1. o \in Occ /\ RampStart[o] <= job.now /\ run'.hold[o] = Later(WakeAt[o], job.now) + HoldFor[o]
      BY <1>1, <2>3 DEF Starts, ScheduledHold
    <3>2. /\ RampStart[o] \in Nat /\ WakeAt[o] \in Nat /\ HoldFor[o] \in Nat
          /\ RampStart[o] <= WakeAt[o] /\ (WakeAt[o] - RampStart[o]) + HoldFor[o] <= TTL
      BY <3>1, TimeAssumption, LeaseAssumption
    <3>3. PICK k \in Int : k = Later(WakeAt[o], job.now) /\ k \in {WakeAt[o], job.now}
      BY <2>2, <3>2 DEF Later
    <3>4. k + HoldFor[o] <= clock + TTL
      BY <1>0, <2>2, <3>1, <3>2, <3>3
    <3> QED  BY <3>1, <3>3, <3>4
  <2>4. Active' => Secured(run, clock)'
    BY <1>1, <2>3 DEF Starts, Secured, run
  <2>5. "merged" \notin Special' /\ "recover" \notin Special'
    BY <1>1 DEF Starts
  <2>6. Lent'
    BY <1>1, <2>1 DEF Lent, Starts
  <2>7. run'.lease \notin st'.terminal
    BY <1>1 DEF Starts
  <2> QED  BY <2>4, <2>5, <2>6, <2>7 DEF LeaseInv, run
<1>2. CASE Plods
  <2>0. "recover" \notin Special'
    BY <1>2, PlodsOn
  <2>1. CASE run' = NoRun
    BY <2>0, <2>1, LeaseStep
  <2>2. CASE run' # NoRun
    <3>1. Active => run \in Run /\ Secured(run, clock) /\ run.exp # NoTime
      BY <2>2, ActiveRun DEF LeaseInv
    <3>2. CASE KeepsLease(run', run) /\ "merged" \notin Special'
      <4>1. Active
        BY <2>2, <3>2, NoRunAssumption DEF KeepsLease, SameGrant, Active
      <4>2. run' \in Run /\ Secured(run', clock') /\ run'.lease = run.lease /\ run'.exp = run.exp
        BY <1>0, <3>1, <3>2, <4>1, SecuredKept
      <4> QED  BY <2>0, <2>2, <3>1, <3>2, <4>1, <4>2, LeaseStep
    <3>3. CASE Joins
      <4>1. Active /\ Extended(run', run) /\ KeepsLease(job'.prev, run)
        BY <3>3 DEF Joins
      <4>2. run' \in Run /\ Secured(run', clock') /\ run'.lease = run.lease /\ run'.exp = run.exp
        BY <1>0, <3>1, <4>1, SecuredKept
      <4>3. job'.prev \in Run /\ Secured(job'.prev, clock')
        BY <1>0, <3>1, <4>1, SecuredKept
      <4> QED  BY <2>0, <2>2, <3>1, <4>1, <4>2, <4>3, LeaseStep
    <3>4. CASE PutsBack
      <4>1. Active /\ "merged" \in Special /\ Special' = {} /\ run' \in {run, job.prev}
        BY <3>4 DEF PutsBack, Active
      <4>2. job.prev \in Run /\ Secured(job.prev, clock)
        BY <4>1 DEF LeaseInv
      <4>3. job.prev.lease = run.lease /\ job.prev.exp = run.exp
        BY <4>1 DEF CanInv, SamePrev, Expires
      <4>4. Secured(run', clock') /\ run'.lease = run.lease /\ run'.exp = run.exp
        BY <3>1, <4>1, <4>2, <4>3
      <4> QED  BY <2>0, <2>2, <3>1, <4>1, <4>4, LeaseStep
    <3>5. CASE (Completes \/ Opens) /\ ~Joins
      <4>1. KeepsLease(run', run) /\ "merged" \notin Special'
        BY <3>5 DEF Completes, Opens, KeepsLease
      <4> QED  BY <3>2, <4>1
    <3>6. CASE Carries \/ Quitting
      <4>1. KeepsLease(run', run) /\ "merged" \notin Special'
        BY <3>6 DEF Carries, Quitting, Quits
      <4> QED  BY <3>2, <4>1
    <3> QED  BY <1>2, <2>2, <3>3, <3>4, <3>5, <3>6 DEF Plods, Gone
  <2> QED  BY <2>1, <2>2
<1> QED  BY <1>1, <1>2

\* Without a restart no run waits for its recovery, so every stage works on
\* the run as it is, or starts one.
LEMMA NothingRecovers ==
    ASSUME Inner, Outer, RetryInv, LeaseInv, Stages, ~Unloaded
    PROVE  Plods \/ Starts
<1>0. st \in Profile /\ (Active => ~run.pending) /\ ("recover" \in Special => ~Active)
  BY DEF Inner, LeaseInv, Secured
<1>1. CASE Pending
  <2>1. NoCancel(st, Rest)
    BY <1>0, <1>1 DEF Pending
  <2>2. Special = {} /\ Rest \in Seq(Plain)
    <3>1. At("pending") /\ "pending" \in Plain
      BY <1>1 DEF Pending, Plain, NeedRun, NeedPrev, FirstOnly, StageNames
    <3> QED  BY <3>1, PlainAt, AtPlain
  <2> QED  BY <2>1, <2>2, KeepMoves DEF KeepsLease, Plods, run
<1>2. CASE Reacquired \/ Recovered
  <2>1. PICK a \in {"reacquired", "recovered"} : At(a)
    BY <1>2 DEF Reacquired, Recovered
  <2>2. a \in Special /\ run \in Run
    <3>1. a \notin Plain /\ a \in NeedRun
      BY <2>1 DEF Plain, NeedRun
    <3> QED  BY <2>1, <3>1, SpecialAt, AtNeeds
  <2>3. run.pending /\ Active
    BY <2>1, <2>2, NoRunAssumption DEF RetryInv, Resuming, Recovering, Active
  <2> QED  BY <1>0, <2>3
<1>3. CASE RecoverNothing \/ RecoverRootOff \/ RecoverNoTargets \/ RecoverRun
  <2>1. "recover" \in Special
    <3>1. At("recover") /\ "recover" \notin Plain
      BY <1>3 DEF RecoverNothing, RecoverRootOff, RecoverNoTargets, RecoverRun, Plain, FirstOnly
    <3> QED  BY <3>1, SpecialAt
  <2>2. run = NoRun
    BY <1>0, <2>1 DEF Active
  <2>3. NoCancel(st, Rest) /\ At("recover")
    BY <1>3, <2>2 DEF RecoverNothing, RecoverRootOff, RecoverNoTargets, RecoverRun, Active
  <2>4. Rest \in Seq(Plain)
    BY <2>3, AtPlain
  <2>5. run' = NoRun /\ Special' = {}
    BY <2>2, <2>3, <2>4, NoCancelDoes DEF run
  <2> QED  BY <2>5 DEF Plods, Gone
<1> QED  BY <1>1, <1>2, <1>3, EasyMoves, JoinMoves, CompleteMoves, EndMoves, AnswerMoves,
            BeginMoves, DecideMoves DEF Stages

\* What the stages leave behind when they drop the run.
LEMMA DroppedOver ==
    ASSUME Inner, HandMoves, run' = NoRun
    PROVE  "merged" \notin Special' /\ (Active => run.gen = 0 \/ run.lease \in st'.terminal)
<1>1. "merged" \in Special => Active
  BY SoonNeeds, NoRunAssumption DEF Special, Soon, NeedRun, Active
<1>2. CASE Lessens \/ Ignites
  BY <1>2 DEF Lessens, Ignites, LeaderOf, Active, run
<1>3. CASE Passes
  BY <1>1, <1>3 DEF Passes, LeaderOf, Active, run
<1>4. CASE Leaves
  BY <1>4 DEF Leaves
<1> QED  BY <1>2, <1>3, <1>4 DEF HandMoves

\* Every stage.
LEMMA LeaseStages ==
    ASSUME Inner, Outer, FenceInner, CanInv, Expires, RetryInv, StageFacts, LeaseInv,
           Stages, ~Unloaded
    PROVE  LeaseInv'
<1>1. clock' = clock /\ pbl' = pbl
  <2>1. Quiet
    BY DEF Stages, Reconcile, Drain, Pending, Reacquired, JoinDue, Merged,
       Complete, CompletedRun, Begin, Started, Dispatch, Decide, Finish, Cancelled,
       Updated, Failed, Ended, Fence, RecoverNothing, RecoverRootOff,
       RecoverNoTargets, RecoverRun, Recovered, Abandoned
  <2> QED  BY <2>1 DEF Quiet, peer, world
<1>2. HandMoves
  BY StageHands DEF CanInv
<1>3. st.terminal \subseteq st'.terminal
  BY <1>2 DEF HandMoves
<1>4. Active => run.exp # NoTime \/ run' = NoRun
  BY FirstAnswer
<1> QED  BY <1>1, <1>2, <1>3, <1>4, DroppedOver, NothingRecovers, LeaseMove

\* A handler that gets the lock finds a run with its answer, and drops it or
\* leaves it its lease; only a start, which finds none, asks for a recovery.
LEMMA LeaseHandlers ==
    ASSUME Inner, Outer, Listening, Expires, RetryInv, StageFacts, LeaseInv, Handlers
    PROVE  LeaseInv'
<1>1. PICK kind : Take(kind) /\ (kind = "start" \/ ~OnStart)
  BY DEF Handlers, OnStart, OnTimer, OnPoke, OnLeafOff, OnRootOff, OnRevoke,
     OnVacation, OnHazard, OnEnd, OnDismiss, OnAdd, OnDelete, OnStop, OnUnload
<1>2. Special = {} /\ stack = <<>> /\ pbl' = pbl /\ clock' = clock /\ clock \in Int
  BY <1>1, StagesOfOne, FirstStages DEF Take, Special, StagesOf, peer, world, Outer
<1>3. Active => run.exp # NoTime /\ run \in Run /\ Secured(run, clock)
  BY <1>2, ActiveRun DEF Expires, Unanswered, LeaseInv
<1>4. Handled
  BY <1>2, PlainHandlers, CancelHandlers, EndHandlers, AlarmHandlers DEF Handlers
<1>5. HandMoves
  BY <1>2, PlainHandlersHands, CancelHandlersHands, EndHandlersHands, AlarmHandlersHands
     DEF Handlers
<1>6. "recover" \in Special' => ~Active'
  <2>1. CASE OnStart
    <3>1. Waits("start")
      <4>1. Event \in Queued /\ Event.kind = "start"
        BY <2>1, TakenQueue DEF OnStart
      <4> QED  BY <4>1 DEF Waits
    <3>2. ~Active
      BY <3>1 DEF RetryInv, OneStart, Listening
    <3>3. run' = run
      <4>1. st' = st \/ st' = Refreshed(st, clock)
        BY <2>1 DEF OnStart
      <4> QED  BY <1>2, <4>1, RefreshedGrows DEF Inner, run
    <3> QED  BY <3>2, <3>3 DEF Active, run
  <2>2. CASE ~OnStart
    <3>1. Heeds
      BY <1>2, <2>2, EventsHeed, HazardsHeed, EndsHeed, AlarmsHeed DEF Handlers
    <3> QED  BY <3>1 DEF Heeds
  <2> QED  BY <2>1, <2>2
<1>7. st.terminal \subseteq st'.terminal
  BY <1>5 DEF HandMoves
<1>8. CASE run' = NoRun
  BY <1>2, <1>5, <1>6, <1>7, <1>8, DroppedOver, LeaseStep
<1>9. CASE run' # NoRun
  <2>1. KeepsLease(run', run) /\ "merged" \notin Special'
    BY <1>4, <1>9 DEF Handled, Quits
  <2>2. Active
    BY <1>9, <2>1, NoRunAssumption DEF KeepsLease, SameGrant, Active
  <2>3. run' \in Run /\ Secured(run', clock') /\ run'.lease = run.lease /\ run'.exp = run.exp
    <3>1. clock <= clock
      BY <1>2
    <3> QED  BY <1>2, <1>3, <2>1, <2>2, <3>1, SecuredKept
  <2> QED  BY <1>2, <1>3, <1>6, <1>7, <1>9, <2>1, <2>2, <2>3, LeaseStep
<1> QED  BY <1>8, <1>9

\* The run stays as it is, and so do the stages that look at it; time passes
\* and PBL may retire the lease.
LEMMA LeaseStill ==
    ASSUME Inner, LeaseInv, st' = st, clock \in Nat, clock' \in Nat, clock <= clock',
           pbl' \in {pbl, NoLease}, job'.prev = job.prev \/ "merged" \notin Special',
           Special' \cap {"merged", "recover"} \subseteq Special
    PROVE  LeaseInv'
<1>1. run' = run
  BY DEF run
<1>2. Active => run \in Run /\ Secured(run, clock')
  <2>1. ASSUME Active PROVE run \in Run /\ Secured(run, clock) /\ KeepsLease(run, run)
    BY <2>1, ActiveRun DEF LeaseInv, KeepsLease
  <2> QED  BY <2>1, SecuredKept
<1>3. "merged" \in Special' => job'.prev \in Run /\ Secured(job'.prev, clock')
  <2>1. ASSUME "merged" \in Special'
        PROVE  /\ job'.prev = job.prev /\ job.prev \in Run /\ Secured(job.prev, clock)
               /\ KeepsLease(job.prev, job.prev)
    BY <2>1 DEF LeaseInv, KeepsLease
  <2> QED  BY <2>1, SecuredKept
<1>4. "recover" \in Special' => ~Active'
  BY <1>1 DEF LeaseInv, Active, run
<1> QED  BY <1>1, <1>2, <1>3, <1>4, LeaseStep DEF Active

\* A grant gives the run an expiry that its holds fit: the one it has, or a
\* first one that lasts from now, as PBL keeps no lease of a run that starts.
LEMMA LeaseGranted ==
    ASSUME Inner, Outer, CanInv, Expires, LeaseInv, Granted PROVE LeaseInv'
<1>0. st \in Profile /\ clock \in Nat /\ TTL \in Nat
  BY CoordinatorAssumption DEF Inner, Outer
<1>1. /\ run \in Run /\ run' \in Run /\ run'.lease = run.lease /\ run'.exp \in Nat
      /\ run.exp # NoTime => run'.exp = run.exp
      /\ pbl'.status # "none" /\ pbl'.lease = run.lease /\ pbl'.exp = run'.exp
      /\ pbl.status # "none" => pbl.lease = run.lease /\ pbl.exp = run'.exp
      /\ run'.pending = run.pending /\ run'.occs = run.occs /\ st'.terminal = st.terminal
  BY GrantKeeps
<1>2. Active /\ Active' /\ Secured(run, clock) /\ run'.exp # NoTime
  <2>1. Active /\ Active'
    BY <1>1, NoRunAssumption DEF Active, run
  <2> QED  BY <1>1, <2>1 DEF LeaseInv, NoTime
<1> DEFINE same == /\ pbl.status = "active"
                   /\ pbl.occs = run.occs /\ pbl.targets = run.targets
           gen == IF same THEN pbl.gen ELSE pblGen + 1
           exp == IF pbl.status = "none"
                  THEN clock + (IF run.exp = NoTime THEN TTL
                                ELSE Later(1, Sooner(TTL, run.exp - clock)))
                  ELSE pbl.exp
<1>3. gen > 0 /\ st' = [st EXCEPT !.run = MarkAcquired(run, gen, exp)]
  <2>1. pblGen \in Nat /\ (same => pbl.gen > 0)
    BY DEF Outer, CanInv
  <2> QED  BY <2>1 DEF Granted
<1>4. pbl.status = "none" => exp = clock + (IF run.exp = NoTime THEN TTL
                                ELSE Later(1, Sooner(TTL, run.exp - clock)))
  OBVIOUS
<1> HIDE DEF gen, exp
<1>5. run'.gen = gen /\ run'.exp = exp /\ run'.hold = run.hold
  <2>1. run' = [run EXCEPT !.gen = gen, !.exp = exp]
    BY <1>0, <1>3 DEF Profile, MarkAcquired, run
  <2> QED  BY <1>1, <2>1 DEF Run
<1>6. run.exp = NoTime => run'.exp = clock + TTL
  <2>1. run.exp = NoTime => pbl.status = "none"
    BY <1>1, <1>2 DEF LeaseInv, Lent
  <2> QED  BY <1>4, <1>5, <2>1
<1>7. \A o \in run'.occs : run'.hold[o] <= run'.exp
  BY <1>1, <1>2, <1>5, <1>6 DEF Secured
<1>8. Secured(run, clock)'
  BY <1>1, <1>2, <1>3, <1>5, <1>7 DEF Secured, run
<1>9. /\ job'.prev = job.prev /\ clock' = clock /\ Special' \subseteq Special
      /\ "recover" \notin Special'
  <2>1. At("acquire") /\ "acquire" \notin Plain /\ stack' = Rest
    BY DEF Granted, Goto, Plain, NeedRun
  <2>2. Special' \subseteq Special /\ \A x \in Special' : <<"acquire", x>> \in Pairs
    BY <2>1, SpecialRest
  <2>3. job'.prev = job.prev /\ clock' = clock
    BY DEF Granted, world, Inner, Jobs
  <2> QED  BY <2>2, <2>3 DEF Pairs
<1>10. "merged" \in Special' => job'.prev \in Run /\ Secured(job.prev, clock)'
  BY <1>9 DEF LeaseInv, Secured
<1>11. Lent'
  BY <1>1, <1>2 DEF Lent, run
<1> QED  BY <1>2, <1>8, <1>9, <1>10, <1>11 DEF LeaseInv, run

\* The answer to a command neither removes the run nor ends an alarm.
LEMMA SendLeaves ==
    ASSUME Inner, Outer,
           DispatchFailed \/ NotDispatched(TRUE) \/ NotDispatched(FALSE)
             \/ \E T \in SUBSET Leaf : Dispatched(T)
    PROVE  run' \in Run /\ st'.terminal = st.terminal
<1>0. st \in Profile /\ clock \in Nat /\ job.now \in Int /\ revokeBy \in Int
  BY DEF Inner, Outer, Jobs
<1>1. CASE DispatchFailed \/ NotDispatched(TRUE) \/ NotDispatched(FALSE)
  <2>1. Rest \in Seq(Plain) /\ run \in Run
    <3>1. At("send") /\ "send" \in NeedRun
      BY <1>1 DEF NotDispatched, DispatchFailed, NeedRun
    <3> QED  BY <3>1, AtPlain, AtNeeds
  <2>2. \A by \in Int : Sooner(by, job.now + Step) \in Int /\ job.now + 2 * Step \in Int
    BY <1>0, TimeAssumption DEF Sooner
  <2>3. CASE \E b \in BOOLEAN : Cancel(st, FALSE, b, FALSE, Rest)
    BY <1>0, <2>1, <2>3, CancelDoes DEF run
  <2>4. CASE \E n \in Int : st' = [st EXCEPT !.run.next = n]
    <3>1. PICK n \in Int : st' = [st EXCEPT !.run = [run EXCEPT !.next = n]]
      BY <1>0, <2>4 DEF Profile, run
    <3>2. [run EXCEPT !.next = n] \in Run
      BY <2>1 DEF Run
    <3> QED  BY <1>0, <3>1, <3>2 DEF Profile, run
  <2> QED  BY <1>0, <1>1, <2>2, <2>3, <2>4 DEF NotDispatched, DispatchFailed
<1> QED  BY <1>1, DispatchedMoves

\* Every answer.
LEMMA LeaseAnswers ==
    ASSUME Inner, Outer, FenceInner, CanInv, Expires, StageFacts, LeaseInv, Answers
    PROVE  LeaseInv'
<1>0. clock \in Nat
  BY DEF Outer
<1>1. CASE \/ DispatchFailed \/ NotDispatched(TRUE) \/ NotDispatched(FALSE)
           \/ \E T \in SUBSET Leaf : Dispatched(T)
  <2>1. At("send") /\ clock' = clock /\ pbl' = pbl
    BY <1>1 DEF DispatchFailed, NotDispatched, Dispatched, world, peer
  <2>2. Active => run.exp # NoTime
    BY <2>1, ExpiryKnown
  <2>3. Plods /\ run' # NoRun /\ st'.terminal = st.terminal
    BY <1>1, DispatchedMoves, NotDispatchedMoves, SendLeaves, NoRunAssumption
  <2> QED  BY <2>1, <2>2, <2>3, LeaseMove
<1>2. CASE Settling
  <2>1. At("settling") /\ clock' = clock /\ pbl' = pbl
    BY <1>2 DEF Settling, Quiet, world, peer
  <2>2. Active => run.exp # NoTime
    BY <2>1, ExpiryKnown
  <2>3. Plods /\ HandMoves
    BY <1>2, SettledMoves, SettledHands
  <2> QED  BY <2>1, <2>2, <2>3, DroppedOver, LeaseMove DEF HandMoves
<1>3. CASE Save \/ Persist
  <2>1. st' = st /\ clock' = clock /\ pbl' = pbl
    BY <1>3 DEF Save, Persist, world, peer
  <2>2. Special' = {}
    <3>1. stack' \in Seq(Plain)
      BY <1>3, AtPlain, EmptySeq DEF Save, Persist, Goto
    <3> QED  BY <3>1, SpecialPlain
  <2> QED  BY <1>0, <2>1, <2>2, LeaseStill
<1>4. CASE Refused \/ Released \/ NotReleased \/ SafeOff \/ NotSafeOff
  <2>1. st' = st /\ clock' = clock /\ job'.prev = job.prev /\ stack' = Rest
    BY <1>4 DEF Refused, Released, NotReleased, SafeOff, NotSafeOff, Goto, world, Inner, Jobs
  <2>2. Special' \subseteq Special
    <3>1. PICK a \in {"acquire", "release", "safeOff"} : At(a)
      BY <1>4 DEF Refused, Released, NotReleased, SafeOff, NotSafeOff
    <3>2. a \notin Plain
      BY <3>1 DEF Plain, NeedRun, NeedPrev, FirstOnly
    <3> QED  BY <2>1, <3>1, <3>2, SpecialRest
  <2>3. pbl' \in {pbl, NoLease}
    BY <1>4 DEF Refused, Released, NotReleased, SafeOff, NotSafeOff, LightsBecome, Retire, peer
  <2> QED  BY <1>0, <2>1, <2>2, <2>3, LeaseStill
<1> QED  BY <1>1, <1>2, <1>3, <1>4, LeaseGranted DEF Answers

\* Users, PBL and the clock.
LEMMA LeaseAround ==
    ASSUME Inner, Outer, LeaseInv, Users \/ Machine, Listening, Listening' PROVE LeaseInv'
<1>0. clock \in Nat
  BY DEF Outer
<1>1. st' = st /\ job' = job /\ stack' = stack
  <2>1. CASE Users
    BY <2>1 DEF Users, LeafOff, LeafOn, SetVacation, SetRoom, PblRevoke, Command, Still
  <2>2. CASE Machine
    BY <2>2 DEF Machine, Tick, FireTimer, Poke, PblExpire, Stop, Unload, Die, Forget,
       Boot, CoreRunning, Still, Listening
  <2> QED  BY <2>1, <2>2
<1>2. Special' = Special
  BY <1>1 DEF Special, StagesOf
<1>3. pbl' \in {pbl, NoLease}
  <2>1. CASE Users
    BY <2>1 DEF Users, LeafOff, LeafOn, LightsBecome, SetVacation, SetRoom, PblRevoke, Retire,
       Command, peer
  <2>2. CASE Machine
    BY <2>2 DEF Machine, Tick, FireTimer, Poke, PblExpire, Retire, Stop, Unload, Die, Forget,
       Boot, CoreRunning, Listening, peer
  <2> QED  BY <2>1, <2>2
<1>4. clock' \in Nat /\ clock <= clock'
  <2>1. clock' = clock \/ clock' = clock + 1
    <3>1. CASE Users
      BY <3>1 DEF Users, LeafOff, LeafOn, SetVacation, SetRoom, PblRevoke, Command
    <3>2. CASE Machine
      BY <3>2 DEF Machine, Tick, FireTimer, Poke, PblExpire, Stop, Unload, Die, Boot,
         CoreRunning, world
    <3> QED  BY <3>1, <3>2
  <2> QED  BY <1>0, <2>1
<1> QED  BY <1>0, <1>1, <1>2, <1>3, <1>4, LeaseStill

\* No lease and no run at first.
LEMMA LeaseInit == Init => LeaseInv
<1> SUFFICES ASSUME Init PROVE LeaseInv
  OBVIOUS
<1>1. run = NoRun /\ pbl.status = "none" /\ Special = {}
  BY StagesOfOne, FirstStages DEF Init, run, NoLease, Special, StagesOf
<1> QED  BY <1>1 DEF LeaseInv, Lent, Active

\* Every step of a coordinator that is not restarted keeps the holds in the
\* lease.
LEMMA LeaseNext ==
    TypeInv /\ FenceInv /\ CanInv /\ Expires /\ RetryInv /\ HandInv /\ LeaseInv
    /\ Listening /\ Listening' /\ [Next]_vars => LeaseInv'
<1> SUFFICES ASSUME Inner, Outer, FenceInner, CanInv, Expires, RetryInv, StageFacts, LeaseInv,
                    Listening, Listening', [Next]_vars
             PROVE  LeaseInv'
  BY TwoParts DEF FenceInv, HandInv
<1>1. CASE UNCHANGED vars
  <2>1. /\ st' = st /\ job' = job /\ clock' = clock /\ pbl' = pbl /\ Special' = Special
    BY <1>1 DEF vars, Special, StagesOf
  <2>2. clock \in Nat
    BY DEF Outer
  <2> QED  BY <2>1, <2>2, LeaseStill
<1>2. ~Unloaded
  BY DEF Unloaded, Forget, Listening
<1> QED  BY <1>1, <1>2, LeaseStages, LeaseHandlers, LeaseAnswers, LeaseAround DEF Next

\* What fits the lease is below its expiry.
LEMMA LeaseHolds == LeaseInv => HoldWithinLease
BY DEF LeaseInv, Secured, HoldWithinLease

\* The hold of every occurrence of a run ends before the lease does, whatever
\* joins it meanwhile (_reconcile_locked's over_budget, _acquire_locked).  The
\* coordinator must not have been restarted: a recovery refreshes holds, and
\* the lease keeps its expiry.
THEOREM HoldsFit == Spec /\ []Listening => []HoldWithinLease
<1>1. TypeInv /\ FenceInv /\ CanInv /\ Expires /\ RetryInv /\ [Next]_vars
        => TypeInv' /\ FenceInv' /\ CanInv' /\ Expires' /\ RetryInv'
  BY TypeNext, FenceNext, CanNext, ExpiresNext, RetryNext
<1>2. Init => TypeInv /\ FenceInv /\ CanInv /\ Expires /\ RetryInv /\ HandInv /\ LeaseInv
  BY TypeInit, FenceInit, CanInit, ExpiresInit, RetryInit, HandInit, LeaseInit
<1> QED  BY <1>1, <1>2, HandNext, LeaseNext, LeaseHolds, PTL DEF Spec

-----------------------------------------------------------------------------
(***************************************************************************)
(* The brightness that a run observes.  A handler observes it unless the   *)
(* lights still settle after a command (settle), and then has nothing to   *)
(* command but the final level.  Reaches says that the handler is going to *)
(* decide on a command before it passes one of the gates, and Chained      *)
(* which stages follow the start of a run and the joining.                 *)
(***************************************************************************)
Deciders == {"dispatch", "decide", "send"}
Gates == {"reconcile", "active", "finish", "save"}
Counts == Gates \cup {"complete"}
Aside == StageNames \ (Deciders \cup Counts \cup {"begin"})

Reaches(s, gates) ==
    \E i \in 1 .. Len(s) : s[i] \in Deciders /\ \A j \in 1 .. (i - 1) : s[j] \notin gates

Chained(s) ==
    \A i \in 1 .. Len(s) :
        /\ s[i] = "begin" => i < Len(s) /\ s[i + 1] = "dispatch"
        /\ s[i] = "active" => i < Len(s) /\ s[i + 1] = "complete"

\* The first stage and what follows it.
LEMMA ReachesFirst ==
    ASSUME NEW s \in Seq(StageNames), s # <<>>, NEW gates
    PROVE  Reaches(s, gates) <=>
             Head(s) \in Deciders \/ (Head(s) \notin gates /\ Reaches(Tail(s), gates))
<1> DEFINE t == Tail(s)
<1>1. /\ Len(s) \in Nat \ {0} /\ Head(s) = s[1] /\ Len(t) = Len(s) - 1
      /\ \A i \in 1 .. Len(t) : t[i] = s[i + 1]
  BY HeadTailProperties, EmptySeq, LenProperties
<1> HIDE DEF t
<1>2. ASSUME Reaches(s, gates)
      PROVE  Head(s) \in Deciders \/ (Head(s) \notin gates /\ Reaches(t, gates))
  <2>1. PICK i \in 1 .. Len(s) : s[i] \in Deciders /\ \A j \in 1 .. (i - 1) : s[j] \notin gates
    BY <1>2 DEF Reaches
  <2>2. CASE i = 1
    BY <1>1, <2>1, <2>2
  <2>3. CASE i # 1
    <3>1. 1 \in 1 .. (i - 1) /\ i - 1 \in 1 .. Len(t) /\ (i - 1) + 1 = i
      BY <1>1, <2>3
    <3>2. t[i - 1] \in Deciders
      BY <1>1, <2>1, <3>1
    <3>3. ASSUME NEW j \in 1 .. ((i - 1) - 1) PROVE t[j] \notin gates
      <4>1. j + 1 \in 1 .. (i - 1) /\ j \in 1 .. Len(t)
        BY <1>1, <2>3
      <4> QED  BY <1>1, <2>1, <4>1
    <3> QED  BY <1>1, <2>1, <3>1, <3>2, <3>3 DEF Reaches
  <2> QED  BY <2>2, <2>3
<1>3. ASSUME Head(s) \in Deciders PROVE Reaches(s, gates)
  <2>1. 1 \in 1 .. Len(s) /\ s[1] \in Deciders /\ \A j \in 1 .. (1 - 1) : s[j] \notin gates
    BY <1>1, <1>3
  <2> QED  BY <2>1 DEF Reaches
<1>4. ASSUME Head(s) \notin gates, Reaches(t, gates) PROVE Reaches(s, gates)
  <2>1. PICK i \in 1 .. Len(t) : t[i] \in Deciders /\ \A j \in 1 .. (i - 1) : t[j] \notin gates
    BY <1>4 DEF Reaches
  <2>2. i + 1 \in 1 .. Len(s) /\ s[i + 1] \in Deciders
    BY <1>1, <2>1
  <2>3. ASSUME NEW j \in 1 .. ((i + 1) - 1) PROVE s[j] \notin gates
    <3>1. CASE j = 1
      BY <1>1, <1>4, <3>1
    <3>2. CASE j # 1
      <4>1. j - 1 \in 1 .. (i - 1) /\ j - 1 \in 1 .. Len(t) /\ (j - 1) + 1 = j
        BY <1>1, <3>2
      <4> QED  BY <1>1, <2>1, <4>1
    <3> QED  BY <3>1, <3>2
  <2> QED  BY <2>2, <2>3 DEF Reaches
<1> QED  BY <1>2, <1>3, <1>4 DEF t

\* The first stage and what has to follow it.
LEMMA ChainedFirst ==
    ASSUME NEW s \in Seq(StageNames), s # <<>>
    PROVE  Chained(s) <=>
             /\ Chained(Tail(s))
             /\ Head(s) = "begin" => Tail(s) # <<>> /\ Head(Tail(s)) = "dispatch"
             /\ Head(s) = "active" => Tail(s) # <<>> /\ Head(Tail(s)) = "complete"
<1> DEFINE t == Tail(s)
<1>1. /\ Len(s) \in Nat \ {0} /\ Head(s) = s[1] /\ Len(t) = Len(s) - 1
      /\ t \in Seq(StageNames)
      /\ \A i \in 1 .. Len(t) : t[i] = s[i + 1]
  BY HeadTailProperties, EmptySeq, LenProperties
<1> HIDE DEF t
<1>2. t # <<>> <=> 1 < Len(s)
  BY <1>1, EmptySeq
<1>3. t # <<>> => Head(t) = s[2]
  <2> SUFFICES ASSUME t # <<>> PROVE Head(t) = s[2]
    OBVIOUS
  <2>1. Head(t) = t[1] /\ 1 \in 1 .. Len(t)
    BY <1>1, EmptySeq
  <2> QED  BY <1>1, <2>1
<1>4. ASSUME Chained(s)
      PROVE  /\ Chained(t)
             /\ Head(s) = "begin" => t # <<>> /\ Head(t) = "dispatch"
             /\ Head(s) = "active" => t # <<>> /\ Head(t) = "complete"
  <2>1. 1 \in 1 .. Len(s) /\ 1 + 1 = 2
    BY <1>1
  <2>2. /\ Head(s) = "begin" => t # <<>> /\ Head(t) = "dispatch"
        /\ Head(s) = "active" => t # <<>> /\ Head(t) = "complete"
    BY <1>1, <1>2, <1>3, <1>4, <2>1 DEF Chained
  <2>3. ASSUME NEW i \in 1 .. Len(t)
        PROVE  /\ t[i] = "begin" => i < Len(t) /\ t[i + 1] = "dispatch"
               /\ t[i] = "active" => i < Len(t) /\ t[i + 1] = "complete"
    <3>1. i + 1 \in 1 .. Len(s) /\ t[i] = s[i + 1]
      BY <1>1
    <3>2. i + 1 < Len(s) => i < Len(t) /\ t[i + 1] = s[(i + 1) + 1]
      BY <1>1
    <3>3. /\ s[i + 1] = "begin" => i + 1 < Len(s) /\ s[(i + 1) + 1] = "dispatch"
          /\ s[i + 1] = "active" => i + 1 < Len(s) /\ s[(i + 1) + 1] = "complete"
      BY <1>4, <3>1 DEF Chained
    <3> QED  BY <3>1, <3>2, <3>3
  <2> QED  BY <2>2, <2>3 DEF Chained
<1>5. ASSUME Chained(t), Head(s) = "begin" => t # <<>> /\ Head(t) = "dispatch",
             Head(s) = "active" => t # <<>> /\ Head(t) = "complete"
      PROVE  Chained(s)
  <2> SUFFICES ASSUME NEW i \in 1 .. Len(s)
               PROVE  /\ s[i] = "begin" => i < Len(s) /\ s[i + 1] = "dispatch"
                      /\ s[i] = "active" => i < Len(s) /\ s[i + 1] = "complete"
    BY DEF Chained
  <2>1. CASE i = 1
    BY <1>1, <1>2, <1>3, <1>5, <2>1
  <2>2. CASE i # 1
    <3>1. i - 1 \in 1 .. Len(t) /\ (i - 1) + 1 = i
      BY <1>1, <2>2
    <3>2. /\ t[i - 1] = "begin" => i - 1 < Len(t) /\ t[(i - 1) + 1] = "dispatch"
          /\ t[i - 1] = "active" => i - 1 < Len(t) /\ t[(i - 1) + 1] = "complete"
      BY <1>5, <3>1 DEF Chained
    <3>3. t[i - 1] = s[i] /\ (i - 1 < Len(t) => i < Len(s) /\ t[i] = s[i + 1])
      BY <1>1, <3>1
    <3> QED  BY <3>1, <3>2, <3>3
  <2> QED  BY <2>1, <2>2
<1> QED  BY <1>4, <1>5 DEF t

\* One more stage in front.
LEMMA InFront ==
    ASSUME NEW s \in Seq(StageNames), NEW a \in StageNames
    PROVE  LET t == <<a>> \o s
           IN  /\ t \in Seq(StageNames) /\ t # <<>> /\ Head(t) = a /\ Tail(t) = s
<1> DEFINE t == <<a>> \o s
<1>1. /\ <<a>> \in Seq(StageNames) /\ Len(<<a>>) = 1 /\ <<a>>[1] = a /\ Len(s) \in Nat
      /\ \A i \in 1 .. Len(s) : s[i] \in StageNames
  BY LenProperties, ElementOfSeq
<1>2. /\ t \in Seq(StageNames) /\ Len(t) = 1 + Len(s)
      /\ \A i \in 1 .. Len(t) : t[i] = IF i <= 1 THEN <<a>>[i] ELSE s[i - 1]
  BY <1>1, ConcatProperties
<1> HIDE DEF t
<1>3. t # <<>> /\ Head(t) = a
  BY <1>1, <1>2, EmptySeq
<1>4. /\ Tail(t) \in Seq(StageNames) /\ Len(Tail(t)) = Len(s)
      /\ \A i \in 1 .. Len(Tail(t)) : Tail(t)[i] = s[i]
  <2>1. /\ Tail(t) \in Seq(StageNames) /\ Len(Tail(t)) = Len(t) - 1
        /\ \A i \in 1 .. Len(Tail(t)) : Tail(t)[i] = t[i + 1]
    BY <1>2, <1>3, HeadTailProperties
  <2>2. ASSUME NEW i \in 1 .. Len(Tail(t)) PROVE Tail(t)[i] = s[i]
    BY <1>1, <1>2, <2>1
  <2> QED  BY <1>1, <1>2, <2>1, <2>2
<1>5. Tail(t) = s
  BY <1>4, SeqEqual
<1> QED  BY <1>2, <1>3, <1>5 DEF t

\* Stages that neither decide, nor gate, nor are followed by certain others.
Turns(t, s) ==
    /\ t \in Seq(StageNames) /\ Chained(t)
    /\ Reaches(t, Gates) <=> Reaches(s, Gates)
    /\ Reaches(t, Counts) => Reaches(s, Counts)

\* One such stage in front turns nothing.
LEMMA TurnsMore ==
    ASSUME NEW s \in Seq(StageNames), Chained(s), NEW a \in Aside
    PROVE  Turns(<<a>> \o s, s)
<1> DEFINE t == <<a>> \o s
<1>1. a \in StageNames /\ a \notin Deciders \cup Gates \cup Counts /\ a \notin {"begin", "active"}
  BY DEF Aside, Counts, Gates
<1>2. t \in Seq(StageNames) /\ t # <<>> /\ Head(t) = a /\ Tail(t) = s
  BY <1>1, InFront
<1> HIDE DEF t
<1>3. Chained(t)
  BY <1>1, <1>2, ChainedFirst
<1>4. \A g \in {Gates, Counts} : Reaches(t, g) <=> Reaches(s, g)
  BY <1>1, <1>2, ReachesFirst
<1> QED  BY <1>2, <1>3, <1>4 DEF Turns, t

\* One stage in front and another are two in front.
LEMMA TwoInFront ==
    ASSUME NEW s \in Seq(StageNames), NEW a \in StageNames, NEW b \in StageNames
    PROVE  <<a>> \o (<<b>> \o s) = <<a, b>> \o s
<1>1. /\ <<a>> \in Seq(StageNames) /\ <<b>> \in Seq(StageNames)
      /\ <<b>> \o s \in Seq(StageNames)
  BY ConcatProperties
<1>2. <<a, b>> = <<a>> \o <<b>>
  BY Joined
<1> QED  BY <1>1, <1>2, ConcatAssociative

\* Two of them, and the one or two that give a run up.
LEMMA TurnsTwo ==
    ASSUME NEW s \in Seq(StageNames), Chained(s), NEW a \in Aside, NEW b \in Aside, NEW r
    PROVE  /\ Turns(<<a, b>> \o s, s)
           /\ Turns(ReleaseOf(r) \o <<b>> \o s, s)
<1>1. Turns(<<b>> \o s, s)
  BY TurnsMore
<1>2. \A c \in Aside : Turns(<<c>> \o (<<b>> \o s), s)
  <2> SUFFICES ASSUME NEW c \in Aside PROVE Turns(<<c>> \o (<<b>> \o s), s)
    OBVIOUS
  <2>1. Turns(<<c>> \o (<<b>> \o s), <<b>> \o s)
    BY <1>1, TurnsMore DEF Turns
  <2> QED  BY <1>1, <2>1 DEF Turns
<1>0. a \in StageNames /\ b \in StageNames
  BY DEF Aside
<1>3. <<a>> \o (<<b>> \o s) = <<a, b>> \o s
  BY <1>0, TwoInFront
<1>4. <<"release">> \o <<b>> \o s = <<"release">> \o (<<b>> \o s) /\ <<>> \o <<b>> \o s = <<b>> \o s
  BY <1>0
<1>5. "release" \in Aside
  BY DEF Aside, StageNames, Deciders, Counts, Gates
<1> QED  BY <1>1, <1>2, <1>3, <1>4, <1>5 DEF ReleaseOf

\* What follows a stage.
LEMMA TurnsRest ==
    ASSUME Inner, Chained(stack), NEW a, At(a)
    PROVE  /\ Rest \in Seq(StageNames) /\ Chained(Rest)
           /\ a \in Aside \cup {"begin"} => Turns(Rest, stack)
           /\ a \notin Deciders \cup Gates => (Reaches(Rest, Gates) <=> Reaches(stack, Gates))
           /\ a \notin Deciders \cup Counts => (Reaches(Rest, Counts) <=> Reaches(stack, Counts))
           /\ a \in Deciders => Reaches(stack, Gates) /\ Reaches(stack, Counts)
           /\ a \in Gates => ~Reaches(stack, Gates) /\ ~Reaches(stack, Counts)
           /\ a = "begin" => Rest # <<>> /\ Head(Rest) = "dispatch"
           /\ a = "active" => Rest # <<>> /\ Head(Rest) = "complete"
<1>1. stack \in Seq(StageNames) /\ stack # <<>> /\ Head(stack) = a
  BY DEF Inner, Fits, At
<1>2. Rest \in Seq(StageNames) /\ Rest = Tail(stack)
  BY <1>1, HeadTailProperties DEF Rest
<1>3. /\ Chained(Rest)
      /\ a = "begin" => Rest # <<>> /\ Head(Rest) = "dispatch"
      /\ a = "active" => Rest # <<>> /\ Head(Rest) = "complete"
  BY <1>1, <1>2, ChainedFirst
<1>4. \A g : Reaches(stack, g) <=> a \in Deciders \/ (a \notin g /\ Reaches(Rest, g))
  BY <1>1, <1>2, ReachesFirst
<1>5. a \in Gates => a \in Counts /\ a \notin Deciders
  BY DEF Gates, Counts, Deciders
<1>6. a \in Aside \cup {"begin"} => a \notin Deciders \cup Gates \cup Counts
  BY DEF Aside, Gates, Counts, Deciders
<1> QED  BY <1>2, <1>3, <1>4, <1>5, <1>6 DEF Turns

\* The stages that a handler goes through from its start, and the last ones.
LEMMA TurnsEnd ==
    /\ \A s \in {Pipeline, <<"finish">>, <<"save">>, <<>>} :
          s \in Seq(StageNames) /\ Chained(s) /\ ~Reaches(s, Gates) /\ ~Reaches(s, Counts)
<1>1. ASSUME NEW s \in {<<"finish">>, <<"save">>, <<>>}
      PROVE  s \in Seq(StageNames) /\ Chained(s) /\ ~Reaches(s, Gates) /\ ~Reaches(s, Counts)
  <2>1. <<"finish">> \in Seq(StageNames) /\ <<"save">> \in Seq(StageNames) /\ <<>> \in Seq(StageNames)
    BY EmptySeq DEF StageNames
  <2>2. s \in Seq(StageNames)
    BY <2>1
  <2>3. \A i \in 1 .. Len(s) : s[i] \in {"finish", "save"}
    BY <1>1
  <2> QED  BY <2>2, <2>3 DEF Chained, Reaches, Deciders
<1>2. Pipeline \in Seq(StageNames) /\ Chained(Pipeline)
  BY DEF Pipeline, StageNames, Chained
<1>3. ASSUME NEW g, "active" \in g PROVE ~Reaches(Pipeline, g)
  <2> SUFFICES ASSUME NEW i \in 1 .. Len(Pipeline), Pipeline[i] \in Deciders
               PROVE  \E j \in 1 .. (i - 1) : Pipeline[j] \in g
    BY DEF Reaches
  <2>1. i = 6 /\ Pipeline[3] = "active"
    BY DEF Pipeline, Deciders
  <2> QED  BY <1>3, <2>1
<1> QED  BY <1>1, <1>2, <1>3 DEF Gates, Counts

\* A cancellation, and the loss of a leaf.
LEMMA TurnsCancel ==
    ASSUME NEW p, NEW user, NEW revoked, NEW off, NEW rest \in Seq(StageNames), Chained(rest),
           Cancel(p, user, revoked, off, rest)
    PROVE  Turns(stack', rest)
<1>1. CASE p.run = NoRun
  BY <1>1 DEF Cancel, Goto, Turns
<1>2. CASE p.run # NoRun
  <2>1. stack' = (IF revoked THEN <<>> ELSE ReleaseOf(p.run)) \o <<"cancelled">> \o rest
    BY <1>2 DEF Cancel, Goto
  <2>2. "cancelled" \in Aside
    BY DEF Aside, StageNames, Deciders, Counts, Gates
  <2>3. Turns(<<"cancelled">> \o rest, rest) /\ Turns(ReleaseOf(p.run) \o <<"cancelled">> \o rest, rest)
    BY <2>2, TurnsMore, TurnsTwo
  <2>4. <<>> \o <<"cancelled">> \o rest = <<"cancelled">> \o rest
    OBVIOUS
  <2> QED  BY <2>1, <2>3, <2>4
<1> QED  BY <1>1, <1>2

\* The loss of a leaf turns nothing either.
LEMMA TurnsLeaf ==
    ASSUME NEW l, NEW rest \in Seq(StageNames), Chained(rest), ReleaseLeaf(l, rest)
    PROVE  Turns(stack', rest)
<1>1. "acquire" \in Aside /\ "updated" \in Aside
  BY DEF Aside, StageNames, Deciders, Counts, Gates
<1>2. Turns(<<"acquire", "updated">> \o rest, rest) /\ Turns(rest, rest)
  BY <1>1, TurnsTwo DEF Turns
<1> QED  BY <1>2, TurnsCancel DEF ReleaseLeaf, NoCancel, Goto

\* Stages that do not come to a decision.
Away(s) == s \in Seq(StageNames) /\ Chained(s) /\ ~Reaches(s, Gates) /\ ~Reaches(s, Counts)

\* They stay so behind one or two such stages.
LEMMA AwayMore ==
    ASSUME NEW s, Away(s), NEW a \in Aside, NEW b \in Aside, NEW r
    PROVE  /\ Away(<<a>> \o s) /\ Away(<<a, b>> \o s) /\ Away(ReleaseOf(r) \o <<b>> \o s)
<1>1. Turns(<<a>> \o s, s) /\ Turns(<<a, b>> \o s, s) /\ Turns(ReleaseOf(r) \o <<b>> \o s, s)
  BY TurnsMore, TurnsTwo DEF Away
<1> QED  BY <1>1 DEF Away, Turns

\* So are the stages of a reconciliation and the last ones.
LEMMA AwayFirst ==
    \A s \in {<<"reconcile">>, <<"finish">>, <<"save">>, <<>>, Pipeline} : Away(s)
<1>1. <<"reconcile">> \in Seq(StageNames)
  BY DEF StageNames
<1>2. Away(<<"reconcile">>)
  BY <1>1 DEF Away, Chained, Reaches, Deciders
<1> QED  BY <1>2, TurnsEnd DEF Away

-----------------------------------------------------------------------------
(***************************************************************************)
(* The invariant.  Handlers are quick: the clock does not move on while    *)
(* one is at work.                                                         *)
(***************************************************************************)
Prompt == stack # <<>> => job.now = clock

Brightened == \E t \in Queued : t.kind = "poke" /\ t.user
Bright == Brightened \/ \A l \in run.targets : lights[l] <= run.floor

\* The lights settle after a command, and the next one is not yet due.
Window == settle # NoTime /\ clock < settle
Rests == /\ Window /\ run.next # NoTime /\ clock < run.next
         /\ run.cmdAt # NoTime \/ (revokeBy # NoTime /\ run.exp # NoTime)

\* PBL will not act for the run again.
Dead == \/ run.lease \in retired
        \/ pbl.status # "none" /\ pbl.lease = run.lease /\ ~Holds(run)

Lasting(r) == Live(r, clock) # {}
Going == Active /\ Special \cap (Quits \cup {"completed"}) = {}
Committed == Reaches(stack, Gates)
Counted == Reaches(stack, Counts)

\* A run that goes on in two forms: what it is to be seen as, and its lease.
SameLook(q, r) == /\ q.targets = r.targets /\ q.floor = r.floor
                  /\ q.cmdAt = r.cmdAt /\ q.next = r.next
SameCommand(q, r) == q.lease = r.lease /\ q.gen = r.gen /\ q.exp = r.exp /\ q.cmdAt = r.cmdAt

Observed == Going => Rests \/ IF Committed THEN Bright ELSE ~Window
Restores == "merged" \in Special => /\ SameLook(job.prev, run)
                                    /\ Counted => Lasting(job.prev)
PeerKnown == /\ pbl.status \in {"none", "active"}
             /\ Active /\ run.exp # NoTime /\ pbl.status # "none" /\ pbl.lease = run.lease
                  => pbl.gen = run.gen
SettleKnown == settle # NoTime => /\ settle <= clock + 1
                                  /\ Active /\ run.cmdAt # NoTime => settle = run.cmdAt + 1

DimInv == /\ Observed /\ Restores /\ PeerKnown /\ SettleKnown
          /\ Going /\ Counted => Lasting(run)
          /\ Active /\ run.exp # NoTime /\ revokeBy # NoTime => Dead
          /\ Chained(stack)

\* The same of the next state.
LEMMA ReachesNext == (Committed' <=> Reaches(stack', Gates)) /\ (Counted' <=> Reaches(stack', Counts))
                     /\ (Chained(stack)' <=> Chained(stack'))
BY DEF Committed, Counted, Reaches, Chained

(***************************************************************************)
(* What the steps do to it.                                                *)
(***************************************************************************)
\* The run, if there is one, is the one that it was.
Stays == /\ clock' = clock /\ settle' \in {settle, NoTime}
         /\ UNCHANGED <<pbl, retired>> \/ (Retire /\ pbl.status # "none")
         /\ Active' => Active /\ SameCommand(run', run) /\ revokeBy' \in {revokeBy, NoTime}
         /\ Chained(stack')

\* It goes on, and nothing has become brighter unseen.
Onward == /\ Going /\ run'.next = run.next /\ settle' = settle /\ revokeBy' = revokeBy
          /\ Committed' <=> Committed
          /\ Committed' =>
               Brightened' \/ (/\ ~Brightened
                               /\ run'.targets \subseteq run.targets
                               /\ run'.floor >= run.floor
                               /\ \A l \in Leaf : lights'[l] <= lights[l])
          /\ Counted' => Lasting(run)'

\* What is known of PBL and of the lights is kept with the run.
LEMMA DimStays ==
    ASSUME Outer, DimInv, Stays
    PROVE  /\ PeerKnown' /\ SettleKnown' /\ Chained(stack)'
           /\ Active' /\ run'.exp # NoTime /\ revokeBy' # NoTime => Dead'
<1>1. \/ pbl' = pbl /\ retired' = retired
      \/ pbl' = NoLease /\ retired' = retired \cup {pbl.lease} /\ pbl.status # "none"
  BY DEF Stays, Retire
<1>2. PeerKnown'
  BY <1>1 DEF Stays, DimInv, PeerKnown, NoLease, SameCommand, Active, run
<1>3. SettleKnown'
  BY DEF Stays, DimInv, SettleKnown, SameCommand, Active, run
<1>4. ASSUME Active', run'.exp # NoTime, revokeBy' # NoTime PROVE Dead'
  <2>1. Active /\ run'.lease = run.lease /\ Dead
    BY <1>4 DEF Stays, SameCommand, DimInv, run, Active
  <2>2. CASE pbl' = pbl /\ retired' = retired
    BY <2>1, <2>2 DEF Stays, Dead, Holds, run
  <2>3. CASE pbl' = NoLease /\ retired' = retired \cup {pbl.lease}
    BY <2>1, <2>3 DEF Dead, run
  <2> QED  BY <1>1, <2>2, <2>3
<1> QED  BY <1>2, <1>3, <1>4, ReachesNext DEF Stays

\* A run that goes on stays observed.
LEMMA DimKept ==
    ASSUME Inner, Outer, Inner', Outer', DimInv, Stays, Going' => Onward,
           "merged" \in Special' => /\ "merged" \in Special /\ job'.prev = job.prev
                                    /\ SameLook(run', run) /\ (Counted' => Counted)
    PROVE  DimInv'
<1>1. /\ PeerKnown' /\ SettleKnown' /\ Chained(stack)'
      /\ Active' /\ run'.exp # NoTime /\ revokeBy' # NoTime => Dead'
  BY DimStays
<1>2. Restores'
  BY DEF DimInv, Restores, SameLook, Lasting, Live, Completed, Stays, run
<1>3. Going' /\ Counted' => Lasting(run)'
  BY DEF Onward
<1>4. Observed'
  <2> SUFFICES ASSUME Going' PROVE Rests' \/ IF Committed' THEN Bright' ELSE ~Window'
    BY DEF Observed
  <2>0. Onward
    OBVIOUS
  <2>1. run' \in Run /\ run \in Run /\ SameCommand(run', run) /\ Window' = Window
    <3>1. Active' /\ Active
      BY <2>0 DEF Going, Onward
    <3>2. run' \in Run
      BY <3>1 DEF Active, Inner, Profile, run
    <3> QED  BY <2>0, <3>1, <3>2, ActiveRun DEF Stays, Window, Onward
  <2>2. Rests => Rests'
    BY <2>0, <2>1 DEF Rests, SameCommand, Onward, Stays, run
  <2>3. Committed' /\ Bright => Bright'
    <3> SUFFICES ASSUME Committed', Bright, ~Brightened' PROVE Bright'
      BY DEF Bright
    <3>1. \A l \in run'.targets : l \in Leaf /\ l \in run.targets
      BY <2>0, <2>1 DEF Onward, Run
    <3>2. \A l \in run.targets : lights[l] <= run.floor
      BY <2>0 DEF Onward, Bright
    <3>3. /\ run'.floor \in Int /\ run.floor \in Int
          /\ \A l \in Leaf : lights[l] \in Int /\ lights'[l] \in Int
      BY <2>1 DEF Run, Outer
    <3>4. \A l \in run'.targets : lights'[l] <= run'.floor
      BY <2>0, <3>1, <3>2, <3>3 DEF Onward
    <3> QED  BY <3>4 DEF Bright, run
  <2> QED  BY <2>0, <2>1, <2>2, <2>3 DEF DimInv, Observed, Onward
<1> QED  BY <1>1, <1>2, <1>3, <1>4 DEF DimInv

\* A run that ends or is given up.
LEMMA DimEnds ==
    ASSUME Inner, Outer, Inner', Outer', DimInv, clock' = clock, settle' \in {settle, NoTime},
           UNCHANGED <<pbl, retired>> \/ (Retire /\ pbl.status # "none"),
           Chained(stack'), "merged" \notin Special',
           \/ ~Active'
           \/ /\ Active /\ SameCommand(run', run) /\ revokeBy' \in {revokeBy, NoTime}
              /\ Special' \cap (Quits \cup {"completed"}) # {}
    PROVE  DimInv'
<1>1. Stays /\ ~Going'
  BY DEF Stays, Going
<1> QED  BY <1>1, DimKept

\* A cancellation.
LEMMA DimCancel ==
    ASSUME Inner, Outer, Inner', Outer', DimInv, clock' = clock, settle' \in {settle, NoTime},
           UNCHANGED <<pbl, retired>>,
           NEW p \in Profile, p.run = NoRun \/ (Active /\ SameCommand(p.run, run)),
           NEW user \in BOOLEAN, NEW revoked \in BOOLEAN, NEW off \in BOOLEAN,
           NEW rest \in Seq(Plain), Chained(rest), Cancel(p, user, revoked, off, rest)
    PROVE  DimInv'
<1>1. /\ clock \in Nat /\ rest \in Seq(StageNames)
  BY SeqDef DEF Outer, Plain
<1>2. Chained(stack')
  BY <1>1, TurnsCancel DEF Turns
<1>3. /\ st'.run = p.run /\ revokeBy' = NoTime
      /\ p.run = NoRun => Special' = {}
      /\ p.run # NoRun => "cancelled" \in Special' /\ Special' \subseteq {"release", "cancelled"}
  BY <1>1, CancelDoes
<1>4. CASE p.run = NoRun
  BY <1>2, <1>3, <1>4, DimEnds DEF Active, run
<1>5. CASE p.run # NoRun
  BY <1>2, <1>3, <1>5, DimEnds DEF run, Quits
<1> QED  BY <1>4, <1>5

\* A run that goes on as it is, or loses targets.
Undisturbed == UNCHANGED <<clock, settle, lights, pbl, retired, queue>>
Like(q, r) == /\ SameCommand(q, r) /\ q.next = r.next /\ q.occs = r.occs /\ q.hold = r.hold
              /\ q.targets \subseteq r.targets /\ q.floor >= r.floor

\* A run is like itself.
LEMMA LikeSelf == ASSUME NEW r \in Run PROVE Like(r, r)
BY DEF Like, SameCommand, Run

\* Such a step keeps the invariant.
LEMMA DimGoes ==
    ASSUME Inner, Outer, Inner', Outer', DimInv, Undisturbed, Chained(stack'),
           "merged" \notin Special', Going' => Going,
           Active' => Active /\ Like(run', run) /\ revokeBy' = revokeBy /\ Turns(stack', stack)
    PROVE  DimInv'
<1>1. Stays
  BY DEF Stays, Undisturbed, Like
<1>2. ASSUME Going' PROVE Onward
  <2>1. Active' /\ Going /\ Like(run', run) /\ Turns(stack', stack) /\ revokeBy' = revokeBy
    BY <1>2 DEF Going
  <2>2. (Committed' <=> Committed) /\ (Counted' => Counted)
    BY <2>1, ReachesNext DEF Turns, Committed, Counted
  <2>3. Counted' => Lasting(run)'
    BY <2>1, <2>2 DEF DimInv, Lasting, Live, Completed, Like, Undisturbed, run
  <2>4. Brightened' <=> Brightened
    BY DEF Brightened, Queued, Undisturbed
  <2>5. \A l \in Leaf : lights'[l] <= lights[l]
    BY DEF Undisturbed, Outer
  <2> QED  BY <2>1, <2>2, <2>3, <2>4, <2>5 DEF Onward, Like, Undisturbed
<1> QED  BY <1>1, <1>2, DimKept

\* The loss of a leaf.
LEMMA LeavesLook ==
    ASSUME NEW r \in Run, NEW gone, ReleaseLeaves(r, gone) \in Run
    PROVE  /\ Like(ReleaseLeaves(r, gone), r) /\ ReleaseLeaves(r, gone).floor = r.floor
<1>1. CASE gone \cap r.targets = {}
  BY <1>1, LikeSelf DEF ReleaseLeaves
<1>2. CASE gone \cap r.targets # {}
  <2>1. ReleaseLeaves(r, gone) = [r EXCEPT !.targets  = r.targets \ gone,
                                           !.owned    = r.owned \ gone,
                                           !.released = r.released \cup (gone \cap r.targets)]
    BY <1>2, NoRunAssumption DEF ReleaseLeaves
  <2> QED  BY <2>1 DEF Run, Like, SameCommand
<1> QED  BY <1>1, <1>2

\* The coordinator releases the leaf.
LEMMA DimLeaf ==
    ASSUME Inner, Outer, Inner', Outer', DimInv, Undisturbed,
           Special \cap (Quits \cup {"completed"}) = {},
           NEW l, NEW rest \in Seq(Plain), Turns(rest, stack), ReleaseLeaf(l, rest)
    PROVE  DimInv'
<1>1. Turns(stack', stack) /\ Chained(rest) /\ Chained(stack')
  BY TurnsLeaf DEF Turns
<1>2. CASE st' = st /\ revokeBy' = revokeBy /\ Special' = {}
  BY <1>1, <1>2, DimGoes, ActiveRun, LikeSelf DEF Active, run, Going
<1>3. CASE \E revoked \in BOOLEAN : Active /\ Cancel(st, TRUE, revoked, FALSE, rest)
  <2>1. st \in Profile /\ SameCommand(st.run, run)
    BY DEF Inner, SameCommand, run
  <2> QED  BY <1>1, <1>3, <2>1, DimCancel DEF Undisturbed
<1>4. CASE /\ Active /\ run \in Run /\ ReleaseLeaves(run, {l}) \in Run
           /\ st' = [st EXCEPT !.run = ReleaseLeaves(run, {l})]
           /\ revokeBy' = revokeBy /\ Special' = {"acquire"}
  <2>1. run' = ReleaseLeaves(run, {l})
    BY <1>4 DEF Inner, Profile, run
  <2>2. Like(run', run)
    BY <1>4, <2>1, LeavesLook
  <2> QED  BY <1>1, <1>4, <2>2, DimGoes DEF Going
<1> QED  BY <1>2, <1>3, <1>4, ReleaseLeafDoes

-----------------------------------------------------------------------------
(***************************************************************************)
(* The stages.                                                             *)
(***************************************************************************)
\* A stage that keeps the run and hands on to rest.
LEMMA DimHandsOn ==
    ASSUME Inner, Outer, Inner', Outer', DimInv, Undisturbed,
           Special \cap (Quits \cup {"completed"}) = {} \/ ~Active,
           NEW p, p.run = run, NEW rest \in Seq(Plain), NoCancel(p, rest),
           Turns(rest, stack) \/ (~Active /\ Chained(rest))
    PROVE  DimInv'
<1>1. stack' = rest /\ run' = run /\ revokeBy' = revokeBy /\ Special' = {}
  BY NoCancelDoes DEF NoCancel, Goto, run
<1>2. Active' => Active /\ run \in Run /\ Like(run', run)
  BY <1>1, ActiveRun, LikeSelf DEF Active, run
<1> QED  BY <1>1, <1>2, DimGoes DEF Turns, Going, Active

\* Stages that keep the run or drop it.
LEMMA DimPlain ==
    ASSUME Inner, Outer, Inner', Outer', StageFacts, DimInv,
           \/ Reconcile \/ Drain \/ (Pending /\ ~(Active /\ run.pending)) \/ CompletedRun \/ Started
           \/ Dispatch \/ Finish \/ Cancelled \/ Updated \/ Failed \/ Abandoned \/ Ended \/ Fence
    PROVE  DimInv'
<1>0. /\ st \in Profile /\ job.now \in Int /\ Chained(stack)
      /\ clock' = clock /\ lights' = lights /\ pbl' = pbl /\ retired' = retired /\ queue' = queue
      /\ ~Pending \/ ~(Active /\ run.pending)
  <2>1. Quiet \/ (Pending /\ ~(Active /\ run.pending))
    BY DEF Reconcile, Drain, CompletedRun, Started, Dispatch, Finish, Cancelled, Updated,
       Failed, Abandoned, Ended, Fence
  <2>2. Pending => Quiet
    BY DEF Pending
  <2>3. ~Pending \/ ~(Active /\ run.pending)
    BY DEF Pending, Reconcile, Drain, CompletedRun, Started, Dispatch, Finish, Cancelled, Updated,
       Failed, Abandoned, Ended, Fence, At
  <2> QED  BY <2>1, <2>2, <2>3 DEF Quiet, world, peer, Inner, Jobs, DimInv
<1>1. ASSUME NEW a, At(a), a \in Plain \ {"acquire", "release", "safeOff"}
      PROVE  Special = {} /\ Rest \in Seq(Plain) /\ stack \in Seq(Plain)
  BY <1>1, SpecialAt, AtPlain, AtAllPlain
<1>2. ASSUME Away(stack'), NEW a \in Plain \cap Gates, At(a), UNCHANGED settle,
             UNCHANGED revokeBy, run' = run, Special' = {}
      PROVE  DimInv'
  <2>1. Special = {} /\ ~Reaches(stack, Gates) /\ ~Reaches(stack, Counts)
    <3>1. a \notin {"acquire", "release", "safeOff"}
      BY <1>2 DEF Gates
    <3> QED  BY <1>0, <1>1, <1>2, <3>1, TurnsRest
  <2>2. Turns(stack', stack)
    BY <1>2, <2>1 DEF Away, Turns
  <2>3. Active' => Active /\ Like(run', run)
    BY <1>2, ActiveRun, LikeSelf DEF Active, run
  <2> QED  BY <1>0, <1>2, <2>1, <2>2, <2>3, DimGoes DEF Turns, Going, Active, Undisturbed
<1>3. CASE Reconcile
  <2>1. run' = run /\ stack' = Pipeline /\ Special' = {}
    BY <1>0, <1>3, RefreshedGrows, PipelinePlain, SpecialPlain DEF Reconcile, Goto, run
  <2>2. At("reconcile") /\ "reconcile" \in Plain \cap Gates /\ UNCHANGED settle /\ UNCHANGED revokeBy
    BY <1>3 DEF Reconcile, Plain, StageNames, NeedRun, NeedPrev, FirstOnly, Gates
  <2> QED  BY <1>2, <2>1, <2>2, AwayFirst
<1>4. CASE Finish
  <2>1. run' = run /\ stack' \in {<<>>, <<"save">>}
    BY <1>0, <1>4, RefreshedGrows DEF Finish, Goto, run
  <2>2. Special' = {}
    <3>1. <<>> \in Seq(Plain) /\ <<"save">> \in Seq(Plain)
      BY EmptySeq DEF Plain, StageNames, NeedRun, NeedPrev, FirstOnly
    <3> QED  BY <2>1, <3>1, SpecialPlain
  <2>3. At("finish") /\ "finish" \in Plain \cap Gates /\ UNCHANGED settle /\ UNCHANGED revokeBy
    BY <1>4 DEF Finish, Plain, StageNames, NeedRun, NeedPrev, FirstOnly, Gates
  <2> QED  BY <1>2, <2>1, <2>2, <2>3, AwayFirst
<1>5. CASE Drain \/ Pending \/ Updated
  <2>1. PICK a \in {"drain", "pending", "updated"} : At(a)
    BY <1>5 DEF Drain, Pending, Updated
  <2>2. /\ Special = {} /\ Rest \in Seq(Plain) /\ stack \in Seq(Plain)
        /\ Turns(Rest, stack) /\ Chained(Rest)
    <3>1. a \in Plain /\ a \in Aside /\ a \notin {"acquire", "release", "safeOff"}
      BY DEF Plain, StageNames, NeedRun, NeedPrev, FirstOnly, Aside, Deciders, Counts, Gates
    <3> QED  BY <1>0, <1>1, <2>1, <3>1, TurnsRest
  <2>3. Undisturbed
    BY <1>0, <1>5 DEF Undisturbed, Drain, Pending, Updated
  <2>4. CASE NoCancel(st, Rest)
    BY <2>2, <2>3, <2>4, DimHandsOn DEF run
  <2>5. Turns(stack, stack)
    BY <1>0, <2>2 DEF Turns, Inner, Fits
  <2>6. CASE NoCancel(st, stack)
    BY <2>2, <2>3, <2>5, <2>6, DimHandsOn DEF run
  <2>7. CASE \E l \in Leaf : ReleaseLeaf(l, stack)
    BY <2>2, <2>3, <2>5, <2>7, DimLeaf
  <2>8. CASE Cancel(st, FALSE, FALSE, FALSE, Rest)
    <3>1. st.run = NoRun \/ (Active /\ SameCommand(st.run, run))
      BY DEF Active, SameCommand, run
    <3> QED  BY <1>0, <2>2, <2>3, <2>8, <3>1, DimCancel DEF Undisturbed
  <2> QED  BY <1>0, <1>5, <2>4, <2>6, <2>7, <2>8 DEF Drain, Pending, Updated
<1>6. CASE Dispatch
  <2>1. /\ Special = {} /\ Rest \in Seq(Plain) /\ Chained(Rest)
        /\ Reaches(stack, Gates) /\ Reaches(stack, Counts)
    <3>1. At("dispatch") /\ "dispatch" \in Plain /\ "dispatch" \in Deciders
      BY <1>6 DEF Dispatch, Plain, StageNames, NeedRun, NeedPrev, FirstOnly, Deciders
    <3> QED  BY <1>0, <1>1, <3>1, TurnsRest
  <2>2. Undisturbed
    BY <1>0, <1>6 DEF Undisturbed, Dispatch
  <2>3. CASE ~Active
    BY <1>6, <2>1, <2>2, <2>3, DimHandsOn DEF Dispatch, run
  <2>4. CASE Active
    <3> DEFINE s == <<"decide">> \o Rest
               t == <<"drain">> \o s
    <3>1. s \in Seq(Plain) /\ t \in Seq(Plain)
      BY <2>1, PlainMore DEF Plain, StageNames, NeedRun, NeedPrev, FirstOnly
    <3>2. Rest \in Seq(StageNames) /\ s \in Seq(StageNames)
      BY <2>1, <3>1, SeqDef DEF Plain
    <3>3. s # <<>> /\ Head(s) = "decide" /\ Tail(s) = Rest
      BY <3>2, InFront DEF StageNames
    <3> HIDE DEF s
    <3>4. Chained(s) /\ Reaches(s, Gates) /\ Reaches(s, Counts)
      BY <2>1, <3>2, <3>3, ChainedFirst, ReachesFirst DEF Deciders
    <3>5. Turns(t, s)
      BY <3>2, <3>4, TurnsMore DEF Aside, StageNames, Deciders, Counts, Gates
    <3>6. t = <<"drain", "decide">> \o Rest
      BY <3>2, TwoInFront DEF StageNames, s
    <3>7. Turns(t, stack)
      BY <2>1, <3>4, <3>5 DEF Turns
    <3>8. NoCancel(st, t)
      BY <1>6, <2>4, <3>6 DEF Dispatch
    <3> QED  BY <2>1, <2>2, <3>1, <3>7, <3>8, DimHandsOn DEF run
  <2> QED  BY <2>3, <2>4
<1>7. CASE CompletedRun \/ Cancelled \/ Failed \/ Abandoned \/ Started \/ Ended \/ Fence
  <2>1. PICK a \in {"completed", "cancelled", "failed", "abandoned", "started", "ended", "fence"} :
            At(a)
    BY <1>7 DEF CompletedRun, Cancelled, Failed, Abandoned, Started, Ended, Fence
  <2>2. /\ a \notin {"acquire", "release", "safeOff"} /\ a \in Aside
        /\ Special = {a} /\ Rest \in Seq(Plain)
    <3>1. /\ a \notin {"acquire", "release", "safeOff"} /\ a \in Aside /\ a \notin Plain
      BY DEF Plain, NeedRun, NeedPrev, Aside, StageNames, Deciders, Counts, Gates
    <3> QED  BY <2>1, <3>1, SpecialAt, AtPlain
  <2>3. Turns(Rest, stack) /\ Rest \in Seq(StageNames) /\ Chained(Rest)
    BY <1>0, <2>1, <2>2, TurnsRest
  <2>4. CASE Started /\ job.ok
    <3>1. Special = {"started"}
      <4>1. At("started") /\ "started" \notin Plain
        BY <2>4 DEF Started, Plain, NeedRun
      <4> QED  BY <4>1, SpecialAt
    <3>2. Undisturbed /\ NoCancel(st, Rest)
      BY <1>0, <2>4 DEF Undisturbed, Started
    <3> QED  BY <2>2, <2>3, <3>1, <3>2, DimHandsOn DEF run, Quits
  <2>5. CASE ~(Started /\ job.ok)
    <3>1. run' = NoRun /\ settle' \in {settle, NoTime}
      <4>1. CASE Ended
        <5>1. ~Active
          BY <2>1, <2>2, <4>1 DEF StageFacts, Ended, At
        <5> QED  BY <4>1, <5>1 DEF Ended, Active, run
      <4>2. CASE ~Ended
        BY <1>0, <1>7, <2>5, <4>2 DEF CompletedRun, Cancelled, Failed, Abandoned, Started, Fence,
           NoCancel, RememberUserCancellation, Profile, run
      <4> QED  BY <4>1, <4>2
    <3>2. Turns(<<"safeOff">> \o Rest, Rest)
      BY <2>3, TurnsMore DEF Aside, StageNames, Deciders, Counts, Gates
    <3>3. Chained(stack') /\ "merged" \notin Special'
      <4>1. CASE Ended
        <5>1. "fence" \in Aside /\ "safeOff" \in Aside
          BY DEF Aside, StageNames, Deciders, Counts, Gates
        <5>2. Turns(<<"fence">> \o Rest, Rest) /\ Turns(<<"safeOff", "fence">> \o Rest, Rest)
          BY <2>3, <5>1, TurnsMore, TurnsTwo
        <5>3. <<>> \o <<"fence">> \o Rest = <<"fence">> \o Rest
              /\ <<"safeOff">> \o <<"fence">> \o Rest = <<"safeOff", "fence">> \o Rest
          BY <2>3, Joined
        <5>4. stack' \in {<<"fence">> \o Rest, <<"safeOff", "fence">> \o Rest}
          BY <4>1, <5>3 DEF Ended, Goto
        <5>5. Special' \subseteq {"fence", "safeOff"}
          <6>1. "fence" \in StageNames /\ "safeOff" \in StageNames
            BY DEF StageNames
          <6>2. CASE stack' = <<"fence">> \o Rest
            BY <2>2, <6>1, <6>2, SpecialOne
          <6>3. CASE stack' = <<"safeOff", "fence">> \o Rest
            BY <2>2, <6>1, <6>3, SpecialCall
          <6> QED  BY <5>4, <6>2, <6>3
        <5> QED  BY <5>2, <5>4, <5>5 DEF Turns
      <4>2. CASE ~Ended
        <5>1. stack' \in {Rest, <<"safeOff">> \o Rest}
          BY <1>7, <4>2 DEF CompletedRun, Cancelled, Failed, Abandoned, Started, Fence, Goto, NoCancel
        <5>2. Special' \subseteq {"safeOff"}
          BY <2>2, <5>1, SpecialOne, SpecialPlain DEF StageNames
        <5> QED  BY <2>3, <3>2, <5>1, <5>2 DEF Turns
      <4> QED  BY <4>1, <4>2
    <3> QED  BY <1>0, <3>1, <3>3, DimEnds DEF Active, run
  <2> QED  BY <2>4, <2>5
<1> QED  BY <1>3, <1>4, <1>5, <1>6, <1>7


-----------------------------------------------------------------------------
(***************************************************************************)
(* What the operators of the engine give the observation.                  *)
(***************************************************************************)
\* The observed brightness is that of the brightest light.
LEMMA FloorSees ==
    ASSUME lights \in [Leaf -> 0 .. Full], NEW X \in SUBSET Leaf, NEW l \in X
    PROVE  lights[l] <= TargetFloor(X) /\ TargetFloor(X) \in 1 .. Full
<1>1. X \in SUBSET Leaf /\ IsFiniteSet(X)
  BY OccAssumption, FS_Subset
<1> DEFINE f == [x \in X |-> lights[x]]
           T == {f[x] : x \in X}
<1>2. IsFiniteSet(T)
  BY <1>1, TimesFinite
<1>3. lights[l] \in T /\ \A u \in T : u \in Int
  BY <1>1
<1>4. TargetFloor(X) = Latest({1} \cup T)
  <2>1. T = {lights[x] : x \in X}
    OBVIOUS
  <2> HIDE DEF T
  <2> QED  BY <2>1 DEF TargetFloor
<1> HIDE DEF T
<1> DEFINE S == {1} \cup T
<1>5. IsFiniteSet(S)
  <2>1. IsFiniteSet(T \cup {1}) /\ S = T \cup {1}
    BY <1>2, FS_AddElement
  <2> QED  BY <2>1
<1>6. S \subseteq Int /\ S # {} /\ lights[l] \in S
  BY <1>3
<1> HIDE DEF S
<1>7. \A u \in S : u <= Latest(S)
  BY <1>5, <1>6, LatestIn
<1> QED  BY <1>4, <1>6, <1>7, TargetFloorType DEF S

\* A run that is watched outside the settle window has seen its targets.
LEMMA WatchedLook ==
    ASSUME lights \in [Leaf -> 0 .. Full], NEW r \in Run, NEW now, now = clock
    PROVE  LET q == Watched(r, now)
           IN  /\ q.floor \in Int /\ q.floor >= r.floor
               /\ Window => q = r
               /\ ~Window => \A l \in r.targets : lights[l] <= q.floor
<1>1. CASE settle # NoTime /\ now < settle
  BY <1>1 DEF Watched, Run, Window
<1>2. CASE ~(settle # NoTime /\ now < settle)
  <2> DEFINE t == TargetFloor(r.targets)
  <2>1. t \in 1 .. Full /\ \A l \in r.targets : lights[l] <= t
    BY FloorSees DEF Run
  <2>2. Watched(r, now) = [r EXCEPT !.floor = Later(r.floor, Later(1, t))]
    BY <1>2 DEF Watched, ObserveFloor, Run
  <2> HIDE DEF t
  <2>3. Watched(r, now).floor = Later(r.floor, Later(1, t))
    BY <2>2 DEF Run
  <2>4. /\ Later(r.floor, Later(1, t)) \in Int /\ Later(r.floor, Later(1, t)) >= r.floor
        /\ Later(r.floor, Later(1, t)) >= t
    BY <2>1 DEF Run, Later
  <2>5. \A l \in r.targets : lights[l] \in Int
    BY DEF Run
  <2>6. ~Window
    BY <1>2 DEF Window
  <2> HIDE DEF Later
  <2>7. \A l \in r.targets : lights[l] <= Watched(r, now).floor
    BY <2>1, <2>3, <2>4, <2>5
  <2> QED  BY <2>3, <2>4, <2>6, <2>7
<1> QED  BY <1>1, <1>2

\* After a command the next one is due later.
LEMMA NextLater ==
    ASSUME NEW r \in Run, NEW now \in Nat, Live(r, now) # {}, r.cmdAt = now
    PROVE  NextDeadline(r, now) \in Int /\ NextDeadline(r, now) > now
<1> DEFINE L == Live(r, now)
           f == [o \in L |-> StepDeadline(r, o, now)]
           T == {f[o] : o \in L}
<1>1. L \in SUBSET Occ /\ IsFiniteSet(L) /\ L # {}
  BY LiveFinite
<1>2. \A o \in L : StepDeadline(r, o, now) \in Int /\ StepDeadline(r, o, now) > now
  <2> SUFFICES ASSUME NEW o \in L
               PROVE  StepDeadline(r, o, now) \in Int /\ StepDeadline(r, o, now) > now
    OBVIOUS
  <2>1. o \in Occ /\ r.hold[o] \in Nat /\ ~(now >= r.hold[o]) /\ WakeAt[o] \in Nat /\ Step \in Nat \ {0}
    BY <1>1, TimeAssumption DEF Live, Completed, Run
  <2>2. r.cmdAt # NoTime
    BY DEF NoTime
  <2> QED  BY <2>1, <2>2 DEF StepDeadline, Sooner, Later
<1> HIDE DEF L
<1>3. IsFiniteSet(T) /\ T \subseteq Int /\ T # {} /\ \A u \in T : u > now
  BY <1>1, <1>2, TimesFinite
<1>4. NextDeadline(r, now) = Earliest(T)
  <2>1. T = {StepDeadline(r, o, now) : o \in L}
    OBVIOUS
  <2> HIDE DEF T
  <2> QED  BY <2>1, <1>1 DEF NextDeadline, L
<1> HIDE DEF T
<1>5. Earliest(T) \in T
  BY <1>3, EarliestIn
<1> QED  BY <1>3, <1>4, <1>5

\* A command is not below what was observed or commanded.
LEMMA LevelAbove ==
    ASSUME NEW r \in Run, NEW now \in Int
    PROVE  DesiredLevel(r, now) >= r.floor
<1> DEFINE L == Live(r, now)
           f == [o \in L |-> RampLevel(o, now)]
           T == {f[o] : o \in L}
           S == {1, r.floor, r.last} \cup T
<1>1. L \in SUBSET Occ /\ IsFiniteSet(L)
  BY LiveFinite
<1> HIDE DEF L
<1>2. IsFiniteSet(T)
  BY <1>1, TimesFinite
<1>3. T \subseteq 1 .. Full
  BY <1>1, RampLevelType
<1>4. DesiredLevel(r, now) = Latest(S)
  <2>1. T = {RampLevel(o, now) : o \in L}
    OBVIOUS
  <2> HIDE DEF T
  <2> QED  BY <2>1 DEF DesiredLevel, L
<1> HIDE DEF T
<1>5. IsFiniteSet(S)
  <2>1. IsFiniteSet(((T \cup {1}) \cup {r.floor}) \cup {r.last})
    BY <1>2, FS_AddElement
  <2>2. S = ((T \cup {1}) \cup {r.floor}) \cup {r.last}
    OBVIOUS
  <2> HIDE DEF S
  <2> QED  BY <2>1, <2>2
<1>6. S \subseteq Int /\ S # {} /\ r.floor \in S
  <2>1. r.floor \in Int /\ r.last \in Int /\ \A u \in T : u \in Int
    BY <1>3 DEF Run
  <2> HIDE DEF T
  <2>2. \A u \in S : u \in Int
    BY <2>1
  <2> QED  BY <2>2
<1> HIDE DEF S
<1>7. \A u \in S : u <= Latest(S)
  BY <1>5, <1>6, LatestIn
<1>8. Latest(S) \in Int
  BY <1>5, <1>6, LatestIn
<1> QED  BY <1>4, <1>6, <1>7, <1>8

-----------------------------------------------------------------------------
(***************************************************************************)
(* Joining, completing, starting and deciding.                             *)
(***************************************************************************)
\* A run that has just been watched.
LEMMA DimSeen ==
    ASSUME Inner, Outer, Inner', Outer', DimInv, Undisturbed, Chained(stack'), revokeBy' = revokeBy,
           Going, ~Committed, SameCommand(run', run), run'.next = run.next,
           ~Window => \A l \in run'.targets : lights[l] <= run'.floor,
           ~Counted', Restores'
    PROVE  DimInv'
<1>1. Stays
  BY DEF Stays, Undisturbed, Going
<1>2. /\ PeerKnown' /\ SettleKnown' /\ Chained(stack)'
      /\ Active' /\ run'.exp # NoTime /\ revokeBy' # NoTime => Dead'
  BY <1>1, DimStays
<1>3. Window' = Window
  BY DEF Window, Undisturbed
<1>4. Window => Rests'
  <2> SUFFICES ASSUME Window PROVE Rests'
    OBVIOUS
  <2>1. Rests
    BY DEF DimInv, Observed
  <2> QED  BY <1>3, <2>1 DEF Rests, SameCommand, Undisturbed, run
<1>5. ~Window => Bright' /\ ~Window'
  BY <1>3 DEF Bright, Undisturbed, run
<1>6. Observed'
  BY <1>4, <1>5 DEF Observed
<1> QED  BY <1>2, <1>6 DEF DimInv

\* Alarms that are due join the run (_reconcile_locked).
LEMMA DimJoin ==
    ASSUME Inner, Outer, Inner', Outer', StageFacts, DimInv, Prompt, JoinDue PROVE DimInv'
<1>0. /\ st \in Profile /\ clock \in Nat /\ job \in Jobs /\ st.run = run /\ Chained(stack)
      /\ lights \in [Leaf -> 0 .. Full]
  BY DEF Inner, Outer, DimInv, run
<1>1. Rest \in Seq(Plain) /\ Special = {} /\ Undisturbed /\ At("active") /\ job.now = clock
  <2>1. At("active") /\ "active" \in PlainNames
    BY DEF JoinDue, PlainNames
  <2> QED  BY <2>1, PlainUnhurried DEF JoinDue, Undisturbed, Quiet, world, peer, Prompt, At
<1>2. /\ Chained(Rest) /\ ~Committed /\ ~Reaches(Rest, Counts) /\ Rest \in Seq(StageNames)
  <2>1. /\ Chained(Rest) /\ ~Committed /\ Rest \in Seq(StageNames)
        /\ Rest # <<>> /\ Head(Rest) = "complete"
    BY <1>0, <1>1, TurnsRest DEF Gates, Committed
  <2> QED  BY <2>1, ReachesFirst DEF Counts, Deciders
<1>3. CASE ~Active
  BY <1>0, <1>1, <1>2, <1>3, DimHandsOn DEF JoinDue, run
<1>4. CASE Active
  <2> DEFINE r == Watched(run, job.now)
             due == (Due \ r.occs) \cap ConnectedEpisode(r, Due, job.now).ids
             over == OverBudget(r, due)
             c == [st EXCEPT !.run = r]
             p == [st EXCEPT !.run = r, !.terminal = @ \cup over]
             m == MergeOccurrences(r, due \ over, job.now)
             s == [p EXCEPT !.run = m]
             on == vacation = "on"
  <2>1. run \in Run
    BY <1>4, ActiveRun
  <2>2. /\ r \in Run /\ SameCommand(r, run) /\ r.next = run.next /\ r.targets = run.targets
        /\ ~Window => \A l \in r.targets : lights[l] <= r.floor
    BY <1>0, <1>1, <2>1, WatchedKeeps, WatchedLook DEF SameCommand
  <2>3. /\ SameLook(r, m) /\ SameCommand(m, r)
    <3> HIDE DEF r, due, over
    <3> QED  BY <2>2 DEF MergeOccurrences, Run, SameLook, SameCommand
  <2>4. /\ p.run = r /\ s.run = m /\ c \in Profile /\ c.run = r
    <3> HIDE DEF r, over, m
    <3> QED  BY <1>0, <2>2 DEF Profile
  <2>5. \/ Cancel(c, FALSE, FALSE, on, Rest)
        \/ NoCancel(p, Rest)
        \/ /\ st' = s /\ job' = [job EXCEPT !.prev = r] /\ revokeBy' = revokeBy
           /\ stack' = <<"acquire", "merged">> \o Rest
    BY <1>4 DEF JoinDue, Goto
  <2>6. on \in BOOLEAN
    OBVIOUS
  <2> HIDE DEF r, due, over, c, p, m, s, on
  <2>7. Going
    BY <1>1, <1>4 DEF Going
  <2>8. CASE Cancel(c, FALSE, FALSE, on, Rest)
    BY <1>1, <1>2, <1>4, <2>2, <2>4, <2>6, <2>8, DimCancel DEF Undisturbed, JoinDue
  <2>9. CASE NoCancel(p, Rest)
    <3>1. stack' = Rest /\ run' = r /\ revokeBy' = revokeBy /\ Special' = {}
      BY <1>1, <2>4, <2>9, NoCancelDoes DEF NoCancel, Goto, run
    <3>2. ~Counted' /\ Restores'
      BY <1>2, <3>1, ReachesNext DEF Restores
    <3> QED  BY <1>1, <1>2, <2>2, <2>7, <3>1, <3>2, DimSeen
  <2>10. CASE /\ st' = s /\ job' = [job EXCEPT !.prev = r] /\ revokeBy' = revokeBy
              /\ stack' = <<"acquire", "merged">> \o Rest
    <3>1. run' = m /\ job'.prev = r
      BY <1>0, <2>4, <2>10 DEF Jobs, run
    <3>2. Turns(stack', Rest)
      BY <1>2, <2>10, TurnsTwo DEF Aside, StageNames, Deciders, Counts, Gates
    <3>3. Chained(stack') /\ ~Counted'
      BY <1>2, <3>2, ReachesNext DEF Turns
    <3>4. Restores'
      BY <2>3, <3>1, <3>3 DEF Restores, run
    <3>5. SameCommand(run', run) /\ run'.next = run.next /\ run'.floor = r.floor /\ run'.targets = r.targets
      BY <2>2, <2>3, <3>1 DEF SameCommand, SameLook
    <3> QED  BY <1>1, <1>2, <2>2, <2>7, <2>10, <3>3, <3>4, <3>5, DimSeen
  <2> QED  BY <2>5, <2>8, <2>9, <2>10
<1> QED  BY <1>3, <1>4

\* The lease update after the joining is answered.
LEMMA DimMerged ==
    ASSUME Inner, Outer, Inner', Outer', StageFacts, SamePrev, Expires, DimInv, Merged
    PROVE  DimInv'
<1>0. st \in Profile /\ job \in Jobs /\ st.run = run /\ Chained(stack) /\ "merged" \notin Plain
  BY DEF Inner, DimInv, run, Plain, NeedRun
<1>1. /\ Rest \in Seq(Plain) /\ run \in Run /\ Active /\ At("merged") /\ Special = {"merged"}
      /\ stack' = Rest
  <2>1. At("merged") /\ stack' = Rest
    BY DEF Merged, Goto
  <2> QED  BY <1>0, <2>1, AtPlain, AtNeeds, SpecialAt, NoRunAssumption DEF NeedRun, Active
<1>2. Special' = {}
  BY <1>1, SpecialPlain
<1>3. Undisturbed /\ revokeBy' = revokeBy
  BY DEF Merged, Undisturbed, Quiet, world, peer
<1>4. Turns(stack', stack) /\ Chained(stack')
  BY <1>0, <1>1, TurnsRest DEF Turns, Aside, StageNames, Deciders, Counts, Gates
<1>5. Going
  BY <1>1 DEF Going, Quits
<1>6. CASE job.ok
  <2>1. run' = run
    BY <1>6 DEF Merged, run
  <2> QED  BY <1>1, <1>2, <1>3, <1>4, <1>5, <2>1, LikeSelf, DimGoes
<1>7. CASE ~job.ok
  <2>1. run' = job.prev
    BY <1>0, <1>7 DEF Merged, Profile, run
  <2>2. SameLook(run', run) /\ SameCommand(run', run) /\ (Counted => Lasting(job.prev))
    BY <1>1, <1>7, <2>1 DEF DimInv, Restores, SameLook, SameCommand, SamePrev, Expires
  <2>3. Stays
    BY <1>1, <1>3, <1>4, <2>2 DEF Stays, Undisturbed
  <2>4. (Committed' <=> Committed) /\ (Counted' => Counted)
    BY <1>4, ReachesNext DEF Turns, Committed, Counted
  <2>5. Counted' => Lasting(run)'
    BY <1>3, <2>1, <2>2, <2>4 DEF Lasting, Live, Completed, Undisturbed, run
  <2>6. (Brightened' <=> Brightened) /\ \A l \in Leaf : lights'[l] <= lights[l]
    BY <1>3 DEF Brightened, Queued, Undisturbed, Outer
  <2>7. Onward
    BY <1>1, <1>3, <1>5, <2>2, <2>4, <2>5, <2>6 DEF Onward, SameLook, Undisturbed, Run
  <2> QED  BY <1>2, <2>3, <2>7, DimKept
<1> QED  BY <1>6, <1>7

\* Occurrences whose hold is over leave the run.
LEMMA DimComplete ==
    ASSUME Inner, Outer, Inner', Outer', StageFacts, DimInv, Prompt, Complete PROVE DimInv'
<1>0. /\ st \in Profile /\ job \in Jobs /\ st.run = run /\ Chained(stack)
  BY DEF Inner, DimInv, run
<1>1. Rest \in Seq(Plain) /\ Special = {} /\ Undisturbed /\ At("complete") /\ job.now = clock
  <2>1. At("complete") /\ "complete" \in PlainNames
    BY DEF Complete, PlainNames
  <2> QED  BY <2>1, PlainUnhurried DEF Complete, Undisturbed, Quiet, world, peer, Prompt, At
<1>2. /\ Chained(Rest) /\ Rest \in Seq(StageNames)
      /\ Reaches(Rest, Gates) <=> Committed
  BY <1>0, <1>1, TurnsRest DEF Gates, Deciders, Committed
<1> DEFINE done == IF Active THEN Completed(run, job.now) ELSE {}
           p == [st EXCEPT !.alarms = @ \ done,
                           !.terminal = @ \cup done,
                           !.missed = @ \cup (done \ run.final)]
<1>3. CASE ~Active
  <2>1. NoCancel(st, Rest)
    BY <1>3 DEF Complete
  <2> QED  BY <1>0, <1>1, <1>2, <1>3, <2>1, DimHandsOn DEF run
<1>4. CASE Active /\ done = {}
  <2>1. NoCancel(st, Rest)
    BY <1>4 DEF Complete
  <2>2. run' = run /\ stack' = Rest /\ revokeBy' = revokeBy /\ Special' = {}
    BY <1>1, <2>1, NoCancelDoes DEF NoCancel, Goto, run
  <2>3. run \in Run /\ Lasting(run)
    <3>1. run \in Run /\ Completed(run, clock) = {}
      BY <1>1, <1>4, ActiveRun
    <3> QED  BY <3>1 DEF Lasting, Live, Run
  <2>4. Lasting(run)'
    BY <1>1, <2>2, <2>3 DEF Lasting, Live, Completed, Undisturbed, run
  <2>5. Going /\ (Committed' <=> Committed)
    BY <1>1, <1>2, <1>4, <2>2, ReachesNext DEF Going
  <2>6. (Brightened' <=> Brightened) /\ \A l \in Leaf : lights'[l] <= lights[l]
    BY <1>1 DEF Brightened, Queued, Undisturbed, Outer
  <2>7. Stays /\ Onward
    BY <1>1, <1>2, <1>4, <2>2, <2>3, <2>4, <2>5, <2>6
       DEF Stays, Onward, SameCommand, Undisturbed, Run
  <2> QED  BY <2>2, <2>7, DimKept
<1>5. CASE done # {}
  <2>1. run \in Run /\ Active
    BY <1>5, ActiveRun
  <2>2. /\ job' = [job EXCEPT !.prev = run] /\ revokeBy' = revokeBy
        /\ \/ /\ run.occs = done /\ st' = p
              /\ stack' = ReleaseOf(run) \o <<"completed">> \o Rest
           \/ /\ run.occs # done /\ st' = [p EXCEPT !.run = Without(run, done)]
              /\ stack' = <<"acquire", "merged">> \o Rest
    BY <1>5 DEF Complete, Goto
  <2>3. done = Completed(run, clock) /\ done \subseteq run.occs
    BY <1>1, <2>1 DEF Completed
  <2> HIDE DEF done
  <2>4. p.run = run /\ \A r : [p EXCEPT !.run = r].run = r
    BY <1>0 DEF Profile, run
  <2>5. job'.prev = run
    BY <1>0, <2>2 DEF Jobs
  <2> HIDE DEF p
  <2>6. "completed" \in Aside /\ "acquire" \in Aside /\ "merged" \in Aside
    BY DEF Aside, StageNames, Deciders, Counts, Gates
  <2>7. CASE /\ run.occs = done /\ st' = p
             /\ stack' = ReleaseOf(run) \o <<"completed">> \o Rest
    <3>1. "completed" \in StageNames \ Plain
      BY DEF StageNames, Plain, NeedRun
    <3>2. Special' = {"completed"} \cup (IF run.gen = 0 THEN {} ELSE {"release"})
      BY <1>1, <2>7, <3>1, SpecialRelease
    <3>3. "completed" \in Special' /\ "merged" \notin Special'
      BY <3>2
    <3>4. Chained(stack')
      BY <1>2, <2>6, <2>7, TurnsTwo DEF Turns
    <3>5. run' = run
      BY <2>4, <2>7 DEF run
    <3> QED  BY <1>1, <2>1, <2>2, <3>3, <3>4, <3>5, DimEnds DEF SameCommand, Undisturbed
  <2>8. CASE /\ run.occs # done /\ st' = [p EXCEPT !.run = Without(run, done)]
             /\ stack' = <<"acquire", "merged">> \o Rest
    <3> DEFINE q == Without(run, done)
    <3>1. Special' = {"acquire", "merged"}
      BY <1>1, <2>8, CallSpecial
    <3>2. run' = q
      BY <2>4, <2>8 DEF run
    <3>3. /\ q \in Run /\ SameCommand(q, run) /\ SameLook(run, q) /\ q.hold = run.hold
          /\ q.occs = run.occs \ done
      <4>1. ~(run.occs \subseteq done)
        BY <2>3, <2>8
      <4> QED  BY <2>1, <4>1 DEF Without, Run, SameCommand, SameLook
    <3>4. Live(run, clock) # {} /\ Live(q, clock) = Live(run, clock)
      <4>1. Live(run, clock) = run.occs \ done
        BY <2>3 DEF Live
      <4>2. Completed(q, clock) = {}
        BY <2>3, <3>3 DEF Completed
      <4> QED  BY <2>3, <2>8, <3>3, <4>1, <4>2 DEF Live
    <3> HIDE DEF q
    <3>5. Lasting(q) /\ Lasting(run) /\ clock' = clock
      BY <1>1, <3>4 DEF Lasting, Undisturbed
    <3>6. Lasting(run)' /\ Lasting(job.prev)'
      BY <2>5, <3>2, <3>5 DEF Lasting, Live, Completed, run
    <3>7. Restores'
      BY <2>5, <3>2, <3>3, <3>6 DEF Restores, run
    <3>8. Turns(stack', Rest)
      BY <1>2, <2>6, <2>8, TurnsTwo
    <3>9. (Committed' <=> Committed) /\ Chained(stack')
      BY <1>2, <3>8, ReachesNext DEF Turns
    <3>10. Stays
      BY <1>1, <2>1, <2>2, <3>2, <3>3, <3>9 DEF Stays, Undisturbed
    <3>11. /\ PeerKnown' /\ SettleKnown' /\ Chained(stack)'
           /\ Active' /\ run'.exp # NoTime /\ revokeBy' # NoTime => Dead'
      BY <3>10, DimStays
    <3>12. Going /\ (Observed => Observed')
      <4>1. Going
        BY <1>1, <2>1 DEF Going
      <4>2. (Window' <=> Window) /\ (Brightened' <=> Brightened) /\ lights' = lights
        BY <1>1 DEF Window, Brightened, Queued, Undisturbed
      <4>3. Rests => Rests'
        BY <1>1, <2>2, <3>2, <3>3, <4>2 DEF Rests, SameCommand, SameLook, Undisturbed, run
      <4>4. Bright => Bright'
        BY <3>2, <3>3, <4>2 DEF Bright, SameLook, run
      <4> QED  BY <3>9, <4>1, <4>2, <4>3, <4>4 DEF Observed
    <3> QED  BY <3>6, <3>7, <3>11, <3>12 DEF DimInv
  <2> QED  BY <2>2, <2>7, <2>8
<1> QED  BY <1>3, <1>4, <1>5

\* A run starts (_start_occurrences_locked).
LEMMA DimBegin ==
    ASSUME Inner, Outer, Inner', Outer', StageFacts, DimInv, Prompt, Begin PROVE DimInv'
<1>0. st \in Profile /\ clock \in Nat /\ Chained(stack) /\ lights \in [Leaf -> 0 .. Full] /\ st.run = run
  BY DEF Inner, Outer, DimInv, run
<1>1. Rest \in Seq(Plain) /\ Special = {} /\ Undisturbed /\ At("begin") /\ job.now = clock
  <2>1. At("begin") /\ "begin" \in PlainNames
    BY DEF Begin, PlainNames
  <2> QED  BY <2>1, PlainUnhurried DEF Begin, Undisturbed, Quiet, world, peer, Prompt, At
<1>2. /\ Chained(Rest) /\ Rest \in Seq(StageNames) /\ Turns(Rest, stack)
      /\ Reaches(Rest, Gates) /\ Reaches(Rest, Counts)
  <2>1. /\ Chained(Rest) /\ Rest \in Seq(StageNames) /\ Turns(Rest, stack)
        /\ Rest # <<>> /\ Head(Rest) = "dispatch"
    BY <1>0, <1>1, TurnsRest
  <2> QED  BY <2>1, ReachesFirst DEF Deciders
<1>3. CASE NoCancel(st, Rest)
  BY <1>0, <1>1, <1>2, <1>3, DimHandsOn
<1>4. CASE /\ ~Active /\ Due # {}
           /\ NoCancel([st EXCEPT !.run = StartRun(Due, job.now, TargetFloor(Leaf))],
                       <<"acquire", "started">> \o Rest)
  <2> DEFINE q == StartRun(Due, job.now, TargetFloor(Leaf))
  <2>1. Due \in SUBSET Occ /\ Due # {}
    BY <1>4 DEF Due, Inner
  <2>2. /\ q.exp = NoTime /\ q.cmdAt = NoTime /\ q.floor = TargetFloor(Leaf) /\ q.targets = Leaf
        /\ q.occs = Due /\ \A o \in Due : q.hold[o] = ScheduledHold(o, clock)
    BY <1>1, <2>1 DEF StartRun
  <2>3. run' = q /\ stack' = <<"acquire", "started">> \o Rest /\ revokeBy' = revokeBy
    BY <1>0, <1>4 DEF NoCancel, Goto, Profile, run
  <2> HIDE DEF q
  <2>4. Special' = {"acquire", "started"}
    BY <1>1, <2>3, CallSpecial
  <2>5. Committed' /\ Counted' /\ Chained(stack')
    <3> DEFINE s == <<"started">> \o Rest
               t == <<"acquire">> \o s
    <3>1. /\ {"acquire", "started"} \subseteq Aside /\ {"acquire", "started"} \subseteq StageNames
          /\ {"acquire", "started"} \cap Counts = {} /\ {"acquire", "started"} \cap Gates = {}
      BY DEF Aside, StageNames, Deciders, Counts, Gates
    <3>2. Turns(stack', Rest) /\ t = stack'
      BY <1>2, <2>3, <3>1, TurnsTwo, TwoInFront
    <3>3. /\ s \in Seq(StageNames) /\ s # <<>> /\ Head(s) = "started" /\ Tail(s) = Rest
          /\ t # <<>> /\ Head(t) = "acquire" /\ Tail(t) = s /\ t \in Seq(StageNames)
      BY <1>2, <3>1, InFront
    <3> HIDE DEF s, t
    <3>4. Reaches(t, Gates) /\ Reaches(t, Counts)
      BY <1>2, <3>1, <3>3, ReachesFirst
    <3> QED  BY <3>2, <3>4, ReachesNext DEF Turns
  <2>6. Bright'
    <3>1. \A l \in Leaf : lights[l] <= q.floor
      BY <1>0, <2>2, FloorSees
    <3> QED  BY <1>1, <2>2, <2>3, <3>1 DEF Bright, Undisturbed, run
  <2>7. Lasting(run)'
    <3>1. PICK o \in Due : TRUE
      BY <2>1
    <3>2. o \in Occ /\ ScheduledHold(o, clock) > clock
      <4>1. o \in Occ /\ WakeAt[o] \in Nat /\ HoldFor[o] \in Nat /\ HoldFor[o] > 0
        BY <2>1, TimeAssumption, HoldAssumption
      <4> QED  BY <1>0, <4>1 DEF ScheduledHold, Later
    <3>3. ScheduledHold(o, clock) \in Nat
      BY <1>0, <3>2, HoldType
    <3>4. ~(clock >= q.hold[o])
      BY <1>0, <2>2, <3>2, <3>3
    <3>5. o \in Live(q, clock)
      BY <2>2, <3>4 DEF Live, Completed
    <3> QED  BY <1>1, <2>3, <3>5 DEF Lasting, Live, Completed, Undisturbed, run
  <2>8. PeerKnown' /\ SettleKnown'
    BY <1>1, <2>2, <2>3 DEF DimInv, PeerKnown, SettleKnown, Undisturbed, run
  <2> QED  BY <2>2, <2>3, <2>4, <2>5, <2>6, <2>7, <2>8, ReachesNext
            DEF DimInv, Observed, Restores, run
<1> QED  BY <1>3, <1>4 DEF Begin

\* A decision.
LEMMA DimDecide ==
    ASSUME Inner, Outer, Inner', Outer', StageFacts, Expires, LeaseInv, DimInv, Prompt, Decide
    PROVE  DimInv'
<1>0. st \in Profile /\ clock \in Nat /\ Chained(stack) /\ job \in Jobs /\ st.run = run /\ settle \in Int
  BY DEF Inner, Outer, DimInv, run
<1>1. /\ Rest \in Seq(Plain) /\ stack \in Seq(Plain) /\ Special = {} /\ Undisturbed
      /\ At("decide") /\ job.now = clock
  <2>1. At("decide") /\ "decide" \in PlainNames
    BY DEF Decide, PlainNames
  <2> QED  BY <2>1, PlainUnhurried DEF Decide, Undisturbed, Quiet, world, peer, Prompt, At
<1>2. /\ Chained(Rest) /\ Rest \in Seq(StageNames) /\ Reaches(stack, Gates) /\ Reaches(stack, Counts)
  BY <1>0, <1>1, TurnsRest DEF Deciders
<1>3. CASE ~Active
  <2>1. NoCancel(st, Rest)
    BY <1>3 DEF Decide
  <2> QED  BY <1>0, <1>1, <1>2, <1>3, <2>1, DimHandsOn
<1>4. CASE Active
  <2>1. run \in Run /\ run.gen # 0 /\ run.targets # {} /\ Going
    <3>1. Active => run.exp # NoTime
      BY <1>1, ExpiryKnown
    <3> QED  BY <1>1, <1>4, <3>1, ActiveRun DEF LeaseInv, Secured, Going, Run
  <2>2. Lasting(run) /\ (Rests \/ Bright)
    BY <1>2, <2>1 DEF DimInv, Observed, Committed, Counted
  <2>3. CASE ~ShouldDispatch
    <3> DEFINE n == IF revokeBy # NoTime /\ run.next # NoTime THEN run.next
                    ELSE NextDeadline(run, job.now)
               q == [run EXCEPT !.next = n]
               p == [st EXCEPT !.run = q]
    <3>1. NoCancel(p, Rest)
      BY <1>0, <1>4, <2>1, <2>3 DEF Decide, run, Profile, Run
    <3>2. n \in Int
      BY <1>0, <2>1, NextDeadlineType DEF Run, Jobs
    <3>3. Window => /\ n # NoTime /\ clock < n
                    /\ run.cmdAt # NoTime \/ (revokeBy # NoTime /\ run.exp # NoTime)
      <4> SUFFICES ASSUME Window
                   PROVE  /\ n # NoTime /\ clock < n
                          /\ run.cmdAt # NoTime \/ (revokeBy # NoTime /\ run.exp # NoTime)
        OBVIOUS
      <4>1. CASE revokeBy # NoTime /\ run.next # NoTime
        <5>1. run.next \in Int /\ ~(clock >= run.next)
          BY <1>0, <1>1, <2>1, <2>3, <4>1 DEF ShouldDispatch, Run
        <5>2. run.exp # NoTime
          BY <1>1, <1>4, ExpiryKnown
        <5> QED  BY <1>0, <4>1, <5>1, <5>2
      <4>2. CASE ~(revokeBy # NoTime /\ run.next # NoTime)
        <5>1. run.cmdAt # NoTime /\ settle = run.cmdAt + 1 /\ settle <= clock + 1 /\ clock < settle
          BY <1>4, <2>3, <4>2 DEF ShouldDispatch, Window, DimInv, SettleKnown
        <5>2. run.cmdAt = clock
          BY <1>0, <2>1, <5>1 DEF Run
        <5>3. NextDeadline(run, clock) > clock /\ NextDeadline(run, clock) \in Int
          BY <1>0, <2>1, <2>2, <5>2, NextLater DEF Lasting
        <5> QED  BY <1>0, <1>1, <4>2, <5>1, <5>3 DEF NoTime
      <4> QED  BY <4>1, <4>2
    <3> HIDE DEF n
    <3>4. /\ SameCommand(q, run) /\ q.next = n /\ q.targets = run.targets /\ q.floor = run.floor
          /\ q.occs = run.occs /\ q.hold = run.hold
      BY <2>1, <3>2 DEF Run, SameCommand
    <3> HIDE DEF q
    <3>5. p.run = q
      BY <1>0 DEF Profile
    <3>6. stack' = Rest /\ run' = q /\ revokeBy' = revokeBy /\ Special' = {}
      BY <1>1, <3>1, <3>5, NoCancelDoes DEF NoCancel, Goto, run
    <3>7. Stays
      BY <1>1, <1>2, <1>4, <3>4, <3>6 DEF Stays, Undisturbed
    <3>8. /\ PeerKnown' /\ SettleKnown' /\ Chained(stack)'
          /\ Active' /\ run'.exp # NoTime /\ revokeBy' # NoTime => Dead'
      BY <3>7, DimStays
    <3>9. (Window' <=> Window) /\ (Brightened' <=> Brightened) /\ lights' = lights
      BY <1>1 DEF Window, Brightened, Queued, Undisturbed
    <3>10. Window => Rests'
      BY <1>1, <3>3, <3>4, <3>6, <3>9 DEF Rests, SameCommand, Undisturbed, run
    <3>11. ~Window => Bright' /\ ~Window'
      BY <2>2, <3>4, <3>6, <3>9 DEF Rests, Bright, run
    <3>12. Lasting(run)'
      BY <1>1, <2>2, <3>4, <3>6 DEF Lasting, Live, Completed, Undisturbed, run
    <3>13. Observed' /\ Restores'
      BY <3>6, <3>10, <3>11 DEF Observed, Restores
    <3> QED  BY <3>8, <3>12, <3>13 DEF DimInv
  <2>4. CASE ShouldDispatch
    <3>1. /\ st' = st /\ revokeBy' = revokeBy /\ stack' = <<"send">> \o Rest
      BY <1>4, <2>1, <2>4 DEF Decide, Goto
    <3>2. Special' \subseteq {"send"}
      BY <1>1, <3>1, SpecialOne DEF StageNames
    <3>3. /\ stack' \in Seq(StageNames) /\ stack' # <<>> /\ Head(stack') = "send" /\ Tail(stack') = Rest
      BY <1>2, <3>1, InFront DEF StageNames
    <3>4. Reaches(stack', Gates) /\ Reaches(stack', Counts) /\ Chained(stack')
      BY <1>2, <3>3, ReachesFirst, ChainedFirst DEF Deciders
    <3>5. Turns(stack', stack)
      BY <1>2, <3>3, <3>4 DEF Turns
    <3>6. Like(run', run)
      BY <2>1, <3>1, LikeSelf DEF run
    <3> QED  BY <1>1, <1>4, <2>1, <3>1, <3>2, <3>4, <3>5, <3>6, DimGoes
  <2> QED  BY <2>3, <2>4
<1> QED  BY <1>3, <1>4

\* Every stage.
LEMMA DimStages ==
    ASSUME Inner, Outer, Inner', Outer', SamePrev, StageFacts, Expires, RetryInv, LeaseInv, DimInv,
           Prompt, Stages, ~Unloaded
    PROVE  DimInv'
<1>0. /\ st \in Profile /\ (Active => ~run.pending) /\ ("recover" \in Special => ~Active)
      /\ Chained(stack)
  BY DEF Inner, LeaseInv, Secured, DimInv
<1>1. CASE Reacquired \/ Recovered
  <2>1. PICK a \in {"reacquired", "recovered"} : At(a)
    BY <1>1 DEF Reacquired, Recovered
  <2>2. a \in Special /\ run \in Run
    <3>1. a \notin Plain /\ a \in NeedRun
      BY <2>1 DEF Plain, NeedRun
    <3> QED  BY <2>1, <3>1, SpecialAt, AtNeeds
  <2>3. run.pending /\ Active
    BY <2>1, <2>2, NoRunAssumption DEF RetryInv, Resuming, Recovering, Active
  <2> QED  BY <1>0, <2>3
<1>2. CASE RecoverNothing \/ RecoverRootOff \/ RecoverNoTargets \/ RecoverRun
  <2>1. At("recover") /\ "recover" \in Special
    <3>1. At("recover") /\ "recover" \notin Plain
      BY <1>2 DEF RecoverNothing, RecoverRootOff, RecoverNoTargets, RecoverRun, Plain, FirstOnly
    <3> QED  BY <3>1, SpecialAt
  <2>2. ~Active /\ NoCancel(st, Rest) /\ Undisturbed
    BY <1>0, <1>2, <2>1 DEF RecoverNothing, RecoverRootOff, RecoverNoTargets, RecoverRun,
       Undisturbed, Quiet, world, peer
  <2>3. Rest \in Seq(Plain) /\ Chained(Rest)
    BY <1>0, <2>1, AtPlain, TurnsRest
  <2> QED  BY <2>2, <2>3, DimHandsOn DEF run
<1> QED  BY <1>0, <1>1, <1>2, DimPlain, DimJoin, DimMerged, DimComplete, DimBegin, DimDecide DEF Stages

-----------------------------------------------------------------------------
(***************************************************************************)
(* The answers.                                                            *)
(***************************************************************************)
\* PBL grants the lease of the run or an update of it.
LEMMA DimGranted ==
    ASSUME Inner, Outer, Inner', Outer', Expires, DimInv, Granted PROVE DimInv'
<1>0. /\ st \in Profile /\ job \in Jobs /\ run \in Run /\ Active /\ At("acquire") /\ Chained(stack)
  <2>1. At("acquire") /\ "acquire" \in NeedRun
    BY DEF Granted, NeedRun
  <2> QED  BY <2>1, AtNeeds, NoRunAssumption DEF Inner, DimInv, Active
<1>1. /\ clock' = clock /\ settle' = settle /\ lights' = lights /\ queue' = queue
      /\ retired' = retired /\ stack' = Rest /\ revokeBy' = NoTime
      /\ job'.prev = job.prev
  BY <1>0 DEF Granted, Goto, world, Jobs
<1>2. PICK gen, exp :
        /\ pbl' = [status |-> "active", lease |-> run.lease, gen |-> gen,
                   exp |-> exp, grace |-> NoTime, occs |-> run.occs, targets |-> run.targets]
        /\ st' = [st EXCEPT !.run = MarkAcquired(run, gen, exp)]
  BY DEF Granted
<1>3. run' = [run EXCEPT !.gen = gen, !.exp = exp]
  BY <1>0, <1>2 DEF MarkAcquired, Profile, run
<1>4. /\ run'.lease = run.lease /\ run'.gen = gen /\ SameLook(run', run) /\ SameLook(run, run')
      /\ run'.occs = run.occs /\ run'.hold = run.hold
  BY <1>0, <1>3 DEF Run, SameLook
<1>5. /\ pbl'.status = "active" /\ pbl'.gen = gen
  BY <1>2
<1>6. Turns(stack', stack)
  BY <1>0, <1>1, TurnsRest DEF Aside, StageNames, Deciders, Counts, Gates
<1>7. (Committed' <=> Committed) /\ (Counted' => Counted) /\ Chained(stack)'
  BY <1>6, ReachesNext DEF Turns, Committed, Counted
<1>8. Special' \subseteq Special /\ Special \subseteq Special' \cup {"acquire"}
  <2>1. "acquire" \notin Plain
    BY DEF Plain, NeedRun
  <2> QED  BY <1>0, <1>1, <2>1, SpecialRest
<1>9. PeerKnown' /\ SettleKnown'
  BY <1>0, <1>1, <1>4, <1>5 DEF DimInv, PeerKnown, SettleKnown, SameLook
<1>10. Restores'
  BY <1>1, <1>4, <1>7, <1>8 DEF DimInv, Restores, SameLook, Lasting, Live, Completed, run
<1>11. Going' => Going
  BY <1>0, <1>8 DEF Going, Quits
<1>12. Lasting(run) => Lasting(run)'
  BY <1>1, <1>4 DEF Lasting, Live, Completed, run
<1>13. Going' => Rests' \/ IF Committed' THEN Bright' ELSE ~Window'
  <2> SUFFICES ASSUME Going' PROVE Rests' \/ IF Committed' THEN Bright' ELSE ~Window'
    OBVIOUS
  <2>1. Rests \/ IF Committed THEN Bright ELSE ~Window
    BY <1>11 DEF DimInv, Observed
  <2>2. (Window' <=> Window) /\ (Brightened' <=> Brightened)
    BY <1>1 DEF Window, Brightened, Queued
  <2>3. Bright => Bright'
    BY <1>1, <1>4, <2>2 DEF Bright, SameLook, run
  <2>4. Rests => Rests'
    <3> SUFFICES ASSUME Rests PROVE Rests'
      OBVIOUS
    <3>1. CASE run.cmdAt # NoTime
      BY <1>1, <1>4, <2>2, <3>1 DEF Rests, SameLook, run
    <3>2. CASE revokeBy # NoTime /\ run.exp # NoTime
      <4>1. Dead
        BY <1>0, <3>2 DEF DimInv
      <4> QED  BY <4>1 DEF Dead, Granted
    <3> QED  BY <3>1, <3>2 DEF Rests
  <2> QED  BY <1>7, <2>1, <2>2, <2>3, <2>4
<1> QED  BY <1>1, <1>7, <1>9, <1>10, <1>11, <1>12, <1>13 DEF DimInv, Observed

\* PBL refuses it, or the run is released.
LEMMA DimRefused ==
    ASSUME Inner, Outer, Inner', Outer', StageFacts, ReleaseLast, DimInv,
           Refused \/ Released \/ NotReleased \/ SafeOff \/ NotSafeOff
    PROVE  DimInv'
<1>0. st \in Profile /\ job \in Jobs /\ Chained(stack)
  BY DEF Inner, DimInv
<1>1. /\ clock' = clock /\ settle' = settle /\ stack' = Rest /\ revokeBy' = revokeBy /\ st' = st
      /\ job'.prev = job.prev
  BY <1>0 DEF Refused, Released, NotReleased, SafeOff, NotSafeOff, Goto, world, Jobs
<1>2. PICK a \in {"acquire", "release", "safeOff"} :
        At(a) /\ (a = "acquire" => Refused) /\ (a = "release" => Released \/ NotReleased)
  BY DEF Refused, Released, NotReleased, SafeOff, NotSafeOff, At
<1>3. Turns(stack', stack) /\ Chained(stack') /\ a \notin Plain
  <2>1. a \in Aside /\ a \notin Plain
    BY DEF Aside, StageNames, Deciders, Counts, Gates, Plain, NeedRun, NeedPrev
  <2> QED  BY <1>0, <1>1, <1>2, <2>1, TurnsRest DEF Turns
<1>4. (Committed' <=> Committed) /\ (Counted' => Counted)
  BY <1>3, ReachesNext DEF Turns, Committed, Counted
<1>5. /\ Special = {a} \cup Special' /\ \A x \in Special' : <<a, x>> \in Pairs
  BY <1>1, <1>2, <1>3, SpecialRest
<1>6. run' = run /\ (Active' <=> Active)
  BY <1>1 DEF Active, run
<1>7. UNCHANGED <<pbl, retired>> \/ (Retire /\ pbl.status # "none")
  BY DEF Refused, Released, NotReleased, SafeOff, NotSafeOff, LightsBecome, peer
<1>8. Stays
  BY <1>1, <1>3, <1>6, <1>7 DEF Stays, SameCommand
<1>9. CASE a = "acquire"
  <2>1. lights' = lights /\ queue' = queue
    BY <1>2, <1>9 DEF Refused
  <2>2. Going' => Going
    BY <1>5, <1>6, <1>9 DEF Going, Quits
  <2>3. (Brightened' <=> Brightened) /\ \A l \in Leaf : lights'[l] <= lights[l]
    BY <2>1 DEF Brightened, Queued, Outer
  <2>4. Counted' /\ Going' => Lasting(run)'
    BY <1>1, <1>4, <1>6, <2>2 DEF DimInv, Lasting, Live, Completed, run
  <2>5. Going' => Onward
    <3> SUFFICES ASSUME Going' PROVE Onward
      OBVIOUS
    <3>1. run \in Run
      BY <2>2, ActiveRun DEF Going
    <3> QED  BY <1>1, <1>4, <1>6, <2>2, <2>3, <2>4, <3>1 DEF Onward, Run
  <2>6. SameLook(run', run)
    BY <1>6 DEF SameLook
  <2> QED  BY <1>1, <1>4, <1>5, <1>8, <2>5, <2>6, DimKept
<1>10. CASE a = "release"
  <2>1. "merged" \notin Special'
    BY <1>5, <1>10 DEF Pairs
  <2>2. Active' => Special' \cap (Quits \cup {"completed"}) # {}
    BY <1>5, <1>6, <1>10 DEF ReleaseLast, Quits
  <2>3. ~Going'
    BY <2>2 DEF Going
  <2> QED  BY <1>8, <2>1, <2>3, DimKept
<1>11. CASE a = "safeOff"
  <2>1. ~Active' /\ "merged" \notin Special'
    BY <1>5, <1>6, <1>11 DEF Pairs, StageFacts
  <2> QED  BY <1>8, <2>1, DimKept DEF Going
<1> QED  BY <1>9, <1>10, <1>11

\* A command that was executed: the lights settle, and the next one is due later.
LEMMA DimDispatched ==
    ASSUME Inner, Outer, Inner', Outer', DimInv, Prompt, NEW T \in SUBSET Leaf, Dispatched(T)
    PROVE  DimInv'
<1>0. st \in Profile /\ clock \in Nat /\ job \in Jobs /\ st.run = run /\ Chained(stack)
  BY DEF Inner, Outer, DimInv, run
<1>1. /\ Rest \in Seq(Plain) /\ run \in Run /\ Active /\ Special = {"send"} /\ At("send")
      /\ job.now = clock /\ clock' = clock /\ pbl' = pbl /\ retired' = retired
  <2>1. At("send") /\ "send" \notin Plain /\ "send" \in NeedRun
    BY DEF Dispatched, NeedRun, Plain
  <2> QED  BY <2>1, AtPlain, AtNeeds, SpecialAt, NoRunAssumption
            DEF Active, Dispatched, peer, Prompt, At
<1>2. Chained(Rest) /\ Counted
  BY <1>0, <1>1, TurnsRest DEF Deciders, Counted
<1>3. CASE T = {}
  <2>1. Cancel(st, FALSE, FALSE, FALSE, Rest) /\ settle' = settle
    BY <1>3 DEF Dispatched
  <2> QED  BY <1>0, <1>1, <1>2, <2>1, DimCancel DEF SameCommand
<1>4. CASE T # {}
  <2> DEFINE less == ReleaseLeaves(run, run.targets \ T)
             r == MarkDispatched(less, job.now, job.level, T, job.force)
             n == NextDeadline(r, job.now)
             q == [r EXCEPT !.next = n]
  <2>1. job.now \in Int /\ job.level \in 0 .. Full /\ job.force \in BOOLEAN
    BY <1>0 DEF Jobs
  <2>2. less \in Run
    <3>1. ~(run.targets \subseteq run.targets \ T)
      BY <1>4 DEF Dispatched
    <3> QED  BY <1>1, <3>1, ReleaseLeavesType
  <2>3. /\ less.lease = run.lease /\ less.gen = run.gen /\ less.exp = run.exp
        /\ less.occs = run.occs /\ less.hold = run.hold
    BY <1>1, <2>2, ReleaseLeavesSame
  <2>4. /\ st' = [st EXCEPT !.run = q] /\ stack' = Rest /\ settle' = job.now + 1 /\ revokeBy' = NoTime
    BY <1>4 DEF Dispatched, Goto
  <2> HIDE DEF less
  <2>5. /\ r \in Run /\ r.lease = less.lease /\ r.gen = less.gen /\ r.exp = less.exp
        /\ r.occs = less.occs /\ r.hold = less.hold /\ r.cmdAt = clock
    <3>1. r \in Run
      BY <2>1, <2>2, MarkDispatchedType
    <3>2. /\ r.lease = less.lease /\ r.gen = less.gen /\ r.exp = less.exp
          /\ r.occs = less.occs /\ r.hold = less.hold /\ r.cmdAt = job.now
      BY <2>2 DEF MarkDispatched, Run
    <3> QED  BY <1>1, <3>1, <3>2
  <2> HIDE DEF r
  <2>6. run.lease \in Occ /\ Live(r, clock) = Live(run, clock)
    BY <1>1, <2>3, <2>5 DEF Live, Completed, Run
  <2>7. /\ run' = q /\ Special' = {}
    BY <1>0, <1>1, <2>4, SpecialPlain DEF Profile, run
  <2>8. Live(run, clock) # {}
    <3>1. Going
      BY <1>1 DEF Going, Quits
    <3> QED  BY <1>2, <3>1 DEF DimInv, Lasting
  <2>9. n \in Int /\ n > clock
    BY <1>0, <1>1, <2>5, <2>6, <2>8, NextLater
  <2> HIDE DEF n
  <2>10. /\ q.lease = run.lease /\ q.gen = run.gen /\ q.exp = run.exp /\ q.next = n
         /\ q.cmdAt = clock /\ q.occs = run.occs /\ q.hold = run.hold
    BY <2>3, <2>5, <2>9 DEF Run
  <2> HIDE DEF q
  <2>11. Lasting(run)'
    BY <1>1, <2>7, <2>8, <2>10 DEF Lasting, Live, Completed, run
  <2>12. PeerKnown' /\ SettleKnown'
    <3>1. PeerKnown'
      BY <1>1, <2>7, <2>10 DEF DimInv, PeerKnown, run
    <3>2. settle' = clock + 1 /\ run'.cmdAt = clock
      BY <1>1, <2>4, <2>7, <2>10 DEF run
    <3> QED  BY <1>0, <1>1, <3>1, <3>2 DEF SettleKnown, run
  <2>13. Rests'
    <3>1. settle' = clock + 1 /\ run'.cmdAt = clock /\ run'.next = n
      BY <1>1, <2>4, <2>7, <2>10 DEF run
    <3> QED  BY <1>0, <1>1, <2>9, <3>1 DEF Rests, Window, NoTime, run
  <2>14. Chained(stack)'
    BY <1>2, <2>4, ReachesNext
  <2> QED  BY <2>4, <2>7, <2>11, <2>12, <2>13, <2>14 DEF DimInv, Observed, Restores
<1> QED  BY <1>3, <1>4

\* One that PBL has no lease for any more, or that fails.
LEMMA DimNotDispatched ==
    ASSUME Inner, Outer, Inner', Outer', Expires, DimInv, Prompt,
           DispatchFailed \/ NotDispatched(TRUE) \/ NotDispatched(FALSE)
    PROVE  DimInv'
<1>0. /\ st \in Profile /\ clock \in Nat /\ job \in Jobs /\ st.run = run /\ Chained(stack)
      /\ revokeBy \in Int
  BY DEF Inner, Outer, DimInv, run
<1>1. /\ Rest \in Seq(Plain) /\ run \in Run /\ Active /\ Special = {"send"} /\ At("send")
      /\ job.now = clock /\ clock' = clock /\ settle' = settle /\ pbl' = pbl /\ retired' = retired
      /\ queue' = queue
  <2>1. At("send") /\ "send" \notin Plain /\ "send" \in NeedRun
    BY DEF DispatchFailed, NotDispatched, NeedRun, Plain
  <2> QED  BY <2>1, AtPlain, AtNeeds, SpecialAt, NoRunAssumption
            DEF Active, DispatchFailed, NotDispatched, peer, world, Prompt, At
<1>2. Chained(Rest) /\ Counted /\ Committed /\ Going
  BY <1>0, <1>1, TurnsRest DEF Deciders, Counted, Committed, Going, Quits
<1>3. CASE \E b \in BOOLEAN : Cancel(st, FALSE, b, FALSE, Rest)
  BY <1>0, <1>1, <1>2, <1>3, DimCancel DEF SameCommand
<1>4. CASE ~\E b \in BOOLEAN : Cancel(st, FALSE, b, FALSE, Rest)
  <2> DEFINE by == IF revokeBy = NoTime THEN job.now + 2 * Step ELSE revokeBy
             n == Sooner(by, job.now + Step)
  <2>1. /\ job.now < by /\ revokeBy' = by /\ st' = [st EXCEPT !.run.next = n] /\ stack' = Rest
        /\ lights' = lights /\ ~LeaseCurrent
    BY <1>4 DEF DispatchFailed, NotDispatched, Goto, world
  <2>2. by \in Int /\ n \in Int /\ n > clock
    BY <1>0, <1>1, <2>1, TimeAssumption DEF Sooner
  <2> HIDE DEF by, n
  <2>3. run' = [run EXCEPT !.next = n] /\ Special' = {}
    <3>1. st' = [st EXCEPT !.run = [run EXCEPT !.next = n]]
      BY <1>0, <2>1 DEF Profile, run
    <3> QED  BY <1>0, <1>1, <2>1, <3>1, SpecialPlain DEF Profile, run
  <2>4. /\ SameCommand(run', run) /\ run'.next = n /\ run'.targets = run.targets
        /\ run'.floor = run.floor
        /\ run'.occs = run.occs /\ run'.hold = run.hold
    BY <1>1, <2>2, <2>3 DEF Run, SameCommand
  <2>5. run.exp # NoTime /\ Backed(run)
    BY <1>1, ExpiryKnown
  <2>6. Dead'
    <3>1. run.lease \in retired \/ (~Holds(run) /\ pbl.status # "none" /\ pbl.lease = run.lease)
      BY <1>1, <2>1, <2>5 DEF Backed, LeaseCurrent, DimInv, PeerKnown
    <3> QED  BY <1>1, <2>4, <3>1 DEF Dead, Holds, SameCommand, run
  <2>7. Lasting(run)'
    <3>1. Lasting(run)
      BY <1>2 DEF DimInv
    <3> QED  BY <1>1, <2>4, <3>1 DEF Lasting, Live, Completed, run
  <2>8. PeerKnown' /\ SettleKnown'
    BY <1>1, <2>4 DEF DimInv, PeerKnown, SettleKnown, SameCommand, Active, run
  <2>9. Window => Rests'
    <3>1. by # NoTime /\ n # NoTime
      BY <1>0, <1>1, <2>1, <2>2 DEF NoTime
    <3> QED  BY <1>1, <2>1, <2>2, <2>4, <2>5, <3>1 DEF Rests, Window, SameCommand, run
  <2>10. ~Window => Bright' /\ ~Window'
    <3>1. ~Window => Bright
      BY <1>2 DEF DimInv, Observed, Rests
    <3>2. Bright => Bright'
      BY <1>1, <2>1, <2>4 DEF Bright, Brightened, Queued, run
    <3> QED  BY <1>1, <3>1, <3>2 DEF Window
  <2>11. Chained(stack)'
    BY <1>2, <2>1, ReachesNext
  <2> QED  BY <2>3, <2>6, <2>7, <2>8, <2>9, <2>10, <2>11 DEF DimInv, Observed, Restores
<1> QED  BY <1>3, <1>4

\* Every answer.
LEMMA DimAnswers ==
    ASSUME Inner, Outer, Inner', Outer', ReleaseLast, StageFacts, Expires, DimInv, Prompt, Answers
    PROVE  DimInv'
<1>0. st \in Profile /\ Chained(stack)
  BY DEF Inner, DimInv
<1>1. CASE Settling
  <2>1. At("settling") /\ Undisturbed
    BY <1>1 DEF Settling, Undisturbed, Quiet, world, peer
  <2>2. /\ Rest \in Seq(Plain) /\ Turns(Rest, stack) /\ Chained(Rest) /\ Special = {"settling"}
    <3>1. "settling" \in Aside /\ "settling" \notin Plain
      BY DEF Aside, StageNames, Deciders, Counts, Gates, Plain, FirstOnly
    <3> QED  BY <1>0, <2>1, <3>1, AtPlain, SpecialAt, TurnsRest
  <2>3. CASE Active /\ Cancel(st, TRUE, TRUE, FALSE, Rest)
    BY <1>0, <2>1, <2>2, <2>3, DimCancel DEF Undisturbed, SameCommand, run
  <2>4. CASE ReleaseLeaf(job.leaf, Rest)
    BY <2>1, <2>2, <2>4, DimLeaf DEF Quits
  <2> QED  BY <1>1, <2>3, <2>4 DEF Settling
<1>2. CASE Save \/ Persist
  <2>1. PICK a \in {"save", "persist"} : At(a) /\ stack' = (IF a = "save" THEN <<>> ELSE Rest)
    BY <1>2 DEF Save, Persist, Goto
  <2>2. Undisturbed /\ run' = run /\ revokeBy' = revokeBy
    BY <1>2 DEF Save, Persist, Undisturbed, world, peer, run
  <2>3. /\ Special = {} /\ Rest \in Seq(Plain) /\ Turns(stack', stack) /\ Chained(stack')
    <3>1. a \in Plain /\ a \notin {"acquire", "release", "safeOff"}
      BY DEF Plain, StageNames, NeedRun, NeedPrev, FirstOnly
    <3>2. Special = {} /\ Rest \in Seq(Plain)
      BY <2>1, <3>1, SpecialAt, AtPlain
    <3>3. CASE a = "save"
      <4>1. ~Reaches(stack, Gates) /\ ~Reaches(stack, Counts) /\ Away(stack')
        BY <1>0, <2>1, <3>3, TurnsRest, AwayFirst DEF Gates
      <4> QED  BY <3>2, <4>1 DEF Away, Turns
    <3>4. CASE a = "persist"
      <4>1. "persist" \in Aside
        BY DEF Aside, StageNames, Deciders, Counts, Gates
      <4> QED  BY <1>0, <2>1, <3>2, <3>4, <4>1, TurnsRest DEF Turns
    <3> QED  BY <3>3, <3>4
  <2>4. Special' = {}
    <3>1. stack' \in Seq(Plain)
      BY <2>1, <2>3, EmptySeq
    <3> QED  BY <3>1, SpecialPlain
  <2>5. (Active' => Active /\ Like(run', run)) /\ (Going' => Going)
    BY <2>2, <2>3, ActiveRun, LikeSelf DEF Active, Going, run
  <2> QED  BY <2>2, <2>3, <2>4, <2>5, DimGoes
<1> QED  BY <1>1, <1>2, DimGranted, DimRefused, DimDispatched, DimNotDispatched DEF Answers

-----------------------------------------------------------------------------
(***************************************************************************)
(* The handlers.                                                           *)
(***************************************************************************)
\* Before a handler gets the lock nothing is being decided, and it does not
\* come to a decision before it has observed the lights.
LEMMA DimHandled ==
    ASSUME Inner, Outer, Inner', Outer', DimInv, stack = <<>>, Special = {}, Away(stack'),
           UNCHANGED <<clock, settle, pbl, retired>>, "merged" \notin Special',
           \/ run' = NoRun
           \/ /\ Active /\ SameCommand(run', run) /\ run'.next = run.next
              /\ revokeBy' \in {revokeBy, NoTime}
              /\ revokeBy' = revokeBy \/ Special' \cap Quits # {}
    PROVE  DimInv'
<1>1. Chained(stack') /\ ~Committed' /\ ~Counted'
  BY ReachesNext DEF Away
<1>2. ~Committed /\ ~Counted
  BY AwayFirst DEF Away, Committed, Counted
<1>3. CASE ~Active' \/ Special' \cap Quits # {}
  BY <1>1, <1>3, DimEnds DEF Active, run
<1>4. CASE Active' /\ Special' \cap Quits = {}
  <2>1. /\ Active /\ SameCommand(run', run) /\ run'.next = run.next /\ revokeBy' = revokeBy
    BY <1>4 DEF Active, run
  <2>2. Stays
    BY <1>1, <2>1 DEF Stays
  <2>3. Going
    BY <2>1 DEF Going
  <2>4. Onward
    BY <1>1, <1>2, <2>1, <2>3 DEF Onward
  <2> QED  BY <2>2, <2>4, DimKept
<1> QED  BY <1>3, <1>4

\* The stages that a handler starts with.
LEMMA HandlersAway ==
    ASSUME Inner, Handlers PROVE Away(stack')
<1> USE DEF Begins, Goto, ThenReconcile
<1>0. /\ {"cancelled", "recover", "settling", "ended", "abandoned", "persist", "unloaded",
          "release", "acquire", "updated"} \subseteq Aside
      /\ stack = <<>>
  <2>1. {"cancelled", "recover", "settling", "ended", "abandoned", "persist", "unloaded",
         "release", "acquire", "updated"} \subseteq Aside
    BY DEF Aside, StageNames, Deciders, Counts, Gates
  <2>2. \E kind : Take(kind)
    BY DEF Handlers, OnStart, OnTimer, OnPoke, OnLeafOff, OnRootOff, OnRevoke,
       OnVacation, OnHazard, OnEnd, OnDismiss, OnAdd, OnDelete, OnStop, OnUnload
  <2> QED  BY <2>1, <2>2 DEF Take
<1>1. /\ Away(<<>>) /\ Away(<<"reconcile">>) /\ Away(<<"finish">>)
      /\ Away(<<"recover", "reconcile">>) /\ Away(<<"settling", "reconcile">>)
      /\ Away(<<"persist">>) /\ Away(<<"persist", "unloaded">>)
  <2>1. /\ <<"recover", "reconcile">> = <<"recover">> \o <<"reconcile">>
        /\ <<"settling", "reconcile">> = <<"settling">> \o <<"reconcile">>
        /\ <<"persist">> = <<"persist">> \o <<>>
        /\ <<"persist", "unloaded">> = <<"persist", "unloaded">> \o <<>>
    BY Joined
  <2> QED  BY <1>0, <2>1, AwayFirst, AwayMore
<1>2. ASSUME NEW u, NEW v, NEW w, NEW rest, Away(rest), CancelOn(u, v, w, rest)
      PROVE  Away(stack')
  <2>1. Away(ReleaseOf(run) \o <<"cancelled">> \o rest)
    BY <1>0, <1>2, AwayMore
  <2>2. Away(<<>> \o <<"cancelled">> \o rest)
    <3>1. <<>> \o <<"cancelled">> \o rest = <<"cancelled">> \o rest
      BY <1>2 DEF Away
    <3> QED  BY <1>0, <1>2, <3>1, AwayMore
  <2> QED  BY <1>2, <2>1, <2>2 DEF CancelOn
<1>3. CASE OnStart \/ OnTimer \/ OnPoke \/ OnLeafOff \/ OnStop \/ OnAdd \/ OnDelete
  BY <1>0, <1>1, <1>3 DEF OnStart, OnTimer, OnPoke, OnLeafOff, OnStop, OnAdd, OnDelete
<1>4. CASE OnRootOff \/ OnRevoke \/ OnVacation \/ OnHazard
  <2>1. \/ stack' \in {stack, <<"reconcile">>}
        \/ \E u, v, w : CancelOn(u, v, w, <<"reconcile">>) \/ CancelOn(u, v, w, <<"finish">>)
    BY <1>4 DEF OnRootOff, OnRevoke, OnVacation, OnHazard
  <2> QED  BY <1>0, <1>1, <1>2, <2>1
<1>5. CASE OnEnd \/ OnUnload \/ OnDismiss
  <2>1. /\ Away(ReleaseOf(run) \o <<"ended", "reconcile">>)
        /\ Away(ReleaseOf(run) \o <<"abandoned", "persist", "unloaded">>)
        /\ Away(ReleaseOf(run) \o <<"reconcile">>)
        /\ Away(<<"acquire", "updated">> \o <<"reconcile">>)
    <3>1. /\ Away(<<"ended">> \o <<"reconcile">>) /\ Away(<<"release", "ended">> \o <<"reconcile">>)
          /\ Away(<<"abandoned">> \o <<"persist", "unloaded">>)
          /\ Away(<<"release", "abandoned">> \o <<"persist", "unloaded">>)
          /\ Away(<<"release">> \o <<"reconcile">>)
          /\ Away(<<"acquire", "updated">> \o <<"reconcile">>)
      BY <1>0, <1>1, AwayMore
    <3>2. /\ <<>> \o <<"ended", "reconcile">> = <<"ended">> \o <<"reconcile">>
          /\ <<"release">> \o <<"ended", "reconcile">> = <<"release", "ended">> \o <<"reconcile">>
          /\ <<>> \o <<"abandoned", "persist", "unloaded">>
               = <<"abandoned">> \o <<"persist", "unloaded">>
          /\ <<"release">> \o <<"abandoned", "persist", "unloaded">>
               = <<"release", "abandoned">> \o <<"persist", "unloaded">>
          /\ <<>> \o <<"reconcile">> = <<"reconcile">>
      OBVIOUS
    <3> QED  BY <1>1, <3>1, <3>2 DEF ReleaseOf
  <2> QED  BY <1>1, <1>5, <2>1 DEF OnEnd, OnUnload, OnDismiss
<1> QED  BY <1>3, <1>4, <1>5 DEF Handlers

\* What they leave of a run, and of the time that its revoked lease has.
LEMMA HandlersRun ==
    ASSUME Inner, Outer, Handlers
    PROVE  /\ \/ run' \in {NoRun, run}
              \/ /\ Active /\ SameCommand(run', run) /\ run'.next = run.next
           /\ \/ revokeBy' = revokeBy
              \/ /\ revokeBy' = NoTime /\ run' = run /\ Active /\ "cancelled" \in Special'
<1>0. st \in Profile /\ clock \in Nat
  BY DEF Inner, Outer
<1>1. CASE \E u, v, w \in BOOLEAN, s \in Seq(Plain) : CancelOn(u, v, w, s)
  <2>1. PICK u \in BOOLEAN, v \in BOOLEAN, w \in BOOLEAN, s \in Seq(Plain) : CancelOn(u, v, w, s)
    BY <1>1
  <2>2. Active => run' = run /\ "cancelled" \in Special' /\ revokeBy' = NoTime
    BY <2>1, CancelOnDoes
  <2>3. ~Active => run' = run /\ revokeBy' = revokeBy
    BY <2>1 DEF CancelOn, run
  <2> QED  BY <2>2, <2>3
<1>2. CASE UNCHANGED <<st, revokeBy>>
  BY <1>2 DEF run
<1>3. CASE OnStart
  <2>1. run' = run
    BY <1>0, <1>3, RefreshedType DEF OnStart, run
  <2> QED  BY <1>3, <2>1 DEF OnStart
<1>4. CASE OnPoke /\ Active /\ Event.user
  <2>1. st' = [st EXCEPT !.run = Watched(run, clock)] /\ run \in Run /\ revokeBy' = revokeBy
    BY <1>4, ActiveRun DEF OnPoke
  <2>2. SameCommand(Watched(run, clock), run) /\ Watched(run, clock).next = run.next
    BY <2>1 DEF Watched, ObserveFloor, SameCommand, Run
  <2>3. run' = Watched(run, clock)
    BY <1>0, <2>1 DEF Profile, run
  <2> QED  BY <1>4, <2>1, <2>2, <2>3
<1>5. CASE OnEnd /\ Active
  <2>1. run' = NoRun /\ revokeBy' = revokeBy
    BY <1>0, <1>5 DEF OnEnd, Profile, run
  <2> QED  BY <2>1
<1>6. CASE OnDismiss /\ Active /\ Event.occ \in run.occs
  <2> DEFINE r == Without(run, {Event.occ})
  <2>1. run \in Run /\ r \in Run \cup {NoRun} /\ revokeBy' = revokeBy
    BY <1>6, ActiveRun, WithoutType DEF OnDismiss
  <2>2. r # NoRun => SameCommand(r, run) /\ r.next = run.next
    BY <2>1 DEF Without, Run, SameCommand
  <2>3. st' = [st EXCEPT !.run = r, !.terminal = @ \cup {Event.occ},
                         !.alarms = @ \ (FiredAlarms(run) \cap {Event.occ})]
    BY <1>6 DEF OnDismiss
  <2> HIDE DEF r
  <2>4. run' = r
    BY <1>0, <2>3 DEF Profile, run
  <2> QED  BY <1>6, <2>1, <2>2, <2>4
<1>7. CASE OnAdd \/ OnDelete
  BY <1>0, <1>7 DEF OnAdd, OnDelete, Profile, run
<1>8. ASSUME OnRootOff \/ OnRevoke \/ OnVacation \/ OnHazard
      PROVE  \/ UNCHANGED <<st, revokeBy>>
             \/ \E u, v, w \in BOOLEAN, s \in Seq(Plain) : CancelOn(u, v, w, s)
  <2>1. Event.user \in BOOLEAN
    <3>1. Event \in Tasks
      BY <1>8, TakeType DEF OnRootOff, OnRevoke, OnVacation, OnHazard
    <3> QED  BY <3>1 DEF Tasks
  <2>2. \/ UNCHANGED <<st, revokeBy>>
        \/ CancelOn(TRUE, TRUE, FALSE, <<"reconcile">>)
        \/ CancelOn(Event.user, TRUE, FALSE, <<"finish">>)
        \/ CancelOn(FALSE, FALSE, Event.user, <<"reconcile">>)
        \/ CancelOn(FALSE, FALSE, FALSE, <<"reconcile">>)
    BY <1>8 DEF OnRootOff, OnRevoke, OnVacation, OnHazard
  <2> QED  BY <2>1, <2>2, FirstStages
<1> QED  BY <1>1, <1>2, <1>3, <1>4, <1>5, <1>6, <1>7, <1>8
         DEF Handlers, OnTimer, OnPoke, OnLeafOff, OnEnd, OnDismiss, OnStop, OnUnload

\* Every handler.
LEMMA DimHandlers ==
    ASSUME Inner, Outer, Inner', Outer', DimInv, Handlers
    PROVE  DimInv'
<1>1. PICK kind : Take(kind)
  BY DEF Handlers, OnStart, OnTimer, OnPoke, OnLeafOff, OnRootOff, OnRevoke,
     OnVacation, OnHazard, OnEnd, OnDismiss, OnAdd, OnDelete, OnStop, OnUnload
<1>2. Special = {} /\ stack = <<>> /\ UNCHANGED <<clock, settle, pbl, retired>>
  BY <1>1, StagesOfOne, FirstStages DEF Take, Special, StagesOf, peer, world
<1>3. "merged" \notin Special'
  <2>1. Handled
    BY <1>2, PlainHandlers, CancelHandlers, EndHandlers, AlarmHandlers DEF Handlers
  <2> QED  BY <2>1 DEF Handled, Quits
<1>4. \/ run' = NoRun
      \/ /\ Active /\ SameCommand(run', run) /\ run'.next = run.next
         /\ revokeBy' \in {revokeBy, NoTime}
         /\ revokeBy' = revokeBy \/ Special' \cap Quits # {}
  <2>1. run = NoRun \/ (Active /\ SameCommand(run, run))
    BY DEF Active, SameCommand
  <2>2. "cancelled" \in Special' => Special' \cap Quits # {}
    BY DEF Quits
  <2>3. CASE run' = NoRun
    BY <2>3
  <2>4. CASE run' = run
    <3>1. SameCommand(run', run) /\ run'.next = run.next
      BY <2>4 DEF SameCommand
    <3>2. revokeBy' = revokeBy \/ (revokeBy' = NoTime /\ "cancelled" \in Special')
      BY HandlersRun
    <3> QED  BY <2>1, <2>2, <2>3, <2>4, <3>1, <3>2
  <2>5. CASE run' \notin {NoRun, run}
    BY <2>5, HandlersRun
  <2> QED  BY <2>3, <2>4, <2>5
<1> QED  BY <1>2, <1>3, <1>4, HandlersAway, DimHandled

-----------------------------------------------------------------------------
(***************************************************************************)
(* Users, PBL and the clock.                                               *)
(***************************************************************************)
\* They leave the run, and the handler that is at work, as they are.
LEMMA AroundStays ==
    ASSUME Inner, Outer, Users \/ Machine, Listening, Listening'
    PROVE  /\ st' = st /\ job' = job /\ stack' = stack /\ settle' = settle /\ revokeBy' = revokeBy
           /\ UNCHANGED <<pbl, retired>> \/ (Retire /\ pbl.status # "none")
           /\ clock' = clock \/ Tick
<1>1. st' = st /\ job' = job /\ stack' = stack /\ settle' = settle /\ revokeBy' = revokeBy
  <2>1. CASE Users
    BY <2>1 DEF Users, LeafOff, LeafOn, SetVacation, SetRoom, PblRevoke, Command, Still
  <2>2. CASE Machine
    BY <2>2 DEF Machine, Tick, FireTimer, Poke, PblExpire, Stop, Unload, Die, Forget,
       Boot, CoreRunning, Still, Listening
  <2> QED  BY <2>1, <2>2
<1>2. UNCHANGED <<pbl, retired>> \/ (Retire /\ pbl.status # "none")
  <2>1. CASE Users
    BY <2>1 DEF Users, LeafOff, LeafOn, LightsBecome, SetVacation, SetRoom, PblRevoke,
       Command, peer
  <2>2. CASE Machine
    BY <2>2 DEF Machine, Tick, FireTimer, Poke, PblExpire, Stop, Unload, Die, Forget,
       Boot, CoreRunning, Listening, peer
  <2> QED  BY <2>1, <2>2
<1>3. clock' = clock \/ Tick
  <2>1. CASE Users
    BY <2>1 DEF Users, LeafOff, LeafOn, SetVacation, SetRoom, PblRevoke, Command
  <2>2. CASE Machine
    BY <2>2 DEF Machine, FireTimer, Poke, PblExpire, Stop, Unload, Die, Boot,
       CoreRunning, world
  <2> QED  BY <2>1, <2>2
<1> QED  BY <1>1, <1>2, <1>3

\* A light that somebody brightens is told to a coordinator that listens, and
\* nobody else brightens one.
LEMMA BrightenedNoted ==
    ASSUME Inner, Outer, Users \/ Machine, Listening, Listening'
    PROVE  Brightened' \/ (~Brightened /\ \A l \in Leaf : lights'[l] <= lights[l])
<1>0. lights \in [Leaf -> 0 .. Full] /\ queue \in Seq(Tasks)
  BY DEF Outer
<1>1. ASSUME Queued \subseteq Queued', \A l \in Leaf : lights'[l] <= lights[l]
      PROVE  Brightened' \/ (~Brightened /\ \A l \in Leaf : lights'[l] <= lights[l])
  BY <1>1 DEF Brightened
<1>2. ASSUME lights' = lights, NEW t \in Tasks, Post(<<t>>) \/ queue' = Append(queue, t)
      PROVE  Brightened' \/ (~Brightened /\ \A l \in Leaf : lights'[l] <= lights[l])
  <2>1. Queued \subseteq Queued'
    BY <1>2, QueuedOne
  <2>2. \A l \in Leaf : lights'[l] <= lights[l]
    BY <1>0, <1>2
  <2> QED  BY <1>1, <2>1, <2>2
<1>3. ASSUME lights' = lights, queue' = queue
      PROVE  Brightened' \/ (~Brightened /\ \A l \in Leaf : lights'[l] <= lights[l])
  <2>1. Queued \subseteq Queued'
    BY <1>3 DEF Queued
  <2>2. \A l \in Leaf : lights'[l] <= lights[l]
    BY <1>0, <1>3
  <2> QED  BY <1>1, <2>1, <2>2
<1>4. ASSUME NEW l \in Leaf, LeafOff(l)
      PROVE  Brightened' \/ (~Brightened /\ \A k \in Leaf : lights'[k] <= lights[k])
  <2> DEFINE lease == IF Active THEN run.lease ELSE NoOcc
             off == [Task("leafOff") EXCEPT !.leaf = l, !.occ = lease]
             now == [lights EXCEPT ![l] = 0]
  <2>1. LightsBecome(now, <<off>>) /\ off \in Tasks
    <3>1. lease \in Occ \cup {NoOcc}
      BY ActiveRun DEF Run
    <3> HIDE DEF lease
    <3>2. off \in Tasks
      BY <3>1, EnvTasks
    <3> QED  BY <1>4, <3>2 DEF LeafOff, lease
  <2>2. <<off>> \in Seq(Tasks)
    BY <2>1
  <2> HIDE DEF off
  <2>3. Queued \subseteq Queued'
    BY <2>1, <2>2, LightsNoticed
  <2>4. \A k \in Leaf : lights'[k] <= lights[k]
    BY <1>0, <2>1 DEF LightsBecome
  <2> QED  BY <1>1, <2>3, <2>4
<1>5. ASSUME NEW l \in Leaf, NEW level, LeafOn(l, level) PROVE Brightened'
  <2> DEFINE t == [Task("poke") EXCEPT !.user = TRUE]
  <2>1. t \in Tasks /\ t.kind = "poke" /\ t.user
    <3>1. t \in Tasks
      BY EnvTasks
    <3> QED  BY <3>1 DEF Task
  <2>2. Post(<<t>>)
    BY <1>5 DEF LeafOn
  <2> HIDE DEF t
  <2>3. t \in Queued'
    BY <2>1, <2>2, QueuedOne
  <2> QED  BY <2>1, <2>3 DEF Brightened
<1>6. CASE Users
  <2>2. CASE \E l \in Leaf : LeafOff(l) \/ \E v \in 1 .. Full : LeafOn(l, v)
    BY <1>4, <1>5, <2>2
  <2>3. CASE \E user \in BOOLEAN : PblRevoke(user)
    <3>1. PICK user \in BOOLEAN : PblRevoke(user)
      BY <2>3
    <3>2. [Task("revoke") EXCEPT !.gen = pbl.gen, !.user = user] \in Tasks
      <4>1. pbl.gen \in Nat
        BY DEF Outer, Leases
      <4> QED  BY <4>1, EnvTasks
    <3> QED  BY <1>2, <3>1, <3>2 DEF PblRevoke
  <2>4. CASE \E v \in {"off", "on", "unknown"} : SetVacation(v)
    <3>1. PICK v \in {"off", "on", "unknown"} : SetVacation(v)
      BY <2>4
    <3>2. (IF v = "off" THEN Task("poke")
           ELSE [Task("vacation") EXCEPT !.user = (v = "on")]) \in Tasks
      BY EnvTasks
    <3> QED  BY <1>2, <3>1, <3>2 DEF SetVacation
  <2>5. CASE \E r : SetRoom(r)
    <3>1. PICK r : SetRoom(r)
      BY <2>5
    <3>2. Task(IF r = "ready" THEN "poke" ELSE "hazard") \in Tasks
      BY EnvTasks
    <3> QED  BY <1>2, <3>1, <3>2 DEF SetRoom
  <2>6. CASE \/ \E o \in Occ : \/ Command("dismiss", o) \/ Command("add", o)
                              \/ Command("delete", o)
             \/ Command("end", NoOcc)
    <3>1. PICK kind \in {"dismiss", "add", "delete", "end"}, o \in Occ \cup {NoOcc} :
              Command(kind, o) /\ (kind = "add" => o \in Occ)
      BY <2>6
    <3>2. [Task(kind) EXCEPT !.occ = o] \in Tasks
      BY <3>1, CommandTask
    <3> QED  BY <1>2, <3>1, <3>2 DEF Command
  <2> QED  BY <1>6, <2>2, <2>3, <2>4, <2>5, <2>6 DEF Users
<1>7. CASE Machine
  <2>1. /\ [Task("timer") EXCEPT !.now = clock] \in Tasks
        /\ [Task("revoke") EXCEPT !.gen = pbl.gen] \in Tasks
        /\ Task("poke") \in Tasks
    <3>1. clock \in Int /\ pbl.gen \in Nat
      BY DEF Outer, Leases
    <3>2. Task("revoke") \in Tasks /\ Task("revoke").kind = "revoke"
      <4>1. "revoke" \in Kinds \ {"add"}
        BY DEF Kinds
      <4> QED  BY <4>1, TaskType DEF Task
    <3>3. [Task("revoke") EXCEPT !.gen = pbl.gen] \in Tasks
      BY <3>1, <3>2 DEF Tasks
    <3> QED  BY <3>1, <3>3, EnvTasks
  <2>2. CASE FireTimer \/ PblExpire \/ Poke
    BY <1>2, <2>1, <2>2 DEF FireTimer, PblExpire, Poke, world
  <2>3. CASE Tick
    BY <1>3, <2>3 DEF Tick
  <2>4. ~(Stop \/ Unload \/ Die \/ Boot \/ CoreRunning)
    BY DEF Stop, Unload, Die, Forget, Boot, CoreRunning, Listening
  <2> QED  BY <1>7, <2>2, <2>3, <2>4 DEF Machine
<1> QED  BY <1>6, <1>7

\* Time passes only between the handlers, and the lights settle in one minute.
LEMMA DimTick ==
    ASSUME Inner, Outer, DimInv, Prompt, Prompt', Tick PROVE DimInv'
<1>1. /\ st' = st /\ job' = job /\ stack' = stack /\ settle' = settle /\ revokeBy' = revokeBy
      /\ pbl' = pbl /\ retired' = retired /\ clock' = clock + 1 /\ clock \in Nat
      /\ run' = run /\ Special' = Special /\ pbl \in Leases
  BY DEF Tick, Still, peer, run, Special, StagesOf, Outer
<1>2. stack = <<>>
  BY <1>1 DEF Prompt
<1>3. Special' = {} /\ ~Committed' /\ ~Counted' /\ Chained(stack)'
  <2>1. Special = {}
    BY <1>2, StagesOfOne, FirstStages DEF Special, StagesOf
  <2> QED  BY <1>1, <1>2, <2>1, AwayFirst, ReachesNext DEF Away
<1>4. ~Window'
  <2>1. settle \in Int /\ (settle # NoTime => settle <= clock + 1)
    BY DEF Inner, Outer, DimInv, SettleKnown
  <2>2. ~(settle' # NoTime /\ clock' < settle')
    BY <1>1, <2>1
  <2> QED  BY <2>2 DEF Window
<1>5. PeerKnown'
  BY <1>1 DEF DimInv, PeerKnown, Active
<1>6. SettleKnown'
  BY <1>1 DEF DimInv, SettleKnown, Active, Inner, Outer
<1>7. Active' /\ run'.exp # NoTime /\ revokeBy' # NoTime => Dead'
  <2>1. Active /\ run.exp # NoTime /\ revokeBy # NoTime => Dead
    BY DEF DimInv
  <2>2. ~Holds(run) => ~Holds(run)'
    <3>1. pbl.exp \in Int /\ pbl.grace \in Int
      BY <1>1 DEF Leases, NoTime
    <3> QED  BY <1>1, <3>1 DEF Holds
  <2> QED  BY <1>1, <2>1, <2>2 DEF Dead, Active
<1> QED  BY <1>3, <1>4, <1>5, <1>6, <1>7 DEF DimInv, Observed, Restores

\* Every step of theirs.
LEMMA DimAround ==
    ASSUME Inner, Outer, Inner', Outer', DimInv, Prompt, Prompt', Users \/ Machine,
           Listening, Listening'
    PROVE  DimInv'
<1>1. /\ st' = st /\ job' = job /\ stack' = stack /\ settle' = settle /\ revokeBy' = revokeBy
      /\ UNCHANGED <<pbl, retired>> \/ (Retire /\ pbl.status # "none")
      /\ clock' = clock \/ Tick
  BY AroundStays
<1>2. CASE clock' = clock
  <2>1. run' = run /\ Special' = Special /\ (Committed' <=> Committed) /\ (Counted' <=> Counted)
        /\ Chained(stack')
    BY <1>1, ReachesNext DEF run, Special, StagesOf, Committed, Counted, DimInv
  <2>2. Stays
    BY <1>1, <1>2, <2>1 DEF Stays, Active, SameCommand
  <2>3. Going' => Going
    BY <2>1 DEF Going, Active
  <2>4. Going => run \in Run
    BY ActiveRun DEF Going
  <2>5. Counted' /\ Going => Lasting(run)'
    BY <1>2, <2>1 DEF DimInv, Lasting, Live, Completed
  <2>6. Going' => Onward
    <3>1. Brightened' \/ (~Brightened /\ \A l \in Leaf : lights'[l] <= lights[l])
      BY BrightenedNoted
    <3>2. Going => run.floor \in Int
      BY <2>4 DEF Run
    <3> QED  BY <1>1, <2>1, <2>3, <2>5, <3>1, <3>2 DEF Onward
  <2> QED  BY <1>1, <2>1, <2>2, <2>6, DimKept DEF SameLook
<1> QED  BY <1>1, <1>2, DimTick

-----------------------------------------------------------------------------
\* At first there is no run.
LEMMA DimInit == Init => DimInv
<1> SUFFICES ASSUME Init PROVE DimInv
  OBVIOUS
<1>1. run = NoRun /\ pbl.status = "none" /\ settle = NoTime /\ stack = <<>>
  BY DEF Init, run, NoLease
<1>2. Special = {} /\ Chained(stack)
  BY <1>1, StagesOfOne, FirstStages, AwayFirst DEF Special, StagesOf, Away
<1> QED  BY <1>1, <1>2 DEF DimInv, Observed, Restores, PeerKnown, SettleKnown, Going, Active

\* Every step of a coordinator that is not restarted keeps the lights observed.
LEMMA DimNext ==
    TypeInv /\ TypeInv' /\ CanInv /\ Expires /\ RetryInv /\ HandInv /\ LeaseInv /\ DimInv
    /\ Prompt /\ Prompt' /\ Listening /\ Listening' /\ [Next]_vars => DimInv'
<1> SUFFICES ASSUME Inner, Outer, Inner', Outer', SamePrev, ReleaseLast, Expires, RetryInv,
                    StageFacts, LeaseInv, DimInv, Prompt, Prompt', Listening, Listening',
                    [Next]_vars
             PROVE  DimInv'
  <2>1. TypeInv' => Inner' /\ Outer'
    BY DEF TypeInv, TypeOK, Inner, Outer, Fits
  <2> QED  BY <2>1, TwoParts DEF CanInv, HandInv
<1>1. CASE UNCHANGED vars
  BY <1>1 DEF vars, DimInv, Observed, Restores, PeerKnown, SettleKnown, Going, Committed, Counted,
     Rests, Window, Bright, Brightened, Queued, Lasting, Live, Completed, Dead, Holds, SameLook,
     Special, StagesOf, Active, run, Chained, Reaches
<1>2. ~Unloaded
  BY DEF Unloaded, Forget, Listening
<1> QED  BY <1>1, <1>2, DimStages, DimHandlers, DimAnswers, DimAround DEF Next

\* A command that is decided is as bright as what was observed, and before the
\* lights have settled only the final one is due.
LEMMA DecidedLevel ==
    ASSUME Inner, Outer, StageFacts, Prompt, DimInv, Decide, stack' # <<>>, Head(stack') = "send"
    PROVE  (\A l \in run.targets : job'.level >= lights[l]) \/ Brightened
<1>0. st \in Profile /\ clock \in Nat /\ Chained(stack) /\ job \in Jobs /\ lights \in [Leaf -> 0 .. Full]
  BY DEF Inner, Outer, DimInv
<1>1. Rest \in Seq(Plain) /\ Special = {} /\ At("decide") /\ job.now = clock
  <2>1. At("decide") /\ "decide" \in PlainNames
    BY DEF Decide, PlainNames
  <2> QED  BY <2>1, PlainUnhurried DEF Prompt, At
<1>2. Reaches(stack, Gates)
  BY <1>0, <1>1, TurnsRest DEF Deciders
<1>3. stack' # Rest
  <2>1. Rest # <<>> => Head(Rest) \in Plain
    <3>1. Rest # <<>> => Len(Rest) \in Nat \ {0} /\ Head(Rest) = Rest[1]
      BY <1>1, EmptySeq, LenProperties
    <3> QED  BY <1>1, <3>1, ElementOfSeq
  <2>2. "send" \notin Plain
    BY DEF Plain, NeedRun
  <2> QED  BY <2>1, <2>2
<1>4. /\ Active /\ ShouldDispatch /\ run \in Run
      /\ job' = [job EXCEPT !.force = ForceFinal(run, job.now),
                            !.level = IF ForceFinal(run, job.now) THEN Full
                                      ELSE DesiredLevel(run, job.now)]
  BY <1>3, ActiveRun DEF Decide, NoCancel, Goto
<1>5. job'.level = IF ForceFinal(run, clock) THEN Full ELSE DesiredLevel(run, clock)
  BY <1>0, <1>1, <1>4 DEF Jobs
<1>6. Rests \/ Bright
  BY <1>1, <1>2, <1>4 DEF DimInv, Observed, Going, Committed
<1>7. \A l \in run.targets : l \in Leaf /\ lights[l] \in 0 .. Full
  BY <1>0, <1>4 DEF Run
<1>8. CASE ForceFinal(run, clock)
  BY <1>5, <1>7, <1>8, CoordinatorAssumption
<1>9. CASE Rests /\ ~ForceFinal(run, clock)
  <2>1. run.next # NoTime /\ run.next \in Int /\ ~(clock >= run.next)
    BY <1>0, <1>4, <1>9 DEF Rests, Run
  <2> QED  BY <1>0, <1>1, <1>4, <1>9, <2>1 DEF Rests, ShouldDispatch
<1>10. CASE Bright /\ ~ForceFinal(run, clock)
  <2>1. DesiredLevel(run, clock) >= run.floor
    BY <1>0, <1>4, LevelAbove
  <2>2. DesiredLevel(run, clock) \in Int /\ run.floor \in Int
    BY <1>0, <1>4, DesiredLevelType DEF Run
  <2>3. CASE \A l \in run.targets : lights[l] <= run.floor
    BY <1>5, <1>7, <1>10, <2>1, <2>2, <2>3
  <2> QED  BY <1>10, <2>3 DEF Bright
<1> QED  BY <1>6, <1>8, <1>9, <1>10

\* No command is below a light of the room whose brightening has been handled
\* (_observe_target_floor_if_settled, desired_level), as long as every handler
\* ends before the clock moves on: a timer's callback that waits for the lock
\* brings an older time with it, and a command that fails then lets the next
\* one come due before the lights have settled.  The coordinator must not have
\* been restarted: the minute in which they settle is only in memory.
THEOREM NeverDimmed == Spec /\ []Listening /\ []Prompt => NeverDims
<1>1. TypeInv /\ FenceInv /\ CanInv /\ Expires /\ RetryInv /\ [Next]_vars
        => TypeInv' /\ FenceInv' /\ CanInv' /\ Expires' /\ RetryInv'
  BY TypeNext, FenceNext, CanNext, ExpiresNext, RetryNext
<1>2. Init => /\ TypeInv /\ FenceInv /\ CanInv /\ Expires /\ RetryInv /\ HandInv /\ LeaseInv
              /\ DimInv
  BY TypeInit, FenceInit, CanInit, ExpiresInit, RetryInit, HandInit, LeaseInit, DimInit
<1>3. TypeInv /\ HandInv /\ DimInv /\ Prompt /\ [Next]_vars
        => [At("decide") /\ stack' # <<>> /\ Head(stack') = "send"
              => \/ \A l \in run.targets : job'.level >= lights[l]
                 \/ \E i \in 1 .. Len(queue) : queue[i].kind = "poke" /\ queue[i].user]_vars
  <2> SUFFICES ASSUME Inner, Outer, StageFacts, DimInv, Prompt, [Next]_vars,
                      At("decide"), stack' # <<>>, Head(stack') = "send"
               PROVE  \/ \A l \in run.targets : job'.level >= lights[l]
                      \/ \E i \in 1 .. Len(queue) : queue[i].kind = "poke" /\ queue[i].user
    BY TwoParts DEF HandInv
  <2>1. (\A l \in run.targets : job'.level >= lights[l]) \/ Brightened
    BY DecisionNext, DecidedLevel
  <2> QED  BY <2>1 DEF Brightened, Queued
<1> QED  BY <1>1, <1>2, <1>3, HandNext, LeaseNext, DimNext, PTL DEF Spec, NeverDims

-----------------------------------------------------------------------------
(***************************************************************************)
(* Without late ticks (MaxLags) time passes only while nothing waits: a    *)
(* handler works at the time the clock shows, and so does the callback of  *)
(* the timer that is in the queue.                                         *)
(***************************************************************************)
Clocked == /\ Prompt /\ left.lags = 0
           /\ \A t \in Queued : t.kind = "timer" => t.now = clock

\* What is spent is not a late tick.
LEMMA LagsKept ==
    ASSUME Outer, Handlers \/ (Stages /\ ~Unloaded) \/ Answers \/ Users
    PROVE  left'.lags = left.lags
<1>0. left \in [{"user", "lags", "faults", "restarts"} -> Nat]
  BY DEF Outer
<1>1. ASSUME NEW w \in {"user", "faults"}, Spend(w) PROVE left'.lags = left.lags
  BY <1>0, <1>1 DEF Spend
<1>2. CASE Handlers
  <2>1. \E k : Take(k)
    BY <1>2, HandlersTake
  <2> QED  BY <2>1 DEF Take, world
<1>3. CASE Stages /\ ~Unloaded
  <2>1. Quiet
    BY <1>3 DEF Stages, Reconcile, Drain, Pending, Reacquired, JoinDue, Merged,
       Complete, CompletedRun, Begin, Started, Dispatch, Decide, Finish, Cancelled,
       Updated, Failed, Ended, Fence, RecoverNothing, RecoverRootOff,
       RecoverNoTargets, RecoverRun, Recovered, Abandoned
  <2> QED  BY <2>1 DEF Quiet, world
<1>4. CASE Answers
  <2>1. left' = left \/ Spend("faults")
    BY <1>4 DEF Answers, Granted, Refused, NotDispatched, Dispatched, DispatchFailed,
       Released, NotReleased, SafeOff, NotSafeOff, Settling, Save, Persist, Quiet, world
  <2> QED  BY <1>1, <2>1
<1>5. CASE Users
  <2>1. Spend("user")
    BY <1>5 DEF Users, LeafOff, LeafOn, SetVacation, SetRoom, PblRevoke, Command, Act
  <2> QED  BY <1>1, <2>1
<1> QED  BY <1>2, <1>3, <1>4, <1>5

\* A handler starts at the time of the clock, or has nothing to do.
LEMMA HandlerStarts ==
    ASSUME Outer, RetryInv, Clocked, Handlers PROVE stack' # <<>> => job'.now = clock
<1> USE DEF Begins, ThenReconcile, Goto
<1>1. \A t : Now(t).now = t
  BY DEF Now, NoJob
<1>2. ASSUME NEW u, NEW v, NEW w, NEW rest, CancelOn(u, v, w, rest) PROVE job'.now = clock
  BY <1>2 DEF CancelOn, Now, NoJob
<1>3. stack = <<>>
  <2>1. \E k : Take(k)
    BY HandlersTake
  <2> QED  BY <2>1 DEF Take
<1>4. CASE OnTimer
  <2>1. Event.now = clock
    BY <1>4, TakenQueue DEF OnTimer, Clocked
  <2> QED  BY <1>1, <1>4, <2>1 DEF OnTimer
<1>5. CASE OnStart \/ OnPoke \/ OnAdd \/ OnDelete \/ OnStop
  BY <1>1, <1>3, <1>5 DEF OnStart, OnPoke, OnAdd, OnDelete, OnStop
<1>6. CASE OnLeafOff \/ OnEnd \/ OnDismiss \/ OnUnload
  BY <1>6 DEF OnLeafOff, OnEnd, OnDismiss, OnUnload, Now, NoJob
<1>7. CASE OnRootOff \/ OnRevoke \/ OnVacation \/ OnHazard
  BY <1>1, <1>2, <1>3, <1>7 DEF OnRootOff, OnRevoke, OnVacation, OnHazard
<1> QED  BY <1>4, <1>5, <1>6, <1>7 DEF Handlers

\* A queue that has become longer.
LEMMA QueueClocked ==
    ASSUME Outer, Longer, Clocked
    PROVE  \A t \in Queued' : t.kind = "timer" => t.now = clock
BY LongerQueue DEF Clocked

\* Every step of a coordinator that was not stopped.
LEMMA ClockedNext ==
    TypeInv /\ FenceInv /\ CanInv /\ Expires /\ RetryInv /\ Listening /\ Listening' /\ Clocked
      /\ [Next]_vars => Clocked'
<1> SUFFICES ASSUME Inner, Outer, FenceInner, CanInv, Expires, RetryInv, Listening, Listening',
                    Clocked, [Next]_vars
             PROVE  Clocked'
  BY TwoParts DEF FenceInv
<1>0. ~At("persist")
  BY StagesAt DEF RetryInv, Ahead
<1>1. CASE UNCHANGED vars
  BY <1>1 DEF vars, Clocked, Prompt, Queued
<1>2. CASE Handlers
  <2>1. PICK k : Take(k)
    BY <1>2, HandlersTake
  <2>2. clock' = clock /\ Queued' \subseteq Queued
    BY <2>1, TakenQueue DEF Take, world
  <2> QED  BY <1>2, <2>2, HandlerStarts, LagsKept DEF Clocked, Prompt
<1>3. ASSUME Inside, left'.lags = left.lags, ~At("persist") PROVE Clocked'
  BY <1>3, QueueClocked DEF Inside, KeepsTime, Clocked, Prompt
<1>4. CASE Stages
  <2>1. ~Unloaded
    BY DEF Unloaded, Forget, Listening
  <2> QED  BY <1>0, <1>3, <1>4, <2>1, StagesInside, LagsKept
<1>5. CASE Answers
  BY <1>0, <1>3, <1>5, AnswersMove, AnswersInside, LagsKept
<1>6. ASSUME Still, clock' = clock, Longer, left'.lags = left.lags PROVE Clocked'
  BY <1>6, QueueClocked DEF Still, Clocked, Prompt
<1>7. CASE Users
  BY <1>6, <1>7, UsersPost, LagsKept
<1>8. CASE Machine
  <2>0. clock \in Nat /\ pbl.gen \in Nat
    BY DEF Outer, Leases
  <2>1. CASE Tick
    <3>1. stack = <<>> /\ queue = <<>> /\ left' = left
      BY <2>1 DEF Tick, Idle, Spend, Clocked
    <3>2. stack' = <<>> /\ Queued' = {}
      BY <2>1, <3>1 DEF Tick, Still, Queued
    <3> QED  BY <3>1, <3>2 DEF Clocked, Prompt
  <2>2. CASE FireTimer \/ Poke \/ PblExpire
    <3>1. \E t \in Others : Post(<<t>>) \/ queue' = Append(queue, t)
      BY <2>0, <2>2, OtherTasks DEF FireTimer, Poke, PblExpire
    <3>2. Longer
      BY <3>1, PostedOne
    <3> QED  BY <1>6, <2>2, <3>2 DEF FireTimer, Poke, PblExpire, world
  <2>3. CASE Stop \/ Unload \/ Die \/ Boot \/ CoreRunning
    BY <2>3 DEF Stop, Unload, Die, Boot, CoreRunning, Forget, Listening
  <2> QED  BY <1>8, <2>1, <2>2, <2>3 DEF Machine
<1> QED  BY <1>1, <1>2, <1>4, <1>5, <1>7, <1>8 DEF Next

\* At first no handler is at work.
LEMMA ClockedInit == Init /\ MaxLags = 0 => Clocked
<1> SUFFICES ASSUME Init, MaxLags = 0 PROVE Clocked
  OBVIOUS
<1>1. /\ stack = <<>> /\ Len(queue) = 1 /\ queue[1] = Task("start") /\ Task("start").kind = "start"
      /\ left.lags = 0
  BY DEF Init, Task
<1> QED  BY <1>1 DEF Clocked, Prompt, Queued

\* No command is below a light of the room whose brightening has been handled
\* (_observe_target_floor_if_settled, desired_level), if time passes only while
\* nothing waits and the coordinator is not restarted.
THEOREM NeverDimmedInTime ==
    ASSUME MaxLags = 0 PROVE Spec /\ []Listening => NeverDims
<1>1. TypeInv /\ FenceInv /\ CanInv /\ Expires /\ RetryInv /\ [Next]_vars
        => TypeInv' /\ FenceInv' /\ CanInv' /\ Expires' /\ RetryInv'
  BY TypeNext, FenceNext, CanNext, ExpiresNext, RetryNext
<1>2. Init => TypeInv /\ FenceInv /\ CanInv /\ Expires /\ RetryInv /\ Clocked
  BY TypeInit, FenceInit, CanInit, ExpiresInit, RetryInit, ClockedInit
<1>3. Clocked => Prompt
  BY DEF Clocked
<1> QED  BY <1>1, <1>2, <1>3, ClockedNext, NeverDimmed, PTL DEF Spec

=============================================================================
