------------------------ MODULE WakeCoordinatorProofs ------------------------
(***************************************************************************)
(* What TLAPS proves of the coordinator, for every set of alarms, lights,  *)
(* schedule and bound.                                                     *)
(***************************************************************************)
EXTENDS WakeTypeProofs

-----------------------------------------------------------------------------
(***************************************************************************)
(* Every handler ends with a save.  Closing is the shape of the stack of a *)
(* handler that holds the lock: whatever it does on the way, its last      *)
(* stage leads to the Store.                                               *)
(***************************************************************************)
Closers == {"reconcile", "finish", "save", "persist", "unloaded"}

Closing(s) == s \in Seq(StageNames) /\ s # <<>> /\ s[Len(s)] \in Closers

\* An idle coordinator has stored its state, a busy one will.
StoredInv == /\ stack = <<>> => disk = st
             /\ stack # <<>> => Closing(stack)

\* What is in front of the last stage does not matter.
LEMMA PrefixCloses ==
    ASSUME NEW p \in Seq(StageNames), NEW s, Closing(s)
    PROVE  Closing(p \o s)
<1>1. /\ p \o s \in Seq(StageNames)
      /\ Len(p \o s) = Len(p) + Len(s)
      /\ (p \o s)[Len(p) + Len(s)] =
            IF Len(p) + Len(s) <= Len(p) THEN p[Len(p) + Len(s)]
            ELSE s[Len(p) + Len(s) - Len(p)]
  <2>1. Len(p) \in Nat /\ Len(s) \in Nat \ {0}
    BY EmptySeq, LenProperties DEF Closing
  <2> QED  BY <2>1, ConcatProperties DEF Closing
<1>2. Len(p) \in Nat /\ Len(s) \in Nat \ {0}
  BY EmptySeq, LenProperties DEF Closing
<1>3. (p \o s)[Len(p \o s)] = s[Len(s)]
  BY <1>1, <1>2
<1>4. p \o s # <<>>
  BY <1>1, <1>2, EmptySeq
<1> QED  BY <1>1, <1>3, <1>4 DEF Closing

\* A stage that is not the last one leaves a stack that still closes.
LEMMA RestCloses ==
    ASSUME NEW s, Closing(s), Head(s) \notin Closers
    PROVE  Closing(Tail(s))
<1>1. /\ Tail(s) \in Seq(StageNames)
      /\ Len(Tail(s)) = Len(s) - 1
      /\ \A i \in 1 .. Len(Tail(s)) : Tail(s)[i] = s[i + 1]
      /\ Len(s) \in Nat \ {0}
      /\ Head(s) = s[1]
  BY HeadTailProperties, EmptySeq, LenProperties DEF Closing
<1>2. Len(s) # 1
  BY <1>1 DEF Closing
<1>3. Len(Tail(s)) \in Nat \ {0} /\ Len(Tail(s)) \in 1 .. Len(Tail(s))
  BY <1>1, <1>2
<1>4. Tail(s)[Len(Tail(s))] = s[Len(s)]
  BY <1>1, <1>3
<1>5. Tail(s) # <<>>
  BY <1>3, EmptySeq
<1> QED  BY <1>1, <1>4, <1>5 DEF Closing

\* One or two stages put in front of a closing stack keep it closing.
LEMMA OneMoreCloses ==
    ASSUME NEW s, Closing(s), NEW a \in StageNames, NEW b \in StageNames
    PROVE  Closing(<<a>> \o s) /\ Closing(<<a, b>> \o s)
<1>1. <<a>> \in Seq(StageNames) /\ <<a, b>> \in Seq(StageNames)
  OBVIOUS
<1> QED  BY <1>1, PrefixCloses

\* The release that giving a run up may need is a sequence of stages.
LEMMA ReleaseOfSeq ==
    ASSUME NEW r PROVE ReleaseOf(r) \in Seq(StageNames)
<1>1. <<>> \in Seq(StageNames) /\ <<"release">> \in Seq(StageNames)
  BY EmptySeq DEF StageNames
<1> QED  BY <1>1 DEF ReleaseOf

\* A cancellation ends in what follows it (_cancel_active_locked).
LEMMA CancelCloses ==
    ASSUME NEW p, NEW user, NEW revoked, NEW off, NEW rest, Closing(rest),
           Cancel(p, user, revoked, off, rest)
    PROVE  Closing(stack')
<1> DEFINE first == IF revoked THEN <<>> ELSE ReleaseOf(p.run)
<1>1. CASE p.run = NoRun
  BY <1>1 DEF Cancel, Goto
<1>2. CASE p.run # NoRun
  <2>1. first \o <<"cancelled">> \in Seq(StageNames)
    <3>1. first \in Seq(StageNames)
      BY ReleaseOfSeq, EmptySeq
    <3>2. <<"cancelled">> \in Seq(StageNames)
      BY DEF StageNames
    <3> HIDE DEF first
    <3> QED  BY <3>1, <3>2, ConcatProperties
  <2>2. stack' = (first \o <<"cancelled">>) \o rest
    BY <1>2 DEF Cancel, Goto
  <2> HIDE DEF first
  <2> QED  BY <2>1, <2>2, PrefixCloses
<1> QED  BY <1>1, <1>2

\* A recovery given up ends in what follows it (_fail_recovery_locked).
LEMMA FailRecoveryCloses ==
    ASSUME NEW r, NEW rest, Closing(rest), FailRecovery(r, rest)
    PROVE  Closing(stack')
<1>1. ReleaseOf(r) \o <<"failed">> \in Seq(StageNames)
  <2>1. <<"failed">> \in Seq(StageNames)
    BY DEF StageNames
  <2> QED  BY <2>1, ReleaseOfSeq, ConcatProperties
<1>2. stack' = (ReleaseOf(r) \o <<"failed">>) \o rest
  BY DEF FailRecovery, Goto
<1> QED  BY <1>1, <1>2, PrefixCloses

\* So does one that is retried, failed or cancelled by what blocks it.
LEMMA RetryCloses ==
    ASSUME NEW r, NEW rest, Closing(rest),
           RetryOrFail(r, rest) \/ BlockedRecovery(r, rest)
    PROVE  Closing(stack')
<1>1. RetryOrFail(r, rest) => Closing(stack')
  BY FailRecoveryCloses DEF RetryOrFail, NoCancel, Goto
<1>2. BlockedRecovery(r, rest) => Closing(stack')
  BY <1>1, CancelCloses DEF BlockedRecovery
<1> QED  BY <1>1, <1>2

\* So does taking a leaf out of the run (_release_foreign_off_leaf_locked).
LEMMA ReleaseLeafCloses ==
    ASSUME NEW l, NEW rest, Closing(rest), ReleaseLeaf(l, rest)
    PROVE  Closing(stack')
<1>1. Closing(<<"acquire", "updated">> \o rest)
  BY OneMoreCloses DEF StageNames
<1> QED  BY <1>1, CancelCloses DEF ReleaseLeaf, NoCancel, Goto

\* What holds when the stage a, which is not a last one, is at the head.
LEMMA AtStage ==
    ASSUME StoredInv, NEW a, a \notin Closers, At(a)
    PROVE  Closing(stack) /\ Closing(Rest)
<1>1. Closing(stack)
  BY DEF StoredInv, At
<1> QED  BY <1>1, RestCloses DEF At, Rest

\* A step that leaves a closing stack keeps StoredInv, whatever it stores.
LEMMA ClosingSuffices ==
    ASSUME Closing(stack') PROVE StoredInv'
BY DEF StoredInv, Closing

\* Every stage but the last ones leaves a closing stack: no early return of
\* the pipeline passes by the save.
LEMMA StagesClose ==
    ASSUME StoredInv, Stages, ~Unloaded, ~Finish
    PROVE  Closing(stack')
<1> USE DEF Goto, NoCancel
<1>1. CASE Reconcile
  <2>1. Closing(Pipeline)
    BY DEF Closing, Pipeline, StageNames, Closers
  <2> QED  BY <1>1, <2>1 DEF Reconcile
<1>2. CASE Drain
  <2>1. Closing(stack) /\ Closing(Rest)
    BY <1>2, AtStage DEF Drain, Closers
  <2> QED  BY <1>2, <2>1, ReleaseLeafCloses DEF Drain
<1>3. CASE Pending
  <2>1. Closing(Rest)
    BY <1>3, AtStage DEF Pending, Closers
  <2>2. Closing(<<"finish">>)
    BY DEF Closing, StageNames, Closers
  <2>3. Closing(<<"acquire", "reacquired">> \o Rest)
    BY <2>1, OneMoreCloses DEF StageNames
  <2> QED  BY <1>3, <2>1, <2>2, <2>3, RetryCloses, FailRecoveryCloses DEF Pending
<1>4. CASE Reacquired
  <2>1. Closing(Rest)
    BY <1>4, AtStage DEF Reacquired, Closers
  <2>2. Closing(<<"finish">>)
    BY DEF Closing, StageNames, Closers
  <2> QED  BY <1>4, <2>1, <2>2, RetryCloses, FailRecoveryCloses
              DEF Reacquired, NotRecovered
<1>5. CASE JoinDue
  <2>1. Closing(Rest)
    BY <1>5, AtStage DEF JoinDue, Closers
  <2>2. Closing(<<"acquire", "merged">> \o Rest)
    BY <2>1, OneMoreCloses DEF StageNames
  <2> QED  BY <1>5, <2>1, <2>2, CancelCloses DEF JoinDue
<1>6. CASE Complete
  <2>1. Closing(Rest)
    BY <1>6, AtStage DEF Complete, Closers
  <2>2. Closing(<<"acquire", "merged">> \o Rest)
    BY <2>1, OneMoreCloses DEF StageNames
  <2>3. Closing(ReleaseOf(run) \o <<"completed">> \o Rest)
    <3>1. <<"completed">> \in Seq(StageNames)
      BY DEF StageNames
    <3>2. ReleaseOf(run) \o <<"completed">> \in Seq(StageNames)
      BY <3>1, ReleaseOfSeq, ConcatProperties
    <3> QED  BY <2>1, <3>2, PrefixCloses
  <2> QED  BY <1>6, <2>1, <2>2, <2>3 DEF Complete
<1>7. CASE Begin
  <2>1. Closing(Rest)
    BY <1>7, AtStage DEF Begin, Closers
  <2>2. Closing(<<"acquire", "started">> \o Rest)
    BY <2>1, OneMoreCloses DEF StageNames
  <2> QED  BY <1>7, <2>1, <2>2 DEF Begin
<1>8. CASE Dispatch
  <2>1. Closing(Rest)
    BY <1>8, AtStage DEF Dispatch, Closers
  <2>2. Closing(<<"drain", "decide">> \o Rest)
    BY <2>1, OneMoreCloses DEF StageNames
  <2> QED  BY <1>8, <2>1, <2>2 DEF Dispatch
<1>9. CASE Decide
  <2>1. Closing(Rest)
    BY <1>9, AtStage DEF Decide, Closers
  <2>2. Closing(<<"send">> \o Rest)
    BY <2>1, OneMoreCloses DEF StageNames
  <2> QED  BY <1>9, <2>1, <2>2 DEF Decide
<1>10. CASE Cancelled
  <2>1. Closing(Rest)
    BY <1>10, AtStage DEF Cancelled, Closers
  <2>2. Closing(<<"safeOff">> \o Rest)
    BY <2>1, OneMoreCloses DEF StageNames
  <2> QED  BY <1>10, <2>1, <2>2 DEF Cancelled
<1>11. CASE Ended
  <2>1. Closing(Rest)
    BY <1>11, AtStage DEF Ended, Closers
  <2>2. /\ <<>> \in Seq(StageNames) /\ <<"safeOff">> \in Seq(StageNames)
        /\ <<"fence">> \in Seq(StageNames)
    BY DEF StageNames
  <2>3. /\ <<>> \o <<"fence">> \in Seq(StageNames)
        /\ <<"safeOff">> \o <<"fence">> \in Seq(StageNames)
    BY <2>2, ConcatProperties
  <2>4. /\ Closing(<<>> \o <<"fence">> \o Rest)
        /\ Closing(<<"safeOff">> \o <<"fence">> \o Rest)
    BY <2>1, <2>3, PrefixCloses
  <2> QED  BY <1>11, <2>4 DEF Ended
<1>12. CASE RecoverRun
  <2>1. Closing(Rest)
    BY <1>12, AtStage DEF RecoverRun, Closers
  <2>2. Closing(<<"acquire", "recovered">> \o Rest)
    BY <2>1, OneMoreCloses DEF StageNames
  <2> QED  BY <1>12, <2>1, <2>2, RetryCloses, FailRecoveryCloses DEF RecoverRun
<1>13. CASE RecoverNoTargets
  <2>1. Closing(Rest)
    BY <1>13, AtStage DEF RecoverNoTargets, Closers
  <2>2. <<"abandoned">> \in Seq(StageNames)
    BY DEF StageNames
  <2>3. ReleaseOf(run) \o <<"abandoned">> \in Seq(StageNames)
    BY <2>2, ReleaseOfSeq, ConcatProperties
  <2>4. Closing(ReleaseOf(run) \o <<"abandoned">> \o Rest)
    BY <2>1, <2>3, PrefixCloses
  <2> QED  BY <1>13, <2>4 DEF RecoverNoTargets
<1>14. CASE RecoverNothing \/ RecoverRootOff
  <2>1. Closing(Rest)
    BY <1>14, AtStage DEF RecoverNothing, RecoverRootOff, Closers
  <2> QED  BY <1>14, <2>1, CancelCloses DEF RecoverNothing, RecoverRootOff
<1>15. CASE Recovered
  <2>1. Closing(Rest)
    BY <1>15, AtStage DEF Recovered, Closers
  <2> QED  BY <1>15, <2>1, RetryCloses, FailRecoveryCloses DEF Recovered, NotRecovered
<1>16. CASE Updated
  <2>1. Closing(Rest)
    BY <1>16, AtStage DEF Updated, Closers
  <2> QED  BY <1>16, <2>1, CancelCloses DEF Updated
<1>17. CASE Merged \/ CompletedRun \/ Started \/ Failed \/ Abandoned \/ Fence
  <2>1. Closing(Rest)
    BY <1>17, AtStage
       DEF Merged, CompletedRun, Started, Failed, Abandoned, Fence, Closers
  <2> QED  BY <1>17, <2>1
              DEF Merged, CompletedRun, Started, Failed, Abandoned, Fence
<1> QED  BY <1>1, <1>2, <1>3, <1>4, <1>5, <1>6, <1>7, <1>8, <1>9, <1>10, <1>11,
            <1>12, <1>13, <1>14, <1>15, <1>16, <1>17 DEF Stages

\* Every answer or failure of a call leaves a closing stack.
LEMMA AnswersClose ==
    ASSUME StoredInv, Answers, ~Save, ~Persist
    PROVE  Closing(stack')
<1> USE DEF Goto, NoCancel
<1>1. CASE Granted \/ Refused
  <2>1. Closing(Rest)
    BY <1>1, AtStage DEF Granted, Refused, Closers
  <2> QED  BY <1>1, <2>1 DEF Granted, Refused
<1>2. ASSUME NEW T \in SUBSET Leaf, Dispatched(T) PROVE Closing(stack')
  <2>1. Closing(Rest)
    BY <1>2, AtStage DEF Dispatched, Closers
  <2> QED  BY <1>2, <2>1, CancelCloses DEF Dispatched
<1>3. CASE NotDispatched(TRUE) \/ NotDispatched(FALSE)
  <2>1. Closing(Rest)
    BY <1>3, AtStage DEF NotDispatched, Closers
  <2> QED  BY <1>3, <2>1, CancelCloses DEF NotDispatched
<1>4. CASE DispatchFailed
  <2>1. Closing(Rest)
    BY <1>4, AtStage DEF DispatchFailed, Closers
  <2> QED  BY <1>4, <2>1, CancelCloses DEF DispatchFailed
<1>5. CASE Released \/ NotReleased \/ SafeOff \/ NotSafeOff
  <2>1. Closing(Rest)
    BY <1>5, AtStage DEF Released, NotReleased, SafeOff, NotSafeOff, Closers
  <2> QED  BY <1>5, <2>1 DEF Released, NotReleased, SafeOff, NotSafeOff
<1>6. CASE Settling
  <2>1. Closing(Rest)
    BY <1>6, AtStage DEF Settling, Closers
  <2> QED  BY <1>6, <2>1, CancelCloses, ReleaseLeafCloses DEF Settling
<1> QED  BY <1>1, <1>2, <1>3, <1>4, <1>5, <1>6 DEF Answers

\* The saves themselves, and the end of the process.
LEMMA SavesKeepStored ==
    ASSUME StoredInv, Finish \/ Save \/ Persist \/ Unloaded \/ Die
    PROVE  StoredInv'
<1>1. CASE Finish
  <2>1. Closing(<<"save">>)
    BY DEF Closing, StageNames, Closers
  <2>2. st' = disk => stack' = <<>> /\ disk' = disk
    BY <1>1 DEF Finish, Goto, Quiet
  <2>3. st' # disk => stack' = <<"save">>
    BY <1>1 DEF Finish, Goto
  <2> QED  BY <2>1, <2>2, <2>3 DEF StoredInv, Closing
<1>2. CASE Save
  BY <1>2 DEF Save, Goto, StoredInv
<1>3. CASE Persist
  <2>1. disk' = st' /\ stack' = Rest
    BY <1>3 DEF Persist, Goto
  <2>2. Closing(stack) /\ Rest = Tail(stack) /\ Head(stack) = "persist"
    BY <1>3 DEF Persist, At, Rest, StoredInv
  <2>3. Rest = <<>> \/ Closing(Rest)
    <3>1. /\ Tail(stack) \in Seq(StageNames)
          /\ Len(Tail(stack)) = Len(stack) - 1
          /\ \A i \in 1 .. Len(Tail(stack)) : Tail(stack)[i] = stack[i + 1]
          /\ Len(stack) \in Nat \ {0}
      BY <2>2, HeadTailProperties, EmptySeq, LenProperties DEF Closing
    <3>2. CASE Tail(stack) # <<>>
      <4>1. Len(Tail(stack)) \in Nat \ {0}
        BY <3>1, <3>2, EmptySeq
      <4>2. Tail(stack)[Len(Tail(stack))] = stack[Len(stack)]
        BY <3>1, <4>1
      <4> QED  BY <2>2, <3>1, <3>2, <4>2 DEF Closing
    <3> QED  BY <2>2, <3>2
  <2> QED  BY <2>1, <2>3 DEF StoredInv, Closing
<1>4. CASE Unloaded \/ Die
  BY <1>4 DEF Unloaded, Die, Forget, StoredInv
<1> QED  BY <1>1, <1>2, <1>3, <1>4

\* A handler that gets the lock either starts stages that end in a save or
\* leaves the state alone.
LEMMA HandlersKeepStored ==
    ASSUME StoredInv, Handlers
    PROVE  StoredInv'
<1> DEFINE Alone == UNCHANGED <<st, disk, stack>>
<1>1. SUFFICES Alone \/ Closing(stack')
  BY ClosingSuffices DEF StoredInv, Closing
<1>2. /\ Closing(<<"reconcile">>) /\ Closing(<<"finish">>) /\ Closing(<<"persist">>)
      /\ Closing(<<"recover", "reconcile">>) /\ Closing(<<"settling", "reconcile">>)
      /\ Closing(<<"persist", "unloaded">>) /\ Closing(<<"abandoned", "persist", "unloaded">>)
      /\ Closing(<<"ended", "reconcile">>) /\ Closing(<<"acquire", "updated">> \o <<"reconcile">>)
  <2>1. Closing(<<"reconcile">>) /\ Closing(<<"finish">>) /\ Closing(<<"persist">>)
    BY DEF Closing, StageNames, Closers
  <2>2. Closing(<<"recover", "reconcile">>) /\ Closing(<<"settling", "reconcile">>)
    BY DEF Closing, StageNames, Closers
  <2>3. Closing(<<"persist", "unloaded">>) /\ Closing(<<"ended", "reconcile">>)
    BY DEF Closing, StageNames, Closers
  <2>4. Closing(<<"abandoned", "persist", "unloaded">>)
    BY DEF Closing, StageNames, Closers
  <2>5. Closing(<<"acquire", "updated">> \o <<"reconcile">>)
    BY <2>1, OneMoreCloses DEF StageNames
  <2> QED  BY <2>1, <2>2, <2>3, <2>4, <2>5
<1>3. ASSUME NEW s, Closing(s) PROVE Closing(ReleaseOf(run) \o s)
  BY <1>3, ReleaseOfSeq, PrefixCloses
<1>4. ASSUME NEW u, NEW v, NEW off, NEW s, Closing(s), CancelOn(u, v, off, s)
      PROVE  Closing(stack')
  <2>1. CASE ~Active
    BY <1>4, <2>1 DEF CancelOn, Begins, Goto
  <2>2. CASE Active
    <3> DEFINE first == IF v THEN <<>> ELSE ReleaseOf(run)
    <3>1. first \in Seq(StageNames) /\ <<"cancelled">> \in Seq(StageNames)
      BY ReleaseOfSeq, EmptySeq DEF StageNames
    <3>2. stack' = first \o <<"cancelled">> \o s
      BY <1>4, <2>2 DEF CancelOn, Begins, Goto
    <3> HIDE DEF first
    <3>3. first \o <<"cancelled">> \in Seq(StageNames)
      BY <3>1, ConcatProperties
    <3> QED  BY <1>4, <3>2, <3>3, PrefixCloses
  <2> QED  BY <2>1, <2>2
<1> USE DEF Take, Begins, Goto, ThenReconcile
<1>5. CASE OnStart
  BY <1>2, <1>5 DEF OnStart
<1>6. CASE OnTimer \/ OnPoke
  BY <1>2, <1>6 DEF OnTimer, OnPoke
<1>7. CASE OnLeafOff
  BY <1>2, <1>7 DEF OnLeafOff
<1>8. CASE OnRootOff \/ OnVacation
  BY <1>2, <1>4, <1>8 DEF OnRootOff, OnVacation
<1>9. CASE OnRevoke
  BY <1>2, <1>4, <1>9 DEF OnRevoke
<1>10. CASE OnHazard
  BY <1>2, <1>4, <1>10 DEF OnHazard
<1>11. CASE OnEnd
  BY <1>2, <1>3, <1>11 DEF OnEnd
<1>12. CASE OnDismiss
  BY <1>2, <1>3, <1>12 DEF OnDismiss
<1>13. CASE OnAdd \/ OnDelete
  BY <1>2, <1>13 DEF OnAdd, OnDelete
<1>14. CASE OnStop
  BY <1>2, <1>14 DEF OnStop
<1>15. CASE OnUnload
  BY <1>2, <1>3, <1>15 DEF OnUnload
<1> QED  BY <1>5, <1>6, <1>7, <1>8, <1>9, <1>10, <1>11, <1>12, <1>13, <1>14,
            <1>15 DEF Handlers

\* Whatever happens around the coordinator leaves its handler alone.
LEMMA EnvironmentKeepsStored ==
    ASSUME StoredInv, Users \/ Machine, ~Die
    PROVE  StoredInv'
<1>1. SUFFICES UNCHANGED <<st, disk, stack>>
  BY DEF StoredInv, Closing
<1>2. CASE Users
  BY <1>2 DEF Users, LeafOff, LeafOn, SetVacation, SetRoom, PblRevoke, Command, Still
<1>3. CASE Machine
  BY <1>3 DEF Machine, Tick, FireTimer, Poke, PblExpire, Stop, Unload, Boot,
              CoreRunning, Still
<1> QED  BY <1>2, <1>3

\* At every moment either the state is stored or the handler at work still
\* has a save in front of it, in every behaviour of the coordinator.
THEOREM StoredInvariant == Spec => []StoredInv
<1>1. Init => StoredInv
  BY DEF Init, StoredInv
<1>2. StoredInv /\ [Next]_vars => StoredInv'
  <2> SUFFICES ASSUME StoredInv, [Next]_vars PROVE StoredInv'
    OBVIOUS
  <2>1. CASE UNCHANGED vars
    BY <2>1 DEF vars, StoredInv, Closing
  <2>2. CASE Handlers
    BY <2>2, HandlersKeepStored
  <2>3. CASE Stages
    BY <2>3, StagesClose, ClosingSuffices, SavesKeepStored
  <2>4. CASE Answers
    BY <2>4, AnswersClose, ClosingSuffices, SavesKeepStored
  <2>5. CASE Users \/ Machine
    BY <2>5, EnvironmentKeepsStored, SavesKeepStored
  <2> QED  BY <2>1, <2>2, <2>3, <2>4, <2>5 DEF Next
<1> QED  BY <1>1, <1>2, PTL DEF Spec

\* Whatever handlers, faults, stops and crashes interleave: when no handler
\* runs, the Store holds the profile state the coordinator believes in, so
\* every path of every handler ends in a save (_finish_locked,
\* _async_persist_stop, async_shutdown).
THEOREM CrashLosesNothing == Spec => []StoredIsCurrent
<1>1. StoredInv => StoredIsCurrent
  BY DEF StoredInv, StoredIsCurrent, Settled, Idle
<1> QED  BY <1>1, StoredInvariant, PTL

-----------------------------------------------------------------------------
(***************************************************************************)
(* The stages that the handler at work has left.  Which of the stages that *)
(* are not plain these are says what the handler is doing.                 *)
(***************************************************************************)
StagesOf(s) == {s[i] : i \in 1 .. Len(s)}
Soon(x) == x \in StagesOf(stack)

\* The stages of plain sequences are plain.
LEMMA PlainStages ==
    ASSUME NEW s \in Seq(Plain)
    PROVE  StagesOf(s) \subseteq Plain
<1>1. \A i \in 1 .. Len(s) : s[i] \in Plain
  BY ElementOfSeq, LenProperties
<1> QED  BY <1>1 DEF StagesOf

\* No stages, and one stage more.
LEMMA StagesOfOne ==
    ASSUME NEW s \in Seq(StageNames), NEW a \in StageNames
    PROVE  StagesOf(<<>>) = {} /\ StagesOf(<<a>> \o s) = {a} \cup StagesOf(s)
<1> DEFINE t == <<a>> \o s
<1>1. <<a>> \in Seq(StageNames) /\ Len(s) \in Nat
  BY LenProperties
<1>2. /\ t \in Seq(StageNames) /\ Len(t) = 1 + Len(s)
      /\ t[1] = a /\ \A i \in 2 .. Len(t) : t[i] = s[i - 1]
  BY <1>1, ConcatProperties
<1> HIDE DEF t
<1>3. ASSUME NEW x \in StagesOf(t) PROVE x \in {a} \cup StagesOf(s)
  <2>1. PICK i \in 1 .. Len(t) : x = t[i]
    BY <1>3 DEF StagesOf
  <2>2. i = 1 \/ (i \in 2 .. Len(t) /\ i - 1 \in 1 .. Len(s))
    BY <1>1, <1>2
  <2> QED  BY <1>2, <2>1, <2>2 DEF StagesOf
<1>4. ASSUME NEW x \in StagesOf(s) PROVE x \in StagesOf(t)
  <2>1. PICK i \in 1 .. Len(s) : x = s[i]
    BY <1>4 DEF StagesOf
  <2>2. i + 1 \in 2 .. Len(t) /\ t[i + 1] = s[(i + 1) - 1] /\ (i + 1) - 1 = i
    BY <1>1, <1>2
  <2>3. i + 1 \in 1 .. Len(t)
    BY <2>2
  <2> QED  BY <2>1, <2>2, <2>3 DEF StagesOf
<1>5. a \in StagesOf(t)
  <2>1. 1 \in 1 .. Len(t)
    BY <1>1, <1>2
  <2> QED  BY <1>2, <2>1 DEF StagesOf
<1>6. StagesOf(t) = {a} \cup StagesOf(s)
  BY <1>3, <1>4, <1>5
<1>7. StagesOf(<<>>) = {}
  BY DEF StagesOf
<1> QED  BY <1>6, <1>7 DEF t

\* Two stages more.
LEMMA StagesOfTwo ==
    ASSUME NEW s \in Seq(StageNames), NEW a \in StageNames, NEW b \in StageNames
    PROVE  StagesOf(<<a, b>> \o s) = {a, b} \cup StagesOf(s)
<1>1. /\ <<a>> \in Seq(StageNames) /\ <<b>> \in Seq(StageNames)
      /\ <<b>> \o s \in Seq(StageNames)
  BY ConcatProperties
<1>2. <<a, b>> \o s = <<a>> \o (<<b>> \o s)
  <2>1. <<a, b>> = <<a>> \o <<b>>
    BY Joined
  <2> QED  BY <1>1, <2>1, ConcatAssociative
<1>3. /\ StagesOf(<<a>> \o (<<b>> \o s)) = {a} \cup StagesOf(<<b>> \o s)
      /\ StagesOf(<<b>> \o s) = {b} \cup StagesOf(s)
  BY <1>1, StagesOfOne
<1> QED  BY <1>2, <1>3

\* The release that giving a run up may need, and what follows it.
LEMMA StagesOfRelease ==
    ASSUME NEW s \in Seq(StageNames), NEW b \in StageNames, NEW x
    PROVE  StagesOf(ReleaseOf(x) \o <<b>> \o s)
             = {b} \cup StagesOf(s) \cup (IF x.gen = 0 THEN {} ELSE {"release"})
<1>1. "release" \in StageNames
  BY DEF StageNames
<1>2. CASE x.gen = 0
  <2>1. ReleaseOf(x) \o <<b>> = <<b>>
    BY <1>2, Joined DEF ReleaseOf
  <2> QED  BY <1>2, <2>1, StagesOfOne
<1>3. CASE x.gen # 0
  <2>1. ReleaseOf(x) \o <<b>> = <<"release", b>>
    BY <1>3, Joined DEF ReleaseOf
  <2>2. StagesOf(<<"release", b>> \o s) = {"release", b} \cup StagesOf(s)
    BY <1>1, StagesOfTwo
  <2>3. StagesOf(ReleaseOf(x) \o <<b>> \o s) = {"release", b} \cup StagesOf(s)
    BY <2>1, <2>2
  <2>4. (IF x.gen = 0 THEN {} ELSE {"release"}) = {"release"}
    BY <1>3
  <2> QED  BY <2>3, <2>4
<1> QED  BY <1>2, <1>3

\* The stage at work and the others.
LEMMA StagesAt ==
    ASSUME Inner, NEW a, At(a)
    PROVE  StagesOf(stack) = {a} \cup StagesOf(Rest)
<1>1. stack \in Seq(StageNames) /\ stack # <<>> /\ Head(stack) = a
  BY DEF Inner, Fits, At
<1>2. Rest \in Seq(StageNames) /\ a \in StageNames
  BY <1>1, HeadTailProperties DEF Rest
<1>3. stack = <<a>> \o Rest
  <2> DEFINE t == <<a>> \o Rest
  <2>1. /\ Len(Rest) = Len(stack) - 1 /\ Len(stack) \in Nat \ {0} /\ stack[1] = a
        /\ \A i \in 1 .. Len(Rest) : Rest[i] = stack[i + 1]
    BY <1>1, HeadTailProperties, EmptySeq, LenProperties DEF Rest
  <2>2. <<a>> \in Seq(StageNames)
    BY <1>2
  <2>3. /\ t \in Seq(StageNames) /\ Len(t) = Len(stack)
        /\ t[1] = a /\ \A i \in 2 .. Len(t) : t[i] = Rest[i - 1]
    BY <1>2, <2>1, <2>2, ConcatProperties
  <2> HIDE DEF t
  <2>4. ASSUME NEW i \in 1 .. Len(stack) PROVE stack[i] = t[i]
    <3>1. CASE i = 1
      BY <2>1, <2>3, <3>1
    <3>2. CASE i # 1
      <4>1. i \in 2 .. Len(t) /\ i - 1 \in 1 .. Len(Rest) /\ (i - 1) + 1 = i
        BY <2>1, <2>3, <3>2
      <4> QED  BY <2>1, <2>3, <4>1
    <3> QED  BY <3>1, <3>2
  <2>5. stack = t
    BY <1>1, <2>3, <2>4, SeqEqual
  <2> QED  BY <2>5 DEF t
<1> QED  BY <1>2, <1>3, StagesOfOne

\* After the stage at work only its partner is not plain, and it is not there
\* twice.
LEMMA StagesAfter ==
    ASSUME Inner, NEW a, At(a), NEW x \in StagesOf(Rest)
    PROVE  x \in Plain \/ <<a, x>> \in Pairs
<1>1. Fits(stack, run, job.prev) /\ stack # <<>> /\ Head(stack) = a
  BY DEF Inner, At
<1>2. /\ Rest \in Seq(StageNames) /\ Len(Rest) = Len(stack) - 1
      /\ \A i \in 1 .. Len(Rest) : Rest[i] = stack[i + 1]
      /\ Len(stack) \in Nat \ {0} /\ stack[1] = a
  BY <1>1, HeadTailProperties, EmptySeq, LenProperties DEF Fits, Rest
<1>3. PICK i \in 1 .. Len(Rest) : x = Rest[i]
  BY DEF StagesOf
<1>4. x = stack[i + 1] /\ i + 1 \in 2 .. Len(stack)
  BY <1>2, <1>3
<1>5. CASE i = 1
  BY <1>1, <1>2, <1>4, <1>5 DEF Fits
<1>6. CASE i # 1
  <2>1. i + 1 \in 3 .. Len(stack)
    BY <1>4, <1>6
  <2> QED  BY <1>1, <1>2, <1>4, <2>1 DEF Fits
<1> QED  BY <1>5, <1>6, <1>2, <1>4

\* The stage at work, and the partner before it, say what is to come.
LEMMA SoonAt ==
    ASSUME Inner, NEW a, At(a), NEW x, x \notin Plain
    PROVE  Soon(x) => x = a \/ <<a, x>> \in Pairs
BY StagesAt, StagesAfter DEF Soon

\* Whoever needs a run, now or next, has one.
LEMMA SoonNeeds ==
    ASSUME Inner, NEW x, Soon(x)
    PROVE  /\ x \in NeedRun => run \in Run
           /\ x \in NeedPrev => job.prev \in Run
<1>1. PICK i \in 1 .. Len(stack) : x = stack[i]
  BY DEF Soon, StagesOf
<1>2. Fits(stack, run, job.prev) /\ Len(stack) \in Nat
  BY LenProperties DEF Inner, Fits
<1>3. CASE i = 1
  BY <1>1, <1>2, <1>3 DEF Fits
<1>4. CASE i = 2
  <2>1. x \in Plain \/ <<stack[1], x>> \in Pairs
    BY <1>1, <1>2, <1>4 DEF Fits
  <2>2. x \in Plain => x \notin NeedRun /\ x \notin NeedPrev
    BY DEF Plain
  <2>3. CASE <<stack[1], x>> \in Pairs
    <3>1. /\ stack[1] \in NeedRun => run \in Run
          /\ stack[1] \in NeedPrev => job.prev \in Run
          /\ x \in Ends => run \in Run
      BY <1>1, <1>2, <1>4 DEF Fits
    <3> QED  BY <2>3, <3>1 DEF Pairs, NeedRun, NeedPrev, Ends
  <2> QED  BY <2>1, <2>2, <2>3
<1>5. CASE i \in 3 .. Len(stack)
  BY <1>1, <1>2, <1>5 DEF Fits, Plain
<1> QED  BY <1>2, <1>3, <1>4, <1>5

-----------------------------------------------------------------------------
(***************************************************************************)
(* What the shared parts of the stages do.  Special are the stages left    *)
(* that are not plain.                                                     *)
(***************************************************************************)
Special == StagesOf(stack) \ Plain

\* A run that observes the brightness of its lights changes its floor only.
LEMMA WatchedKeeps ==
    ASSUME lights \in [Leaf -> 0 .. Full], NEW r \in Run, NEW now
    PROVE  LET q == Watched(r, now)
           IN  /\ q \in Run /\ q.occs = r.occs /\ q.hold = r.hold /\ q.lease = r.lease
               /\ q.gen = r.gen /\ q.exp = r.exp /\ q.pending = r.pending
               /\ q.targets = r.targets /\ q.owned = r.owned /\ q.released = r.released
               /\ q.final = r.final /\ q.next = r.next /\ q.cmdAt = r.cmdAt
<1>1. Watched(r, now) \in Run
  BY WatchedType
<1>2. \/ Watched(r, now) = r
      \/ Watched(r, now) = [r EXCEPT !.floor = Later(r.floor, Later(1, TargetFloor(r.targets)))]
  BY DEF Watched, ObserveFloor, Run
<1> QED  BY <1>1, <1>2 DEF Run

\* A run that loses leaves keeps its lease and its occurrences.
LEMMA ReleaseLeavesKeeps ==
    ASSUME NEW r \in Run, NEW gone, ReleaseLeaves(r, gone) \in Run
    PROVE  LET q == ReleaseLeaves(r, gone)
           IN  /\ q.occs = r.occs /\ q.hold = r.hold /\ q.lease = r.lease
               /\ q.gen = r.gen /\ q.exp = r.exp /\ q.pending = r.pending
               /\ q.targets = r.targets \ gone
               /\ q.owned = IF gone \cap r.targets = {} THEN r.owned ELSE r.owned \ gone
               /\ q.released = r.released \cup (gone \cap r.targets)
<1> DEFINE q == ReleaseLeaves(r, gone)
<1>1. CASE gone \cap r.targets = {}
  BY <1>1 DEF ReleaseLeaves
<1>2. CASE gone \cap r.targets # {}
  <2>1. q = [r EXCEPT !.targets  = r.targets \ gone,
                      !.owned    = r.owned \ gone,
                      !.released = r.released \cup (gone \cap r.targets)]
    <3>1. ~(r.targets \subseteq gone)
      BY <1>2, NoRunAssumption DEF ReleaseLeaves
    <3> QED  BY <1>2, <3>1 DEF ReleaseLeaves, Run
  <2> QED  BY <1>2, <2>1 DEF Run
<1> QED  BY <1>1, <1>2

\* It remains the same run.
LEMMA ReleaseLeavesSame ==
    ASSUME NEW r \in Run, NEW gone, ReleaseLeaves(r, gone) \in Run
    PROVE  /\ ReleaseLeaves(r, gone).lease = r.lease /\ ReleaseLeaves(r, gone).gen = r.gen
           /\ ReleaseLeaves(r, gone).exp = r.exp /\ ReleaseLeaves(r, gone).pending = r.pending
           /\ ReleaseLeaves(r, gone).occs = r.occs /\ ReleaseLeaves(r, gone).hold = r.hold
<1>1. CASE gone \cap r.targets = {}
  BY <1>1 DEF ReleaseLeaves
<1>2. CASE gone \cap r.targets # {}
  <2>1. ~(r.targets \subseteq gone)
    BY <1>2, NoRunAssumption DEF ReleaseLeaves
  <2> QED  BY <1>2, <2>1 DEF ReleaseLeaves, Run
<1> QED  BY <1>1, <1>2

\* The stages left after a step.
LEMMA StagesNext == StagesOf(stack)' = StagesOf(stack')
BY DEF StagesOf

\* Stages left after plain ones, and with one or two in front of plain ones.
LEMMA SpecialPlain ==
    ASSUME stack' \in Seq(Plain) PROVE Special' = {}
BY PlainStages, StagesNext DEF Special

\* A call and the stage that looks at its answer, before plain ones.
LEMMA SpecialCall ==
    ASSUME NEW s \in Seq(Plain), NEW a \in StageNames, NEW b \in StageNames,
           stack' = <<a, b>> \o s
    PROVE  Special' = {a, b} \ Plain
<1>1. s \in Seq(StageNames)
  BY SeqDef DEF Plain
<1>2. StagesOf(stack)' = {a, b} \cup StagesOf(s) /\ StagesOf(s) \subseteq Plain
  BY <1>1, StagesOfTwo, PlainStages, StagesNext
<1> QED  BY <1>2 DEF Special

\* One stage before plain ones.
LEMMA SpecialOne ==
    ASSUME NEW s \in Seq(Plain), NEW a \in StageNames, stack' = <<a>> \o s
    PROVE  Special' = {a} \ Plain
<1>1. s \in Seq(StageNames)
  BY SeqDef DEF Plain
<1>2. StagesOf(stack)' = {a} \cup StagesOf(s) /\ StagesOf(s) \subseteq Plain
  BY <1>1, StagesOfOne, PlainStages, StagesNext
<1> QED  BY <1>2 DEF Special

\* A release, when there is something to release, before plain stages.
LEMMA SpecialRelease ==
    ASSUME NEW s \in Seq(Plain), NEW b \in StageNames \ Plain, NEW x,
           stack' = ReleaseOf(x) \o <<b>> \o s
    PROVE  Special' = {b} \cup (IF x.gen = 0 THEN {} ELSE {"release"})
<1>1. s \in Seq(StageNames)
  BY SeqDef DEF Plain
<1>2. /\ StagesOf(stack)' = {b} \cup StagesOf(s) \cup (IF x.gen = 0 THEN {} ELSE {"release"})
      /\ StagesOf(s) \subseteq Plain
  BY <1>1, StagesOfRelease, PlainStages, StagesNext
<1>3. "release" \notin Plain
  BY DEF Plain, NeedPrev
<1>4. CASE x.gen = 0
  BY <1>2, <1>4 DEF Special
<1>5. CASE x.gen # 0
  BY <1>2, <1>3, <1>5 DEF Special
<1> QED  BY <1>4, <1>5

\* An answer leaves what was to come after it.
LEMMA SpecialRest ==
    ASSUME Inner, NEW a, a \notin Plain, At(a), stack' = Rest
    PROVE  /\ Special = {a} \cup Special' /\ a \notin Special'
           /\ \A x \in Special' : <<a, x>> \in Pairs
<1>1. StagesOf(stack)' = StagesOf(Rest)
  BY StagesNext
<1>2. /\ StagesOf(stack) = {a} \cup StagesOf(Rest)
      /\ \A x \in StagesOf(Rest) : x \in Plain \/ <<a, x>> \in Pairs
  BY StagesAt, StagesAfter
<1>3. <<a, a>> \notin Pairs
  BY DEF Pairs
<1> QED  BY <1>1, <1>2, <1>3 DEF Special

\* At a stage that starts no pair it is the only one that is not plain.
LEMMA SpecialAt ==
    ASSUME Inner, NEW a, At(a), a \notin {"acquire", "release", "safeOff"}
    PROVE  Special = {a} \ Plain
<1>1. /\ StagesOf(stack) = {a} \cup StagesOf(Rest)
      /\ \A x \in StagesOf(Rest) : x \in Plain \/ <<a, x>> \in Pairs
  BY StagesAt, StagesAfter
<1>2. \A x : <<a, x>> \notin Pairs
  BY DEF Pairs
<1> QED  BY <1>1, <1>2 DEF Special

\* Giving a run up (_cancel_active_locked).
LEMMA CancelDoes ==
    ASSUME Inner, clock \in Nat, NEW p \in Profile, NEW user \in BOOLEAN,
           NEW revoked \in BOOLEAN, NEW off \in BOOLEAN, NEW rest \in Seq(Plain),
           Cancel(p, user, revoked, off, rest)
    PROVE  /\ st' \in Profile /\ st'.run = p.run /\ st'.terminal = p.terminal
           /\ st'.fence = p.fence /\ st'.cancel = p.cancel /\ revokeBy' = NoTime
           /\ p.run = NoRun => st' = p /\ job' = job /\ Special' = {}
           /\ p.run # NoRun =>
                /\ job'.prev = p.run /\ job'.now = job.now /\ job'.at = clock
                /\ job'.user = user /\ job'.off = off /\ job'.ok = job.ok
                /\ "cancelled" \in Special' /\ Special' \subseteq {"release", "cancelled"}
                /\ "release" \in Special' => ~revoked /\ p.run.gen # 0
<1>1. CASE p.run = NoRun
  BY <1>1, SpecialPlain DEF Cancel, Goto
<1>2. CASE p.run # NoRun
  <2>1. st' = [p EXCEPT !.alarms = p.alarms \ FiredAlarms(p.run)]
    BY <1>2 DEF Cancel, Profile
  <2>2. job' = [job EXCEPT !.at = clock, !.user = user, !.off = off, !.prev = p.run]
    BY <1>2 DEF Cancel
  <2>3. stack' = (IF revoked THEN <<>> ELSE ReleaseOf(p.run)) \o <<"cancelled">> \o rest
    BY <1>2 DEF Cancel, Goto
  <2>4. "cancelled" \in StageNames \ Plain
    BY DEF StageNames, Plain, NeedRun
  <2>5. /\ "cancelled" \in Special' /\ Special' \subseteq {"release", "cancelled"}
        /\ "release" \in Special' => ~revoked /\ p.run.gen # 0
    <3>1. CASE revoked
      <4>1. stack' = <<"cancelled">> \o rest
        BY <2>3, <3>1, Joined
      <4>2. Special' = {"cancelled"}
        BY <2>4, <4>1, SpecialOne
      <4> QED  BY <3>1, <4>2
    <3>2. CASE ~revoked
      <4>1. Special' = {"cancelled"} \cup (IF p.run.gen = 0 THEN {} ELSE {"release"})
        BY <2>3, <2>4, <3>2, SpecialRelease
      <4> QED  BY <3>2, <4>1
    <3> QED  BY <3>1, <3>2
  <2>6. /\ job'.prev = p.run /\ job'.now = job.now /\ job'.at = clock
        /\ job'.user = user /\ job'.off = off /\ job'.ok = job.ok
    BY <2>2 DEF Inner, Jobs
  <2>7. st' \in Profile /\ st'.run = p.run /\ st'.terminal = p.terminal
        /\ st'.fence = p.fence /\ st'.cancel = p.cancel
    BY <2>1 DEF Profile
  <2> QED  BY <1>2, <2>5, <2>6, <2>7 DEF Cancel
<1> QED  BY <1>1, <1>2

\* Keeping the run before plain stages.
LEMMA NoCancelDoes ==
    ASSUME NEW p, NEW rest \in Seq(Plain), NoCancel(p, rest)
    PROVE  st' = p /\ job' = job /\ revokeBy' = revokeBy /\ Special' = {}
BY SpecialPlain DEF NoCancel, Goto

\* Giving a recovery up (_fail_recovery_locked).
LEMMA FailRecoveryDoes ==
    ASSUME Inner, NEW r \in Run, NEW rest \in Seq(Plain), FailRecovery(r, rest)
    PROVE  /\ st' = [st EXCEPT !.run = r] /\ job' = [job EXCEPT !.prev = r]
           /\ Special' = {"failed"} \cup (IF r.gen = 0 THEN {} ELSE {"release"})
<1>1. "failed" \in StageNames \ Plain
  BY DEF StageNames, Plain, NeedPrev
<1> QED  BY <1>1, SpecialRelease DEF FailRecovery, Goto

\* Retrying it, or giving it up (_schedule_recovery_retry_locked).
LEMMA RetryOrFailDoes ==
    ASSUME Inner, NEW r \in Run, NEW rest \in Seq(Plain), RetryOrFail(r, rest)
    PROVE  \/ /\ st' = [st EXCEPT !.run = [r EXCEPT !.pending = TRUE]]
              /\ job' = job /\ Special' = {}
           \/ /\ st' = [st EXCEPT !.run = r] /\ job' = [job EXCEPT !.prev = r]
              /\ Special' = {"failed"} \cup (IF r.gen = 0 THEN {} ELSE {"release"})
BY FailRecoveryDoes, NoCancelDoes DEF RetryOrFail

\* Releasing a leaf (_release_foreign_off_leaf_locked).
LEMMA ReleaseLeafDoes ==
    ASSUME Inner, NEW l, NEW rest \in Seq(Plain), ReleaseLeaf(l, rest)
    PROVE  \/ /\ st' = st /\ job' = job /\ revokeBy' = revokeBy /\ Special' = {}
              /\ ~Active \/ l \notin run.targets
           \/ \E revoked \in BOOLEAN : Active /\ Cancel(st, TRUE, revoked, FALSE, rest)
           \/ /\ Active /\ run \in Run /\ pbl.status = "active"
              /\ ReleaseLeaves(run, {l}) \in Run
              /\ st' = [st EXCEPT !.run = ReleaseLeaves(run, {l})]
              /\ job' = job /\ revokeBy' = revokeBy
              /\ Special' = {"acquire"} /\ stack' = <<"acquire", "updated">> \o rest
<1>1. CASE ~Active
  BY <1>1, NoCancelDoes DEF ReleaseLeaf
<1>2. CASE Active
  <2>1. run \in Run
    BY <1>2, ActiveRun
  <2> DEFINE reduced == ReleaseLeaves(run, {l})
  <2>2. reduced = run => l \notin run.targets
    BY <2>1, NoRunAssumption DEF ReleaseLeaves, Run
  <2>3. CASE reduced = run /\ NoCancel(st, rest)
    BY <2>2, <2>3, NoCancelDoes
  <2>4. CASE /\ pbl.status = "active" /\ reduced # NoRun
             /\ NoCancel([st EXCEPT !.run = reduced], <<"acquire", "updated">> \o rest)
    <3>1. reduced \in Run
      BY <2>1, <2>4, ReleaseLeavesType
    <3> HIDE DEF reduced
    <3>2. /\ "acquire" \in StageNames /\ "updated" \in StageNames
          /\ "acquire" \notin Plain /\ "updated" \in Plain
      BY DEF StageNames, Plain, NeedRun, NeedPrev, FirstOnly
    <3>3. Special' = {"acquire"}
      BY <2>4, <3>2, SpecialCall DEF NoCancel, Goto
    <3> QED  BY <1>2, <2>1, <2>4, <3>1, <3>3 DEF NoCancel, Goto, reduced
  <2>5. CASE \E revoked \in BOOLEAN : Cancel(st, TRUE, revoked, FALSE, rest)
    BY <1>2, <2>5
  <2> QED  BY <1>2, <2>3, <2>4, <2>5 DEF ReleaseLeaf
<1> QED  BY <1>1, <1>2

-----------------------------------------------------------------------------
(***************************************************************************)
(* The fence of a cancellation.  What is planned lies behind the fence,    *)
(* for the episode of the cancelled run takes in whatever touches it; that *)
(* needs every run to have begun by the time its episode is computed.      *)
(***************************************************************************)
\* The episode of a run that is being given up is computed after it began.
CutBegun == /\ Soon("cancelled") => Begun(run, job.at)
            /\ Soon("ended") \/ Soon("fence") => Begun(job.prev, job.now)

\* A lease update that is refused only puts back what was over.
PutBack == Soon("merged") =>
    /\ job.prev # NoRun
    /\ \A o \in job.prev.occs \ run.occs : job.prev.hold[o] <= clock

FenceInner == /\ PlanApart(st, scheduled)
              /\ job.now <= clock /\ job.at <= clock
              /\ Begun(run, clock) /\ Begun(job.prev, clock)
              /\ CutBegun /\ PutBack

\* No timer has fired in the future.
Past(t) == {k \in Tasks : k.now <= t}

FenceOuter == /\ Begun(disk.run, clock)
              /\ queue \in Seq(Past(clock))

FenceInv == FenceInner /\ FenceOuter

\* The stages that FenceInner speaks of.
FenceStages == {"cancelled", "ended", "fence", "merged"}

\* None of them is plain.
LEMMA FenceSoon ==
    /\ \A x \in FenceStages : x \notin Plain /\ (Soon(x) <=> x \in Special)
    /\ \A x \in FenceStages : Soon(x)' <=> x \in Special'
BY DEF FenceStages, Plain, NeedRun, NeedPrev, Soon, Special

\* A step that starts no such stage.
LEMMA FenceQuiet ==
    ASSUME Inner, FenceInner, clock' = clock,
           st'.fence = st.fence, st.terminal \subseteq st'.terminal,
           scheduled' = scheduled, job'.now = job.now, job'.at = job.at,
           Begun(run', clock), Begun(job'.prev, clock), Special' \cap FenceStages = {}
    PROVE  FenceInner'
<1>1. PlanApart(st, scheduled)'
  BY DEF FenceInner, PlanApart
<1>2. CutBegun' /\ PutBack'
  BY FenceSoon DEF CutBegun, PutBack, FenceStages
<1> QED  BY <1>1, <1>2 DEF FenceInner, Begun

\* A step that gives a run up that had begun.
LEMMA FenceCancel ==
    ASSUME Inner, Outer, FenceInner, clock' = clock, scheduled' = scheduled,
           NEW p \in Profile, p.fence = st.fence, st.terminal \subseteq p.terminal,
           Begun(p.run, clock),
           NEW user \in BOOLEAN, NEW revoked \in BOOLEAN, NEW off \in BOOLEAN,
           NEW rest \in Seq(Plain), Cancel(p, user, revoked, off, rest)
    PROVE  FenceInner'
<1>1. clock \in Nat
  BY DEF Outer
<1>2. /\ st'.run = p.run /\ st'.terminal = p.terminal /\ st'.fence = p.fence
      /\ p.run = NoRun => job' = job /\ Special' = {}
      /\ p.run # NoRun =>
           /\ job'.prev = p.run /\ job'.now = job.now /\ job'.at = clock
           /\ "cancelled" \in Special' /\ Special' \subseteq {"release", "cancelled"}
  BY <1>1, CancelDoes
<1>3. CASE p.run = NoRun
  BY <1>2, <1>3, FenceQuiet DEF FenceInner, run
<1>4. CASE p.run # NoRun
  <2>1. PlanApart(st, scheduled)'
    BY <1>2 DEF FenceInner, PlanApart
  <2>2. Begun(run, clock)' /\ Begun(run, job.at)' /\ Begun(job.prev, clock)'
    BY <1>2, <1>4 DEF run, Begun
  <2>3. CutBegun' /\ PutBack'
    BY <1>2, <1>4, <2>2, FenceSoon DEF CutBegun, PutBack, FenceStages
  <2> QED  BY <1>1, <1>2, <1>4, <2>1, <2>2, <2>3 DEF FenceInner
<1> QED  BY <1>3, <1>4

\* Keeping the profile, or a run with the same occurrences.
LEMMA FenceNoCancel ==
    ASSUME Inner, FenceInner, clock' = clock, scheduled' = scheduled,
           NEW p, p.fence = st.fence, st.terminal \subseteq p.terminal,
           Begun(p.run, clock), NEW rest \in Seq(Plain), NoCancel(p, rest)
    PROVE  FenceInner'
<1>1. st' = p /\ job' = job /\ Special' = {}
  BY NoCancelDoes
<1> QED  BY <1>1, FenceQuiet DEF FenceInner, run

\* A recovery that is given up or retried.
LEMMA FenceRetry ==
    ASSUME Inner, Outer, FenceInner, clock' = clock, scheduled' = scheduled,
           NEW r \in Run, Begun(r, clock), NEW rest \in Seq(Plain),
           \/ FailRecovery(r, rest) \/ RetryOrFail(r, rest) \/ BlockedRecovery(r, rest)
    PROVE  FenceInner'
<1>0. st \in Profile /\ job \in Jobs
  BY DEF Inner
<1>1. CASE FailRecovery(r, rest) \/ RetryOrFail(r, rest)
  <2>1. CASE /\ st' = [st EXCEPT !.run = [r EXCEPT !.pending = TRUE]]
             /\ job' = job /\ Special' = {}
    <3>1. /\ st'.fence = st.fence /\ st'.terminal = st.terminal
          /\ run' = [r EXCEPT !.pending = TRUE]
      BY <1>0, <2>1 DEF Profile, run
    <3>2. run'.occs = r.occs /\ r # NoRun
      BY <3>1, NoRunAssumption DEF Run
    <3>3. Begun(run', clock) /\ Begun(job'.prev, clock)
      BY <2>1, <3>2 DEF FenceInner, Begun
    <3> QED  BY <2>1, <3>1, <3>3, FenceQuiet
  <2>2. CASE /\ st' = [st EXCEPT !.run = r] /\ job' = [job EXCEPT !.prev = r]
             /\ Special' = {"failed"} \cup (IF r.gen = 0 THEN {} ELSE {"release"})
    <3>1. /\ st'.fence = st.fence /\ st'.terminal = st.terminal /\ run' = r
      BY <1>0, <2>2 DEF Profile, run
    <3>2. job'.now = job.now /\ job'.at = job.at /\ job'.prev = r
      BY <1>0, <2>2 DEF Jobs
    <3>3. Special' \cap FenceStages = {}
      <4>1. Special' \subseteq {"failed", "release"}
        BY <2>2
      <4> QED  BY <4>1 DEF FenceStages
    <3> QED  BY <3>1, <3>2, <3>3, FenceQuiet
  <2> QED  BY <1>1, <2>1, <2>2, FailRecoveryDoes, RetryOrFailDoes
<1>2. CASE Cancel([st EXCEPT !.run = r], FALSE, FALSE, VacationBlocks, rest)
  <2>1. /\ [st EXCEPT !.run = r] \in Profile
        /\ [st EXCEPT !.run = r].fence = st.fence
        /\ [st EXCEPT !.run = r].terminal = st.terminal
        /\ [st EXCEPT !.run = r].run = r
    BY <1>0 DEF Profile
  <2>2. VacationBlocks \in BOOLEAN
    BY DEF VacationBlocks, Available
  <2> QED  BY <1>2, <2>1, <2>2, FenceCancel
<1> QED  BY <1>1, <1>2 DEF BlockedRecovery

\* Releasing a leaf.
LEMMA FenceReleaseLeaf ==
    ASSUME Inner, Outer, FenceInner, clock' = clock, scheduled' = scheduled,
           NEW l, NEW rest \in Seq(Plain), ReleaseLeaf(l, rest)
    PROVE  FenceInner'
<1>0. st \in Profile /\ Begun(run, clock)
  BY DEF Inner, FenceInner
<1>1. CASE \E revoked \in BOOLEAN : Cancel(st, TRUE, revoked, FALSE, rest)
  <2>1. PICK revoked \in BOOLEAN : Cancel(st, TRUE, revoked, FALSE, rest)
    BY <1>1
  <2> QED  BY <1>0, <2>1, FenceCancel DEF run
<1>2. CASE st' = st /\ job' = job /\ Special' = {}
  BY <1>2, <1>0, FenceQuiet DEF FenceInner, run
<1>3. CASE /\ run \in Run /\ ReleaseLeaves(run, {l}) \in Run
           /\ st' = [st EXCEPT !.run = ReleaseLeaves(run, {l})]
           /\ job' = job /\ Special' = {"acquire"}
  <2> DEFINE q == ReleaseLeaves(run, {l})
  <2>0. q.occs = run.occs
    BY <1>3, ReleaseLeavesKeeps
  <2> HIDE DEF q
  <2>1. run'.occs = run.occs /\ st'.fence = st.fence /\ st'.terminal = st.terminal
    <3>1. st' = [st EXCEPT !.run = q] /\ run' = q
      BY <1>0, <1>3 DEF q, Profile, run
    <3> QED  BY <1>0, <2>0, <3>1 DEF Profile
  <2>2. Begun(run', clock) /\ Begun(job'.prev, clock)
    BY <1>0, <1>3, <2>1, NoRunAssumption DEF Begun, FenceInner
  <2>3. Special' \cap FenceStages = {}
    BY <1>3 DEF FenceStages
  <2> QED  BY <1>3, <2>1, <2>2, <2>3, FenceQuiet
<1> QED  BY <1>1, <1>2, <1>3, ReleaseLeafDoes

-----------------------------------------------------------------------------
\* A step that computes the schedule anew.
LEMMA FenceFresh ==
    ASSUME Inner, Outer, FenceInner, clock' = clock, NEW t,
           scheduled' = Scheduled(st', t), run' = run,
           job'.now <= clock, job'.at <= clock,
           job'.prev = NoRun \/ job'.prev = job.prev, Special' = {}
    PROVE  FenceInner'
<1>1. PlanApart(st', scheduled')
  BY ScheduledApart
<1>2. PlanApart(st, scheduled)'
  BY <1>1 DEF PlanApart
<1>3. CutBegun' /\ PutBack'
  BY FenceSoon DEF CutBegun, PutBack, FenceStages
<1>4. Begun(run, clock)' /\ Begun(job.prev, clock)'
  BY DEF FenceInner, Begun
<1> QED  BY <1>2, <1>3, <1>4 DEF FenceInner

\* What a stage of the fence invariant may rely on.
LEMMA FenceBase ==
    ASSUME Inner, Outer, FenceInner
    PROVE  /\ st \in Profile /\ job \in Jobs /\ job.now \in Int /\ job.at \in Int
           /\ clock \in Nat /\ job.now <= clock /\ job.at <= clock
           /\ Begun(run, clock) /\ Begun(job.prev, clock)
           /\ scheduled \in SUBSET Occ /\ run \in Run \cup {NoRun}
           /\ job.prev \in Run \cup {NoRun}
BY DEF Inner, Outer, FenceInner, Jobs, Profile, run

\* Quiet steps keep the clock.
LEMMA FenceReconcile ==
    ASSUME Inner, Outer, FenceInner, Reconcile PROVE FenceInner'
<1>1. clock' = clock /\ scheduled' = Scheduled(st', job.now) /\ job' = job
  BY DEF Reconcile, Quiet, world
<1>2. run' = run
  BY FenceBase, RefreshedType DEF Reconcile, run
<1>3. Special' = {}
  BY PipelinePlain, SpecialPlain DEF Reconcile, Goto
<1> QED  BY <1>1, <1>2, <1>3, FenceBase, FenceFresh

\* Finishing computes the schedule anew.
LEMMA FenceFinish ==
    ASSUME Inner, Outer, FenceInner, Finish PROVE FenceInner'
<1>1. clock' = clock /\ scheduled' = Scheduled(st', job.now)
  BY DEF Finish, Quiet, world
<1>2. run' = run
  BY FenceBase, RefreshedType DEF Finish, run
<1>3. (job' = job /\ stack' = <<"save">>) \/ (job' = NoJob /\ stack' = <<>>)
  BY DEF Finish, Goto
<1>4. stack' \in Seq(Plain)
  <2>1. <<"save">> \in Seq(Plain)
    BY DEF Plain, StageNames, NeedRun, NeedPrev, FirstOnly
  <2>2. <<>> \in Seq(Plain)
    BY EmptySeq
  <2> QED  BY <1>3, <2>1, <2>2
<1>5. Special' = {}
  BY <1>4, SpecialPlain
<1>6. job'.now <= clock /\ job'.at <= clock /\ (job'.prev = NoRun \/ job'.prev = job.prev)
  BY <1>3, FenceBase DEF NoJob, NoTime
<1> QED  BY <1>1, <1>2, <1>5, <1>6, FenceFresh

\* An observed off may cost the run a leaf, or end it.
LEMMA FenceDrain ==
    ASSUME Inner, Outer, FenceInner, Drain PROVE FenceInner'
<1>1. Rest \in Seq(Plain) /\ stack \in Seq(Plain)
  BY AtPlain, AtAllPlain DEF Drain, Plain, StageNames, NeedRun, NeedPrev, FirstOnly
<1>2. clock' = clock /\ scheduled' = scheduled
  BY DEF Drain, Quiet, world
<1>3. \/ NoCancel(st, Rest) \/ NoCancel(st, stack)
      \/ \E l \in Leaf : ReleaseLeaf(l, stack)
  BY DEF Drain
<1> QED  BY <1>1, <1>2, <1>3, FenceBase, FenceNoCancel, FenceReleaseLeaf DEF run

\* A recovery that waits, is tried again or is given up.
LEMMA FencePending ==
    ASSUME Inner, Outer, FenceInner, Pending PROVE FenceInner'
<1>1. Rest \in Seq(Plain) /\ <<"finish">> \in Seq(Plain)
  BY AtPlain, PipelinePlain DEF Pending
<1>2. clock' = clock /\ scheduled' = scheduled
  BY DEF Pending, Quiet, world
<1>3. CASE NoCancel(st, Rest) \/ NoCancel(st, <<"finish">>)
  BY <1>1, <1>2, <1>3, FenceBase, FenceNoCancel DEF run
<1>4. CASE Active /\ (FailRecovery(run, <<"finish">>) \/ BlockedRecovery(run, <<"finish">>))
  BY <1>1, <1>2, <1>4, FenceBase, ActiveRun, FenceRetry
<1>5. CASE NoCancel(st, <<"acquire", "reacquired">> \o Rest)
  <2>1. st' = st /\ job' = job /\ stack' = <<"acquire", "reacquired">> \o Rest
    BY <1>5 DEF NoCancel, Goto
  <2>2. Special' = {"acquire", "reacquired"} \ Plain
    BY <1>1, <2>1, SpecialCall DEF StageNames
  <2> QED  BY <1>2, <2>1, <2>2, FenceBase, FenceQuiet DEF FenceStages, run
<1> QED  BY <1>3, <1>4, <1>5 DEF Pending

\* The answer to a recovery.
LEMMA FenceAcquired ==
    ASSUME Inner, Outer, FenceInner, Reacquired \/ Recovered PROVE FenceInner'
<1>1. Rest \in Seq(Plain) /\ <<"finish">> \in Seq(Plain) /\ run \in Run
  BY AtPlain, AtNeeds, PipelinePlain DEF Reacquired, Recovered, NeedRun
<1>2. clock' = clock /\ scheduled' = scheduled
  BY DEF Reacquired, Recovered, Quiet, world
<1>3. CASE NoCancel([st EXCEPT !.run = Resumed], Rest)
  <2> DEFINE p == [st EXCEPT !.run = Resumed]
  <2>1. p.fence = st.fence /\ p.terminal = st.terminal /\ p.run = Resumed
    BY FenceBase DEF Profile
  <2>2. Resumed.occs = run.occs
    BY <1>1 DEF Resumed, RefreshHolds, Run
  <2>3. Begun(p.run, clock)
    BY <1>1, <2>1, <2>2, FenceBase, NoRunAssumption DEF Begun
  <2> HIDE DEF p
  <2> QED  BY <1>1, <1>2, <1>3, <2>1, <2>3, FenceNoCancel DEF p
<1>4. CASE NotRecovered(Rest) \/ NotRecovered(<<"finish">>)
  BY <1>1, <1>2, <1>4, FenceBase, FenceRetry DEF NotRecovered
<1> QED  BY <1>3, <1>4 DEF Reacquired, Recovered

\* What joins is due, so it has begun.
LEMMA FenceJoinDue ==
    ASSUME Inner, Outer, FenceInner, JoinDue PROVE FenceInner'
<1>1. Rest \in Seq(Plain)
  BY AtPlain DEF JoinDue
<1>2. clock' = clock /\ scheduled' = scheduled
  BY DEF JoinDue, Quiet, world
<1>3. CASE ~Active
  BY <1>1, <1>2, <1>3, FenceBase, FenceNoCancel DEF JoinDue, run
<1>4. CASE Active
  <2> DEFINE r == Watched(run, job.now)
             due == (Due \ r.occs) \cap ConnectedEpisode(r, Due, job.now).ids
             over == OverBudget(r, due)
             p == [st EXCEPT !.run = r, !.terminal = @ \cup over]
             m == MergeOccurrences(r, due \ over, job.now)
  <2>1. run \in Run /\ r \in Run /\ r.occs = run.occs
    BY <1>4, ActiveRun, WatchedKeeps DEF Outer
  <2>2. Begun(r, clock)
    <3> HIDE DEF r
    <3> QED  BY <2>1, FenceBase, NoRunAssumption DEF Begun
  <2>3. \A o \in due : o \in Occ /\ RampStart[o] <= job.now
    BY FenceBase DEF Due
  <2>4. /\ p \in Profile /\ p.run = r /\ p.fence = st.fence /\ st.terminal \subseteq p.terminal
    <3>1. over \in SUBSET Occ
      BY <2>3 DEF OverBudget
    <3> HIDE DEF over, r
    <3> QED  BY <2>1, <3>1, FenceBase DEF Profile
  <2>5. m.occs = r.occs \cup (due \ over)
    BY <2>1 DEF MergeOccurrences, Run
  <2>6. \/ Cancel([st EXCEPT !.run = r], FALSE, FALSE, vacation = "on", Rest)
        \/ NoCancel(p, Rest)
        \/ /\ st' = [p EXCEPT !.run = m] /\ job' = [job EXCEPT !.prev = r]
           /\ stack' = <<"acquire", "merged">> \o Rest
    BY <1>4 DEF JoinDue, Goto
  <2> HIDE DEF r, due, over, p, m
  <2>7. CASE Cancel([st EXCEPT !.run = r], FALSE, FALSE, vacation = "on", Rest)
    <3>1. /\ [st EXCEPT !.run = r] \in Profile /\ [st EXCEPT !.run = r].run = r
          /\ [st EXCEPT !.run = r].fence = st.fence
          /\ [st EXCEPT !.run = r].terminal = st.terminal
      BY <2>1, FenceBase DEF Profile
    <3> DEFINE q == [st EXCEPT !.run = r]
               on == vacation = "on"
    <3>2. on \in BOOLEAN
      OBVIOUS
    <3>3. Cancel(q, FALSE, FALSE, on, Rest)
      BY <2>7
    <3> HIDE DEF q, on
    <3> QED  BY <1>1, <1>2, <2>2, <3>1, <3>2, <3>3, FenceCancel DEF q
  <2>8. CASE NoCancel(p, Rest)
    BY <1>1, <1>2, <2>2, <2>4, <2>8, FenceNoCancel
  <2>9. CASE /\ st' = [p EXCEPT !.run = m] /\ job' = [job EXCEPT !.prev = r]
             /\ stack' = <<"acquire", "merged">> \o Rest
    <3>1. /\ st'.fence = st.fence /\ st.terminal \subseteq st'.terminal
          /\ run' = m /\ job'.now = job.now /\ job'.at = job.at /\ job'.prev = r
      BY <2>4, <2>9, FenceBase DEF Profile, Jobs, run
    <3>2. Special' = {"acquire", "merged"} \ Plain
      BY <1>1, <2>9, SpecialCall DEF StageNames
    <3>3. PlanApart(st, scheduled)'
      BY <1>2, <3>1 DEF FenceInner, PlanApart
    <3>4. Begun(run, clock)' /\ Begun(job.prev, clock)'
      <4>1. \A o \in m.occs : RampStart[o] <= clock
        BY <2>1, <2>2, <2>3, <2>5, FenceBase, NoRunAssumption, TimeAssumption
           DEF Begun
      <4> QED  BY <1>2, <2>2, <3>1, <4>1 DEF Begun
    <3>5. CutBegun' /\ PutBack'
      <4>1. r # NoRun /\ r.occs \subseteq m.occs
        BY <2>1, <2>5, NoRunAssumption
      <4> QED  BY <3>1, <3>2, <4>1, FenceSoon DEF CutBegun, PutBack, FenceStages
    <3> QED  BY <1>2, <3>1, <3>3, <3>4, <3>5, FenceBase DEF FenceInner
  <2> QED  BY <2>6, <2>7, <2>8, <2>9
<1> QED  BY <1>3, <1>4

\* The answers that keep, put back or end the run.
LEMMA FenceMerged ==
    ASSUME Inner, Outer, FenceInner, Merged \/ CompletedRun \/ Started \/ Failed \/ Abandoned
    PROVE  FenceInner'
<1>1. Rest \in Seq(Plain)
  BY AtPlain DEF Merged, CompletedRun, Started, Failed, Abandoned
<1>2. clock' = clock /\ scheduled' = scheduled /\ stack' = Rest
  BY DEF Merged, CompletedRun, Started, Failed, Abandoned, Quiet, world, Goto, NoCancel
<1>3. Special' = {}
  BY <1>1, <1>2, SpecialPlain
<1>4. \/ job' = [job EXCEPT !.prev = NoRun] \/ job' = job
  BY DEF Merged, CompletedRun, Started, Failed, Abandoned, NoCancel
<1>5. job'.now = job.now /\ job'.at = job.at /\ Begun(job'.prev, clock)
  BY <1>4, FenceBase DEF Jobs, Begun
<1>6. /\ st'.fence = st.fence /\ st.terminal \subseteq st'.terminal
      /\ run' \in {run, NoRun, job.prev}
  <2>1. CASE Merged
    BY <2>1, FenceBase DEF Merged, Profile, run
  <2>2. CASE CompletedRun \/ Failed \/ Abandoned
    BY <2>2, FenceBase DEF CompletedRun, Failed, Abandoned, Profile, run
  <2>3. CASE Started
    BY <2>3, FenceBase DEF Started, NoCancel, Profile, run
  <2> QED  BY <2>1, <2>2, <2>3
<1>7. Begun(run', clock)
  BY <1>6, FenceBase DEF Begun
<1> QED  BY <1>2, <1>3, <1>5, <1>6, <1>7, FenceQuiet

\* Occurrences leave a run only when their hold is over.
LEMMA FenceComplete ==
    ASSUME Inner, Outer, FenceInner, Complete PROVE FenceInner'
<1> DEFINE done == IF Active THEN Completed(run, job.now) ELSE {}
           p == [st EXCEPT !.alarms = @ \ done,
                           !.terminal = @ \cup done,
                           !.missed = @ \cup (done \ run.final)]
<1>1. Rest \in Seq(Plain)
  BY AtPlain DEF Complete
<1>2. clock' = clock /\ scheduled' = scheduled
  BY DEF Complete, Quiet, world
<1>3. CASE done = {}
  BY <1>1, <1>2, <1>3, FenceBase, FenceNoCancel DEF Complete, run
<1>4. CASE done # {}
  <2>1. run \in Run /\ Active /\ done = Completed(run, job.now)
    BY <1>4, ActiveRun
  <2>2. /\ job' = [job EXCEPT !.prev = run]
        /\ \/ st' = p /\ stack' = ReleaseOf(run) \o <<"completed">> \o Rest
           \/ /\ run.occs # done /\ st' = [p EXCEPT !.run = Without(run, done)]
              /\ stack' = <<"acquire", "merged">> \o Rest
    BY <1>4 DEF Complete, Goto
  <2>3. \A o \in done : o \in run.occs /\ run.hold[o] <= clock
    <3>1. \A o \in done : o \in run.occs /\ job.now >= run.hold[o] /\ run.hold[o] \in Int
      BY <2>1 DEF Completed, Run
    <3> QED  BY <3>1, FenceBase
  <2> HIDE DEF done
  <2>4. p.fence = st.fence /\ st.terminal \subseteq p.terminal /\ p.run = run
    BY FenceBase DEF Profile, run
  <2>5. p = [p EXCEPT !.run = run] /\ (\A r : [p EXCEPT !.run = r].run = r
             /\ [p EXCEPT !.run = r].fence = p.fence
             /\ [p EXCEPT !.run = r].terminal = p.terminal)
    BY FenceBase DEF Profile, run
  <2> HIDE DEF p
  <2>6. job'.now = job.now /\ job'.at = job.at /\ job'.prev = run
    BY <2>2, FenceBase DEF Jobs
  <2>7. CASE st' = p /\ stack' = ReleaseOf(run) \o <<"completed">> \o Rest
    <3>1. "completed" \in StageNames \ Plain
      BY DEF StageNames, Plain, NeedRun
    <3>2. Special' = {"completed"} \cup (IF run.gen = 0 THEN {} ELSE {"release"})
      BY <1>1, <2>7, <3>1, SpecialRelease
    <3>3. Special' \cap FenceStages = {}
      <4>1. Special' \subseteq {"completed", "release"}
        BY <3>2
      <4> QED  BY <4>1 DEF FenceStages
    <3>4. run' = run
      BY <2>4, <2>7 DEF run
    <3> QED  BY <1>2, <2>4, <2>6, <2>7, <3>3, <3>4, FenceBase, FenceQuiet
  <2>8. CASE /\ run.occs # done /\ st' = [p EXCEPT !.run = Without(run, done)]
             /\ stack' = <<"acquire", "merged">> \o Rest
    <3>1. Special' = {"acquire", "merged"} \ Plain
      BY <1>1, <2>8, SpecialCall DEF StageNames
    <3>2. run' = Without(run, done) /\ st'.fence = st.fence /\ st.terminal \subseteq st'.terminal
      BY <2>4, <2>5, <2>8 DEF run
    <3>3. run'.occs = run.occs \ done
      <4>1. ~(run.occs \subseteq done)
        BY <2>3, <2>8
      <4> QED  BY <2>1, <3>2, <4>1 DEF Without, Run
    <3>4. PlanApart(st, scheduled)'
      BY <1>2, <3>2 DEF FenceInner, PlanApart
    <3>5. Begun(run, clock)' /\ Begun(job.prev, clock)'
      BY <1>2, <2>1, <2>6, <3>3, FenceBase, NoRunAssumption DEF Begun
    <3>6. CutBegun' /\ PutBack'
      <4>1. run # NoRun
        BY <2>1, NoRunAssumption
      <4> QED  BY <1>2, <2>3, <2>6, <3>1, <3>3, <4>1, FenceSoon DEF CutBegun, PutBack, FenceStages
    <3> QED  BY <1>2, <2>6, <3>4, <3>5, <3>6, FenceBase DEF FenceInner
  <2> QED  BY <2>2, <2>7, <2>8
<1> QED  BY <1>3, <1>4

-----------------------------------------------------------------------------
\* A step of a handler that works on other locals, before no such stage.
LEMMA FenceStart ==
    ASSUME Inner, Outer, FenceInner, clock' = clock,
           st'.fence = st.fence, st.terminal \subseteq st'.terminal,
           scheduled' = scheduled, job'.now <= clock, job'.at <= clock,
           Begun(run', clock), Begun(job'.prev, clock), Special' \cap FenceStages = {}
    PROVE  FenceInner'
<1>1. PlanApart(st, scheduled)'
  BY DEF FenceInner, PlanApart
<1>2. CutBegun' /\ PutBack'
  BY FenceSoon DEF CutBegun, PutBack, FenceStages
<1> QED  BY <1>1, <1>2 DEF FenceInner, Begun

\* An answer that keeps the occurrences of the run.
LEMMA FenceRest ==
    ASSUME Inner, Outer, FenceInner, NEW a, a \notin Plain, At(a), stack' = Rest,
           clock' = clock, scheduled' = scheduled,
           st'.fence = st.fence, st.terminal \subseteq st'.terminal,
           job'.now = job.now, job'.at = job.at, job'.prev = job.prev,
           run' = run \/ (run \in Run /\ run'.occs = run.occs)
    PROVE  FenceInner'
<1>1. PlanApart(st, scheduled)'
  BY DEF FenceInner, PlanApart
<1>2. /\ Begun(run', clock) /\ Begun(job'.prev, clock)
      /\ \A t : Begun(run, t) => Begun(run', t)
  BY FenceBase, NoRunAssumption DEF Begun
<1>3. \A x \in FenceStages : x \in Special' => x \in Special
  BY SpecialRest
<1>4. CutBegun'
  BY <1>2, <1>3, FenceSoon DEF CutBegun, FenceInner, FenceStages, Begun
<1>5. PutBack'
  BY <1>3, FenceSoon DEF PutBack, FenceInner, FenceStages
<1> QED  BY <1>1, <1>2, <1>4, <1>5 DEF FenceInner, Begun

\* Starting a run: what is due has begun.
LEMMA FenceBegin ==
    ASSUME Inner, Outer, FenceInner, Begin PROVE FenceInner'
<1>1. Rest \in Seq(Plain)
  BY AtPlain DEF Begin
<1>2. clock' = clock /\ scheduled' = scheduled
  BY DEF Begin, Quiet, world
<1>3. CASE NoCancel(st, Rest)
  BY <1>1, <1>2, <1>3, FenceBase, FenceNoCancel DEF run
<1>4. CASE NoCancel([st EXCEPT !.run = StartRun(Due, job.now, TargetFloor(Leaf))],
                    <<"acquire", "started">> \o Rest)
  <2> DEFINE r == StartRun(Due, job.now, TargetFloor(Leaf))
  <2>1. r.occs = Due
    BY DEF StartRun
  <2>2. \A o \in Due : RampStart[o] <= clock
    <3>1. \A o \in Due : o \in Occ /\ RampStart[o] <= job.now
      BY FenceBase DEF Due
    <3> QED  BY <3>1, FenceBase, TimeAssumption
  <2> HIDE DEF r
  <2>3. /\ st' = [st EXCEPT !.run = r] /\ job' = job
        /\ stack' = <<"acquire", "started">> \o Rest
    BY <1>4 DEF NoCancel, Goto, r
  <2>4. Special' = {"acquire", "started"} \ Plain
    BY <1>1, <2>3, SpecialCall DEF StageNames
  <2>5. run' = r /\ st'.fence = st.fence /\ st'.terminal = st.terminal
    BY <2>3, FenceBase DEF Profile, run
  <2>6. Begun(run', clock)
    BY <2>1, <2>2, <2>5 DEF Begun
  <2> QED  BY <1>2, <2>3, <2>4, <2>5, <2>6, FenceBase, FenceQuiet DEF FenceStages
<1> QED  BY <1>3, <1>4 DEF Begin

\* Draining again before a command; an update that failed ends the run.
LEMMA FenceDispatch ==
    ASSUME Inner, Outer, FenceInner, Dispatch \/ Updated PROVE FenceInner'
<1>1. Rest \in Seq(Plain)
  BY AtPlain DEF Dispatch, Updated
<1>2. clock' = clock /\ scheduled' = scheduled
  BY DEF Dispatch, Updated, Quiet, world
<1>3. <<"drain", "decide">> \o Rest \in Seq(Plain)
  <2>1. <<"drain", "decide">> \in Seq(Plain)
    BY DEF Plain, StageNames, NeedRun, NeedPrev, FirstOnly
  <2> QED  BY <1>1, <2>1, ConcatProperties
<1>4. CASE Dispatch
  BY <1>1, <1>2, <1>3, <1>4, FenceBase, FenceNoCancel DEF Dispatch, run
<1>5. CASE Updated
  BY <1>1, <1>2, <1>5, FenceBase, FenceNoCancel, FenceCancel DEF Updated, run
<1> QED  BY <1>4, <1>5

\* Deciding on a command keeps the occurrences.
LEMMA FenceDecide ==
    ASSUME Inner, Outer, FenceInner, Decide PROVE FenceInner'
<1>1. Rest \in Seq(Plain)
  BY AtPlain DEF Decide
<1>2. clock' = clock /\ scheduled' = scheduled
  BY DEF Decide, Quiet, world
<1>3. CASE NoCancel(st, Rest)
  BY <1>1, <1>2, <1>3, FenceBase, FenceNoCancel DEF run
<1>4. CASE Active /\ NoCancel([st EXCEPT !.run.next =
                          IF revokeBy # NoTime /\ @ # NoTime THEN @
                          ELSE NextDeadline(run, job.now)], Rest)
  <2> DEFINE n == IF revokeBy # NoTime /\ run.next # NoTime THEN run.next
                  ELSE NextDeadline(run, job.now)
             p == [st EXCEPT !.run = [run EXCEPT !.next = n]]
  <2>1. run \in Run
    BY <1>4, ActiveRun
  <2>2. NoCancel(p, Rest)
    BY <1>4, <2>1, FenceBase DEF run, Profile, Run
  <2> HIDE DEF n
  <2>3. p.fence = st.fence /\ p.terminal = st.terminal /\ p.run.occs = run.occs
    BY <2>1, FenceBase DEF Profile, Run
  <2>4. Begun(p.run, clock)
    BY <2>1, <2>3, FenceBase, NoRunAssumption DEF Begun
  <2> HIDE DEF p
  <2> QED  BY <1>1, <1>2, <2>2, <2>3, <2>4, FenceNoCancel
<1>5. CASE /\ job' = [job EXCEPT !.force = ForceFinal(run, job.now),
                                 !.level = IF ForceFinal(run, job.now) THEN Full
                                           ELSE DesiredLevel(run, job.now)]
           /\ stack' = <<"send">> \o Rest
           /\ UNCHANGED st
  <2>1. job'.now = job.now /\ job'.at = job.at /\ job'.prev = job.prev
    BY <1>5, FenceBase DEF Jobs
  <2>2. Special' = {"send"} \ Plain
    BY <1>1, <1>5, SpecialOne DEF StageNames
  <2> QED  BY <1>2, <1>5, <2>1, <2>2, FenceBase, FenceQuiet DEF FenceStages, run
<1> QED  BY <1>3, <1>4, <1>5 DEF Decide, Goto

\* The cancellation of a user sets the fence beyond what it cancels.
LEMMA FenceCancelled ==
    ASSUME Inner, Outer, FenceInner, Cancelled PROVE FenceInner'
<1>1. Rest \in Seq(Plain) /\ run \in Run
  BY AtPlain, AtNeeds DEF Cancelled, NeedRun
<1>2. clock' = clock /\ scheduled' = scheduled
  BY DEF Cancelled, Quiet, world
<1> DEFINE offs == job.off /\ OwnedLights(run) # {}
<1>3. /\ job' = [job EXCEPT !.prev = IF offs THEN run ELSE NoRun]
      /\ stack' = IF offs THEN <<"safeOff">> \o Rest ELSE Rest
  BY DEF Cancelled, Goto
<1> HIDE DEF offs
<1>4. /\ job'.now = job.now /\ job'.at = job.at
      /\ job'.prev = run \/ job'.prev = NoRun
  BY <1>3, FenceBase DEF Jobs
<1>5. Special' \cap FenceStages = {}
  <2>1. CASE offs
    <3>1. Special' = {"safeOff"} \ Plain
      BY <1>1, <1>3, <2>1, SpecialOne DEF StageNames
    <3> QED  BY <3>1 DEF FenceStages
  <2>2. CASE ~offs
    BY <1>1, <1>3, <2>2, SpecialPlain
  <2> QED  BY <2>1, <2>2
<1>6. Begun(job'.prev, clock)
  BY <1>4, FenceBase DEF Begun
<1>7. CASE job.user
  <2>1. st' = RememberUserCancellation(st,
                 ConnectedEpisode(run, scheduled, job.at), job.at)
    BY <1>7 DEF Cancelled
  <2>2. Begun(run, job.at)
    <3>1. Soon("cancelled")
      BY StagesAt DEF Cancelled, Soon
    <3> QED  BY <3>1 DEF FenceInner, CutBegun
  <2>3. PlanApart(st', scheduled)
    BY <1>1, <2>1, <2>2, FenceBase, RememberApart, NoRunAssumption DEF FenceInner
  <2>4. run' = NoRun
    BY <2>1, FenceBase DEF RememberUserCancellation, Profile, run
  <2>5. PlanApart(st, scheduled)'
    BY <1>2, <2>3 DEF PlanApart
  <2>6. CutBegun' /\ PutBack'
    BY <1>5, FenceSoon DEF CutBegun, PutBack, FenceStages
  <2> QED  BY <1>2, <1>4, <1>6, <2>4, <2>5, <2>6, FenceBase DEF FenceInner, Begun
<1>8. CASE ~job.user
  <2>1. /\ st'.fence = st.fence /\ st.terminal \subseteq st'.terminal /\ run' = NoRun
    BY <1>8, FenceBase DEF Cancelled, Profile, run
  <2>2. Begun(run', clock)
    BY <2>1 DEF Begun
  <2> QED  BY <1>2, <1>4, <1>5, <1>6, <2>1, <2>2, FenceBase, FenceQuiet
<1> QED  BY <1>7, <1>8

\* end_episode sets it for the run that it has put aside.
LEMMA FenceEnded ==
    ASSUME Inner, Outer, FenceInner, Ended \/ Fence PROVE FenceInner'
<1>1. Rest \in Seq(Plain) /\ job.prev \in Run
  BY AtPlain, AtNeeds DEF Ended, Fence, NeedPrev
<1>2. clock' = clock /\ scheduled' = scheduled /\ job' = job
  BY DEF Ended, Fence, Quiet, world
<1>3. Begun(job.prev, job.now)
  <2>1. Soon("ended") \/ Soon("fence")
    BY StagesAt DEF Ended, Fence, Soon
  <2> QED  BY <2>1 DEF FenceInner, CutBegun
<1>4. CASE Ended
  <2>1. st' = st /\ run' = run
    BY <1>4 DEF Ended, run
  <2>2. \/ stack' = <<"fence">> \o Rest \/ stack' = <<"safeOff", "fence">> \o Rest
    <3>1. \/ stack' = <<>> \o <<"fence">> \o Rest
          \/ stack' = <<"safeOff">> \o <<"fence">> \o Rest
      BY <1>4 DEF Ended, Goto
    <3> QED  BY <3>1, Joined
  <2>3. Special' \subseteq {"safeOff", "fence"}
    <3>1. Special' = {"fence"} \ Plain \/ Special' = {"safeOff", "fence"} \ Plain
      BY <1>1, <2>2, SpecialOne, SpecialCall DEF StageNames
    <3> QED  BY <3>1
  <2>4. PlanApart(st, scheduled)' /\ CutBegun' /\ PutBack'
    BY <1>2, <1>3, <2>1, <2>3, FenceSoon DEF CutBegun, PutBack, FenceStages, FenceInner, PlanApart
  <2> QED  BY <1>2, <2>1, <2>4, FenceBase DEF FenceInner
<1>5. CASE Fence
  <2>1. /\ st' = RememberUserCancellation(st,
                   ConnectedEpisode(job.prev, scheduled, job.now), job.now)
        /\ stack' = Rest
    BY <1>5 DEF Fence, Goto
  <2>2. PlanApart(st', scheduled)
    BY <1>1, <1>3, <2>1, FenceBase, RememberApart, NoRunAssumption DEF FenceInner
  <2>3. run' = NoRun
    BY <2>1, FenceBase DEF RememberUserCancellation, Profile, run
  <2>4. PlanApart(st, scheduled)'
    BY <1>2, <2>2 DEF PlanApart
  <2>5. CutBegun' /\ PutBack'
    BY <1>1, <2>1, SpecialPlain, FenceSoon DEF CutBegun, PutBack, FenceStages
  <2> QED  BY <1>2, <2>3, <2>4, <2>5, FenceBase DEF FenceInner, Begun
<1> QED  BY <1>4, <1>5

\* A recovery without a run, without lights or without targets.
LEMMA FenceRecover ==
    ASSUME Inner, Outer, FenceInner, RecoverNothing \/ RecoverRootOff \/ RecoverNoTargets
    PROVE  FenceInner'
<1>1. Rest \in Seq(Plain)
  BY AtPlain DEF RecoverNothing, RecoverRootOff, RecoverNoTargets
<1>2. clock' = clock /\ scheduled' = scheduled
  BY DEF RecoverNothing, RecoverRootOff, RecoverNoTargets, Quiet, world
<1>3. CASE RecoverNothing
  BY <1>1, <1>2, <1>3, FenceBase, FenceNoCancel DEF RecoverNothing, run
<1>4. CASE RecoverRootOff
  BY <1>1, <1>2, <1>4, FenceBase, FenceCancel DEF RecoverRootOff, run
<1>5. CASE RecoverNoTargets
  <2>1. /\ st' = st /\ job' = [job EXCEPT !.prev = run]
        /\ stack' = ReleaseOf(run) \o <<"abandoned">> \o Rest
    BY <1>5 DEF RecoverNoTargets, Goto
  <2>2. "abandoned" \in StageNames \ Plain
    BY DEF StageNames, Plain, NeedPrev
  <2>3. Special' = {"abandoned"} \cup (IF run.gen = 0 THEN {} ELSE {"release"})
    BY <1>1, <2>1, <2>2, SpecialRelease
  <2>4. Special' \cap FenceStages = {}
    <3>1. Special' \subseteq {"abandoned", "release"}
      BY <2>3
    <3> QED  BY <3>1 DEF FenceStages
  <2>5. job'.now = job.now /\ job'.at = job.at /\ job'.prev = run
    BY <2>1, FenceBase DEF Jobs
  <2> QED  BY <1>2, <2>1, <2>4, <2>5, FenceBase, FenceQuiet DEF run
<1> QED  BY <1>3, <1>4, <1>5

\* A recovery takes the run up again with its occurrences.
LEMMA FenceRecoverRun ==
    ASSUME Inner, Outer, FenceInner, RecoverRun PROVE FenceInner'
<1> DEFINE less == ReleaseLeaves(run, GoneLeaves)
           kept == Watched(less, job.now)
<1>1. Rest \in Seq(Plain) /\ run \in Run
  BY AtPlain, ActiveRun DEF RecoverRun
<1>2. clock' = clock /\ scheduled' = scheduled
  BY DEF RecoverRun, Quiet, world
<1>3. less \in Run
  <2>1. GoneLeaves = {} \/ ~(run.targets \subseteq GoneLeaves)
    BY DEF RecoverRun, NoTargetLeft
  <2> QED  BY <1>1, <2>1, ReleaseLeavesType
<1>4. kept \in Run /\ kept.occs = run.occs
  <2>1. less.occs = run.occs
    BY <1>1, <1>3, ReleaseLeavesKeeps
  <2> HIDE DEF less
  <2> QED  BY <1>3, <2>1, WatchedKeeps DEF Outer
<1>5. \/ BlockedRecovery(kept, Rest)
      \/ FailRecovery(kept, Rest)
      \/ NoCancel([st EXCEPT !.run = [kept EXCEPT !.pending = TRUE]],
                  <<"acquire", "recovered">> \o Rest)
  BY DEF RecoverRun
<1> HIDE DEF kept
<1>6. Begun(kept, clock)
  BY <1>1, <1>4, FenceBase, NoRunAssumption DEF Begun
<1>7. CASE BlockedRecovery(kept, Rest) \/ FailRecovery(kept, Rest)
  BY <1>1, <1>2, <1>4, <1>6, <1>7, FenceRetry
<1>8. CASE NoCancel([st EXCEPT !.run = [kept EXCEPT !.pending = TRUE]],
                    <<"acquire", "recovered">> \o Rest)
  <2>1. /\ st' = [st EXCEPT !.run = [kept EXCEPT !.pending = TRUE]] /\ job' = job
        /\ stack' = <<"acquire", "recovered">> \o Rest
    BY <1>8 DEF NoCancel, Goto
  <2>2. Special' = {"acquire", "recovered"} \ Plain
    BY <1>1, <2>1, SpecialCall DEF StageNames
  <2>3. /\ run' = [kept EXCEPT !.pending = TRUE]
        /\ st'.fence = st.fence /\ st'.terminal = st.terminal
    BY <2>1, FenceBase DEF Profile, run
  <2>4. Begun(run', clock)
    <3>1. run'.occs = kept.occs
      BY <1>4, <2>3 DEF Run
    <3> QED  BY <1>4, <1>6, <3>1, NoRunAssumption DEF Begun
  <2> QED  BY <1>2, <2>1, <2>2, <2>3, <2>4, FenceBase, FenceQuiet DEF FenceStages
<1> QED  BY <1>5, <1>7, <1>8

-----------------------------------------------------------------------------
\* A grant changes the lease of the run only.
LEMMA FenceGranted ==
    ASSUME Inner, Outer, FenceInner, Granted \/ Refused PROVE FenceInner'
<1>1. run \in Run /\ At("acquire") /\ "acquire" \notin Plain
  BY AtNeeds DEF Granted, Refused, NeedRun, Plain
<1>2. clock' = clock /\ scheduled' = scheduled /\ stack' = Rest
  BY DEF Granted, Refused, Calm, world, Goto
<1>3. job'.now = job.now /\ job'.at = job.at /\ job'.prev = job.prev
  BY FenceBase DEF Granted, Refused, Jobs
<1>4. /\ st'.fence = st.fence /\ st'.terminal = st.terminal
      /\ run' = run \/ run'.occs = run.occs
  <2>1. CASE Refused
    BY <2>1 DEF Refused, run
  <2>2. CASE Granted
    <3>1. PICK g, e : st' = [st EXCEPT !.run = MarkAcquired(run, g, e)]
      BY <2>2 DEF Granted
    <3>2. run' = MarkAcquired(run, g, e)
      BY <3>1, FenceBase DEF Profile, run
    <3>3. run'.occs = run.occs
      BY <1>1, <3>2 DEF MarkAcquired, Run
    <3> QED  BY <3>1, <3>3, FenceBase DEF Profile
  <2> QED  BY <2>1, <2>2
<1> QED  BY <1>1, <1>2, <1>3, <1>4, FenceRest

\* A command that was executed keeps the occurrences of the run.
LEMMA FenceDispatched ==
    ASSUME Inner, Outer, FenceInner, NEW T \in SUBSET Leaf, Dispatched(T)
    PROVE  FenceInner'
<1>1. Rest \in Seq(Plain) /\ run \in Run /\ At("send") /\ "send" \notin Plain
  BY AtPlain, AtNeeds DEF Dispatched, NeedRun, Plain
<1>2. clock' = clock /\ scheduled' = scheduled
  BY DEF Dispatched, Calm
<1>3. CASE T = {}
  BY <1>1, <1>2, <1>3, FenceBase, FenceCancel DEF Dispatched, run
<1>4. CASE T # {}
  <2> DEFINE less == ReleaseLeaves(run, run.targets \ T)
             r == MarkDispatched(less, job.now, job.level, T, job.force)
             q == [r EXCEPT !.next = NextDeadline(r, job.now)]
  <2>1. less \in Run
    <3>1. ~(run.targets \subseteq run.targets \ T)
      BY <1>4 DEF Dispatched
    <3> QED  BY <1>1, <3>1, ReleaseLeavesType
  <2>2. less.occs = run.occs
    BY <1>1, <2>1, ReleaseLeavesKeeps
  <2>3. st' = [st EXCEPT !.run = q] /\ stack' = Rest /\ job' = job
    BY <1>4 DEF Dispatched, Goto
  <2> HIDE DEF less
  <2>4. q.occs = less.occs
    <3>1. r.occs = less.occs /\ q.occs = r.occs
      BY <2>1 DEF MarkDispatched, Run
    <3> QED  BY <3>1
  <2> HIDE DEF r, q
  <2>5. run' = q /\ st'.fence = st.fence /\ st'.terminal = st.terminal
    BY <2>3, FenceBase DEF Profile, run
  <2> QED  BY <1>1, <1>2, <2>2, <2>3, <2>4, <2>5, FenceRest
<1> QED  BY <1>3, <1>4

\* So does one that waits; a failed one ends it.
LEMMA FenceNotDispatched ==
    ASSUME Inner, Outer, FenceInner, NEW b \in BOOLEAN,
           NotDispatched(b) \/ DispatchFailed
    PROVE  FenceInner'
<1>1. Rest \in Seq(Plain) /\ run \in Run /\ At("send") /\ "send" \notin Plain
  BY AtPlain, AtNeeds DEF NotDispatched, DispatchFailed, NeedRun, Plain
<1>2. clock' = clock /\ scheduled' = scheduled
  BY DEF NotDispatched, DispatchFailed, Calm, world
<1>3. CASE Cancel(st, FALSE, b, FALSE, Rest) \/ Cancel(st, FALSE, FALSE, FALSE, Rest)
  BY <1>1, <1>2, <1>3, FenceBase, FenceCancel DEF run
<1>4. CASE \E n : st' = [st EXCEPT !.run.next = n] /\ stack' = Rest /\ job' = job
  <2>1. PICK n : st' = [st EXCEPT !.run.next = n] /\ stack' = Rest /\ job' = job
    BY <1>4
  <2>2. st' = [st EXCEPT !.run = [run EXCEPT !.next = n]]
    BY <2>1, FenceBase DEF Profile, run
  <2>3. run' = [run EXCEPT !.next = n] /\ st'.fence = st.fence /\ st'.terminal = st.terminal
    BY <2>2, FenceBase DEF Profile, run
  <2>4. run'.occs = run.occs
    BY <1>1, <2>3 DEF Run
  <2> QED  BY <1>1, <1>2, <2>1, <2>3, <2>4, FenceRest
<1> QED  BY <1>3, <1>4 DEF NotDispatched, DispatchFailed, Goto

\* Releasing and turning off leave the profile alone.
LEMMA FenceReleased ==
    ASSUME Inner, Outer, FenceInner, Released \/ NotReleased \/ SafeOff \/ NotSafeOff
    PROVE  FenceInner'
<1>1. \E a : a \notin Plain /\ At(a)
  BY DEF Released, NotReleased, SafeOff, NotSafeOff, Plain, NeedPrev
<1>2. /\ clock' = clock /\ scheduled' = scheduled /\ stack' = Rest
      /\ st' = st /\ job' = job
  BY DEF Released, NotReleased, SafeOff, NotSafeOff, Calm, world, Goto
<1> QED  BY <1>1, <1>2, FenceRest DEF run

\* Releasing a leaf after its group has settled, and saving.
LEMMA FenceSettled ==
    ASSUME Inner, Outer, FenceInner, Settling \/ Save \/ Persist PROVE FenceInner'
<1>1. Rest \in Seq(Plain) /\ <<>> \in Seq(Plain)
  BY AtPlain, EmptySeq DEF Settling, Save, Persist
<1>2. clock' = clock /\ scheduled' = scheduled
  BY DEF Settling, Save, Persist, Quiet, world
<1>3. CASE Settling
  BY <1>1, <1>2, <1>3, FenceBase, FenceCancel, FenceReleaseLeaf DEF Settling, run
<1>4. CASE Save \/ Persist
  <2>1. st' = st /\ job' = NoJob /\ stack' \in Seq(Plain)
    BY <1>1, <1>4 DEF Save, Persist, Goto
  <2>2. Special' = {}
    BY <2>1, SpecialPlain
  <2>3. job'.now <= clock /\ job'.at <= clock /\ Begun(job'.prev, clock)
    BY <2>1, FenceBase DEF NoJob, NoTime, Begun
  <2> QED  BY <1>2, <2>1, <2>2, <2>3, FenceBase, FenceStart DEF run
<1> QED  BY <1>3, <1>4

-----------------------------------------------------------------------------
(***************************************************************************)
(* The handlers.                                                           *)
(***************************************************************************)

\* The locals that a handler starts with.
LEMMA FenceNow ==
    ASSUME Outer, NEW t \in Int
    PROVE  /\ Now(t) \in Jobs /\ Now(t).now = t /\ Now(t).at = NoTime
           /\ Now(t).prev = NoRun /\ NoTime <= clock
<1>1. Now(t) \in Jobs
  BY NowType
<1>2. Now(t).now = t /\ Now(t).at = NoTime /\ Now(t).prev = NoRun
  BY DEF Now, NoJob
<1>3. clock \in Nat
  BY DEF Outer
<1> QED  BY <1>1, <1>2, <1>3 DEF NoTime

\* A handler that starts with plain stages.
LEMMA FencePlainStart ==
    ASSUME Inner, Outer, FenceInner, clock' = clock,
           st'.fence = st.fence, st.terminal \subseteq st'.terminal,
           scheduled' = scheduled, Begun(run', clock),
           NEW t \in Int, t <= clock, NEW s \in Seq(Plain), Begins(Now(t), s)
    PROVE  FenceInner'
<1>1. Special' = {}
  BY SpecialPlain DEF Begins, Goto
<1>2. /\ job'.now <= clock /\ job'.at <= clock /\ Begun(job'.prev, clock)
  BY FenceNow DEF Begins, Begun
<1> QED  BY <1>1, <1>2, FenceStart

\* Starting and the handlers that only reconcile.
LEMMA FencePlainHandlers ==
    ASSUME Inner, Outer, FenceInner, FenceOuter,
           OnStart \/ OnTimer \/ OnPoke \/ OnLeafOff \/ OnStop
    PROVE  FenceInner'
<1>1. clock' = clock /\ clock \in Int /\ clock <= clock
  BY FenceBase DEF OnStart, OnTimer, OnPoke, OnLeafOff, OnStop, Take, world
<1>2. CASE OnStart
  <2>1. CASE stopping
    <3>1. st' = st /\ scheduled' = scheduled /\ job' = job /\ stack' = stack
      BY <1>2, <2>1 DEF OnStart
    <3> QED  BY <1>1, <3>1 DEF FenceInner, CutBegun, PutBack, Soon, PlanApart, Begun, run
  <2>2. CASE ~stopping
    <3>1. /\ st' = Refreshed(st, clock) /\ scheduled' = Scheduled(st', clock)
          /\ job' = Now(clock) /\ stack' = <<"recover", "reconcile">>
      BY <1>2, <2>2 DEF OnStart, Begins, Goto
    <3>2. run' = run
      BY <3>1, FenceBase, RefreshedType DEF run
    <3>3. Special' = {"recover"}
      <4>1. <<"recover", "reconcile">> = <<"recover">> \o <<"reconcile">>
        BY Joined
      <4>2. "recover" \in StageNames \ Plain
        BY DEF StageNames, Plain, FirstOnly
      <4> QED  BY <3>1, <4>1, <4>2, FirstStages, SpecialOne
    <3>4. /\ job'.now <= clock /\ job'.at <= clock /\ job'.prev = NoRun
      BY <1>1, <3>1, FenceNow
    <3>5. PlanApart(st, scheduled)'
      BY <3>1, ScheduledApart DEF PlanApart
    <3>6. CutBegun' /\ PutBack'
      BY <3>3, FenceSoon DEF CutBegun, PutBack, FenceStages
    <3> QED  BY <1>1, <3>2, <3>4, <3>5, <3>6, FenceBase DEF FenceInner, Begun
  <2> QED  BY <2>1, <2>2
<1>3. CASE OnTimer
  <2>1. Event \in Past(clock)
    <3>1. queue \in Seq(Past(clock)) /\ queue # <<>>
      BY <1>3 DEF OnTimer, Take, FenceOuter
    <3> QED  BY <3>1, HeadTailProperties DEF Event
  <2>2. Event.now \in Int /\ Event.now <= clock
    BY <2>1 DEF Past, Tasks
  <2>3. st' = st /\ scheduled' = scheduled /\ Begins(Now(Event.now), <<"reconcile">>)
    BY <1>3 DEF OnTimer
  <2> QED  BY <1>1, <2>2, <2>3, FenceBase, FirstStages, FencePlainStart DEF run
<1>4. CASE OnPoke
  <2>1. /\ st'.fence = st.fence /\ st'.terminal = st.terminal
        /\ run' = run \/ (Active /\ run' = Watched(run, clock))
    <3>1. CASE Active /\ Event.user
      <4>1. st' = [st EXCEPT !.run = Watched(run, clock)]
        BY <1>4, <3>1 DEF OnPoke
      <4> QED  BY <3>1, <4>1, FenceBase DEF Profile, run
    <3>2. CASE ~(Active /\ Event.user)
      BY <1>4, <3>2 DEF OnPoke, run
    <3> QED  BY <3>1, <3>2
  <2>2. Begun(run', clock)
    <3>1. CASE run' = run
      BY <3>1, FenceBase
    <3>2. CASE Active /\ run' = Watched(run, clock)
      <4>1. run \in Run /\ Watched(run, clock).occs = run.occs
        BY <3>2, ActiveRun, WatchedKeeps DEF Outer
      <4> QED  BY <3>2, <4>1, FenceBase, NoRunAssumption DEF Begun
    <3> QED  BY <2>1, <3>1, <3>2
  <2>3. scheduled' = scheduled /\ Begins(Now(clock), <<"reconcile">>)
    BY <1>4 DEF OnPoke, ThenReconcile
  <2> QED  BY <1>1, <2>1, <2>2, <2>3, FirstStages, FencePlainStart
<1>5. CASE OnLeafOff
  <2>1. st' = st /\ scheduled' = scheduled
    BY <1>5 DEF OnLeafOff
  <2>2. CASE ThenReconcile
    BY <1>1, <2>1, <2>2, FenceBase, FirstStages, FencePlainStart DEF ThenReconcile, run
  <2>3. CASE Begins([Now(clock) EXCEPT !.leaf = Event.leaf], <<"settling", "reconcile">>)
    <3>1. Special' = {"settling"}
      <4>1. <<"settling", "reconcile">> = <<"settling">> \o <<"reconcile">>
        BY Joined
      <4>2. "settling" \in StageNames \ Plain
        BY DEF StageNames, Plain, FirstOnly
      <4> QED  BY <2>3, <4>1, <4>2, FirstStages, SpecialOne DEF Begins, Goto
    <3>2. job'.now <= clock /\ job'.at <= clock /\ Begun(job'.prev, clock)
      BY <1>1, <2>3, FenceNow DEF Begins, Jobs, Begun
    <3> QED  BY <1>1, <2>1, <3>1, <3>2, FenceBase, FenceStart DEF FenceStages, run
  <2> QED  BY <1>5, <2>2, <2>3 DEF OnLeafOff
<1>6. CASE OnStop
  <2>1. st' = st /\ scheduled' = scheduled /\ Begins(Now(clock), <<"persist">>)
    BY <1>6 DEF OnStop
  <2> QED  BY <1>1, <2>1, FenceBase, FirstStages, FencePlainStart DEF run
<1> QED  BY <1>2, <1>3, <1>4, <1>5, <1>6

-----------------------------------------------------------------------------
\* What a handler that gives the run up starts with (CancelOn).
LEMMA CancelOnDoes ==
    ASSUME Inner, Outer, NEW user \in BOOLEAN, NEW revoked \in BOOLEAN,
           NEW off \in BOOLEAN, NEW rest \in Seq(Plain),
           CancelOn(user, revoked, off, rest)
    PROVE  /\ run' = run /\ st'.terminal = st.terminal /\ st'.fence = st.fence
           /\ scheduled' = scheduled /\ job'.now = clock
           /\ ~Active => /\ st' = st /\ revokeBy' = revokeBy /\ Special' = {}
                         /\ job' = Now(clock)
           /\ Active => /\ job'.prev = run /\ job'.at = clock /\ job'.user = user
                        /\ job'.off = off /\ revokeBy' = NoTime
                        /\ "cancelled" \in Special'
                        /\ Special' \subseteq {"release", "cancelled"}
                        /\ "release" \in Special' => ~revoked /\ run.gen # 0
<1>1. st \in Profile /\ clock \in Nat /\ Now(clock) \in Jobs /\ Now(clock).now = clock
  BY FenceNow DEF Inner, Outer
<1>2. CASE ~Active
  <2>1. job' = Now(clock) /\ stack' = rest /\ st' = st /\ revokeBy' = revokeBy
        /\ scheduled' = scheduled
    BY <1>2 DEF CancelOn, Begins, Goto
  <2> QED  BY <1>1, <1>2, <2>1, SpecialPlain DEF run
<1>3. CASE Active
  <2>1. /\ st' = [st EXCEPT !.alarms = @ \ FiredAlarms(run)]
        /\ job' = [Now(clock) EXCEPT !.at = clock, !.user = user, !.off = off,
                                     !.prev = run]
        /\ stack' = (IF revoked THEN <<>> ELSE ReleaseOf(run)) \o <<"cancelled">> \o rest
        /\ revokeBy' = NoTime /\ scheduled' = scheduled
    BY <1>3 DEF CancelOn, Begins, Goto
  <2>2. run' = run /\ st'.terminal = st.terminal /\ st'.fence = st.fence
    BY <1>1, <2>1 DEF Profile, run
  <2>3. /\ job'.prev = run /\ job'.at = clock /\ job'.user = user /\ job'.off = off
        /\ job'.now = clock
    BY <1>1, <2>1 DEF Jobs
  <2>4. "cancelled" \in StageNames \ Plain
    BY DEF StageNames, Plain, NeedRun
  <2>5. CASE revoked
    <3>1. stack' = <<"cancelled">> \o rest
      BY <2>1, <2>5, Joined
    <3>2. Special' = {"cancelled"}
      BY <2>4, <3>1, SpecialOne
    <3> QED  BY <1>3, <2>1, <2>2, <2>3, <2>5, <3>2
  <2>6. CASE ~revoked
    <3>1. Special' = {"cancelled"} \cup (IF run.gen = 0 THEN {} ELSE {"release"})
      BY <2>1, <2>4, <2>6, SpecialRelease
    <3>2. /\ "cancelled" \in Special' /\ Special' \subseteq {"release", "cancelled"}
          /\ "release" \in Special' => ~revoked /\ run.gen # 0
      BY <2>6, <3>1
    <3> QED  BY <1>3, <2>1, <2>2, <2>3, <3>2
  <2> QED  BY <2>5, <2>6
<1> QED  BY <1>2, <1>3

\* Its run has begun by then.
LEMMA FenceCancelOn ==
    ASSUME Inner, Outer, FenceInner, clock' = clock,
           NEW user \in BOOLEAN, NEW revoked \in BOOLEAN,
           NEW off \in BOOLEAN, NEW rest \in Seq(Plain),
           CancelOn(user, revoked, off, rest)
    PROVE  FenceInner'
<1>1. /\ run' = run /\ st'.terminal = st.terminal /\ st'.fence = st.fence
      /\ scheduled' = scheduled /\ job'.now = clock
  BY CancelOnDoes
<1>2. CASE ~Active
  <2>1. job' = Now(clock) /\ Special' = {}
    BY <1>2, CancelOnDoes
  <2>2. job'.now <= clock /\ job'.at <= clock /\ Begun(job'.prev, clock)
    BY <2>1, FenceBase, FenceNow DEF Begun
  <2> QED  BY <1>1, <2>1, <2>2, FenceBase, FenceStart
<1>3. CASE Active
  <2>1. /\ job'.prev = run /\ job'.at = clock
        /\ Special' \subseteq {"release", "cancelled"}
    BY <1>3, CancelOnDoes
  <2>2. CutBegun' /\ PutBack'
    BY <1>1, <2>1, FenceBase, FenceSoon DEF CutBegun, PutBack, FenceStages, Begun
  <2>3. PlanApart(st, scheduled)'
    BY <1>1 DEF FenceInner, PlanApart
  <2> QED  BY <1>1, <2>1, <2>2, <2>3, FenceBase DEF FenceInner, Begun
<1> QED  BY <1>2, <1>3

\* The handlers that give the run up.
LEMMA FenceCancelHandlers ==
    ASSUME Inner, Outer, FenceInner, OnRootOff \/ OnRevoke \/ OnVacation \/ OnHazard
    PROVE  FenceInner'
<1>1. clock' = clock /\ clock \in Int /\ clock <= clock
  <2>1. clock \in Nat
    BY FenceBase
  <2>2. \E kind \in Kinds : Take(kind)
    BY DEF OnRootOff, OnRevoke, OnVacation, OnHazard, Kinds
  <2> QED  BY <2>1, <2>2 DEF Take, world
<1>2. Event.user \in BOOLEAN
  <2>1. Event \in Tasks
    BY TakeType DEF OnRootOff, OnRevoke, OnVacation, OnHazard
  <2> QED  BY <2>1 DEF Tasks
<1>3. \/ CancelOn(TRUE, TRUE, FALSE, <<"reconcile">>)
      \/ CancelOn(Event.user, TRUE, FALSE, <<"finish">>)
      \/ CancelOn(FALSE, FALSE, Event.user, <<"reconcile">>)
      \/ CancelOn(FALSE, FALSE, FALSE, <<"reconcile">>)
      \/ UNCHANGED <<st, scheduled, stack, job>>
      \/ ThenReconcile /\ UNCHANGED <<st, scheduled>>
  BY DEF OnRootOff, OnRevoke, OnVacation, OnHazard
<1>4. ASSUME NEW u \in BOOLEAN, NEW v \in BOOLEAN, NEW w \in BOOLEAN,
             NEW s \in Seq(Plain), CancelOn(u, v, w, s)
      PROVE  FenceInner'
  BY <1>1, <1>4, FenceCancelOn
<1>5. CASE UNCHANGED <<st, scheduled, stack, job>>
  BY <1>1, <1>5 DEF FenceInner, CutBegun, PutBack, Soon, PlanApart, Begun, run
<1>6. CASE ThenReconcile /\ UNCHANGED <<st, scheduled>>
  BY <1>1, <1>6, FenceBase, FirstStages, FencePlainStart DEF ThenReconcile, run
<1> QED  BY <1>2, <1>3, <1>4, <1>5, <1>6, FirstStages

\* end_episode and the unloading of the config entry.
LEMMA FenceEndHandlers ==
    ASSUME Inner, Outer, FenceInner, OnEnd \/ OnUnload PROVE FenceInner'
<1>1. clock' = clock /\ clock \in Int /\ clock <= clock /\ scheduled' = scheduled
  BY FenceBase DEF OnEnd, OnUnload, Take, world
<1>2. Now(clock) \in Jobs /\ Now(clock).now = clock /\ Now(clock).at = NoTime
      /\ NoTime <= clock
  BY <1>1, FenceNow
<1>3. CASE OnEnd /\ Active
  <2>1. /\ st' = [st EXCEPT !.run = NoRun, !.terminal = @ \cup run.occs,
                            !.alarms = @ \ FiredAlarms(run)]
        /\ job' = [Now(clock) EXCEPT !.prev = run]
        /\ stack' = ReleaseOf(run) \o <<"ended", "reconcile">>
    BY <1>3 DEF OnEnd, Begins, Goto
  <2>2. run' = NoRun /\ st'.fence = st.fence /\ st.terminal \subseteq st'.terminal
    BY <2>1, FenceBase DEF Profile, run
  <2>3. job'.prev = run /\ job'.now = clock /\ job'.at <= clock
    BY <1>2, <2>1 DEF Jobs
  <2>4. stack' = ReleaseOf(run) \o <<"ended">> \o <<"reconcile">>
    <3>1. /\ <<"ended", "reconcile">> = <<"ended">> \o <<"reconcile">>
          /\ ReleaseOf(run) \in Seq(StageNames) /\ <<"ended">> \in Seq(StageNames)
          /\ <<"reconcile">> \in Seq(StageNames)
      BY Joined DEF ReleaseOf, StageNames
    <3> QED  BY <2>1, <3>1, ConcatAssociative
  <2>5. Special' \subseteq {"ended", "release"}
    <3>1. "ended" \in StageNames \ Plain
      BY DEF StageNames, Plain, NeedPrev
    <3>2. Special' = {"ended"} \cup (IF run.gen = 0 THEN {} ELSE {"release"})
      BY <2>4, <3>1, FirstStages, SpecialRelease
    <3> QED  BY <3>2
  <2>6. CutBegun' /\ PutBack'
    BY <2>3, <2>5, FenceBase, FenceSoon DEF CutBegun, PutBack, FenceStages, Begun
  <2>7. PlanApart(st, scheduled)'
    BY <1>1, <2>2 DEF FenceInner, PlanApart
  <2> QED  BY <1>1, <2>2, <2>3, <2>6, <2>7, FenceBase DEF FenceInner, Begun
<1>4. CASE OnUnload /\ Active /\ ~stopping
  <2>1. /\ st' = st /\ run' = run /\ job' = [Now(clock) EXCEPT !.prev = run]
        /\ stack' = ReleaseOf(run) \o <<"abandoned", "persist", "unloaded">>
    BY <1>4 DEF OnUnload, Begins, Goto, run
  <2>2. job'.prev = run /\ job'.now <= clock /\ job'.at <= clock
    BY <1>1, <1>2, <2>1 DEF Jobs
  <2>3. stack' = ReleaseOf(run) \o <<"abandoned">> \o <<"persist", "unloaded">>
    <3>1. ReleaseOf(run) \in Seq(StageNames)
      <4>1. ReleaseOf(run) = <<>> \/ ReleaseOf(run) = <<"release">>
        BY DEF ReleaseOf
      <4>2. <<>> \in Seq(StageNames) /\ <<"release">> \in Seq(StageNames)
        BY DEF StageNames
      <4> QED  BY <4>1, <4>2
    <3>2. <<"abandoned">> \in Seq(StageNames) /\ <<"persist", "unloaded">> \in Seq(StageNames)
      BY DEF StageNames
    <3> QED  BY <2>1, <3>1, <3>2, ThreeJoined, ConcatAssociative
  <2>4. Special' \subseteq {"abandoned", "release"}
    <3>1. "abandoned" \in StageNames \ Plain
      BY DEF StageNames, Plain, NeedPrev
    <3>2. Special' = {"abandoned"} \cup (IF run.gen = 0 THEN {} ELSE {"release"})
      BY <2>3, <3>1, FirstStages, SpecialRelease
    <3> QED  BY <3>2
  <2>5. Special' \cap FenceStages = {}
    BY <2>4 DEF FenceStages
  <2> QED  BY <1>1, <2>1, <2>2, <2>5, FenceBase, FenceStart
<1>5. CASE ThenReconcile /\ st' = st
  BY <1>1, <1>5, FenceBase, FirstStages, FencePlainStart DEF ThenReconcile, run
<1>6. CASE Begins(Now(clock), <<"persist", "unloaded">>) /\ st' = st
  BY <1>1, <1>6, FenceBase, FirstStages, FencePlainStart DEF run
<1> QED  BY <1>3, <1>4, <1>5, <1>6 DEF OnEnd, OnUnload

\* dismiss, upsert_alarm and delete_alarm.
LEMMA FenceAlarmHandlers ==
    ASSUME Inner, Outer, FenceInner, OnDismiss \/ OnAdd \/ OnDelete PROVE FenceInner'
<1>1. clock' = clock /\ clock \in Int /\ clock <= clock /\ scheduled' = scheduled
  BY FenceBase DEF OnDismiss, OnAdd, OnDelete, Take, world
<1>2. CASE OnDelete \/ OnAdd \/ (OnDismiss /\ ~(Active /\ Event.occ \in run.occs))
  <2>1. ThenReconcile /\ st'.fence = st.fence /\ st'.terminal = st.terminal /\ run' = run
    BY <1>2, FenceBase DEF OnDelete, OnAdd, OnDismiss, Profile, run
  <2> QED  BY <1>1, <2>1, FenceBase, FirstStages, FencePlainStart DEF ThenReconcile, run
<1>3. CASE OnDismiss /\ Active /\ Event.occ \in run.occs
  <2> DEFINE r == Without(run, {Event.occ})
  <2>1. run \in Run
    BY <1>3, ActiveRun
  <2>2. r = NoRun \/ (r.occs \subseteq run.occs)
    BY <2>1 DEF Without, Run
  <2>3. /\ st' = [st EXCEPT !.run = r, !.terminal = @ \cup {Event.occ},
                            !.alarms = @ \ (FiredAlarms(run) \cap {Event.occ})]
        /\ job' = [Now(clock) EXCEPT !.prev = run]
        /\ stack' = (IF r = NoRun THEN ReleaseOf(run)
                     ELSE <<"acquire", "updated">>) \o <<"reconcile">>
    BY <1>3 DEF OnDismiss, Begins, Goto
  <2> HIDE DEF r
  <2>4. run' = r /\ st'.fence = st.fence /\ st.terminal \subseteq st'.terminal
    BY <2>3, FenceBase DEF Profile, run
  <2>5. job'.prev = run /\ job'.now <= clock /\ job'.at <= clock
    BY <1>1, <2>3, FenceNow DEF Jobs
  <2>6. Begun(run', clock)
    BY <2>1, <2>2, <2>4, FenceBase, NoRunAssumption DEF Begun
  <2>7. Special' \cap FenceStages = {}
    <3>1. CASE stack' = <<"reconcile">>
      BY <3>1, FirstStages, SpecialPlain
    <3>2. CASE stack' = <<"release">> \o <<"reconcile">>
      <4>1. Special' = {"release"} \ Plain
        BY <3>2, FirstStages, SpecialOne DEF StageNames
      <4> QED  BY <4>1 DEF FenceStages
    <3>3. CASE stack' = <<"acquire", "updated">> \o <<"reconcile">>
      <4>1. Special' = {"acquire", "updated"} \ Plain
        BY <3>3, FirstStages, SpecialCall DEF StageNames
      <4> QED  BY <4>1 DEF FenceStages
    <3>4. <<>> \o <<"reconcile">> = <<"reconcile">>
      BY Joined
    <3> QED  BY <2>3, <3>1, <3>2, <3>3, <3>4 DEF ReleaseOf
  <2> QED  BY <1>1, <2>4, <2>5, <2>6, <2>7, FenceBase, FenceStart
<1> QED  BY <1>2, <1>3

-----------------------------------------------------------------------------
\* Every handler.
LEMMA FenceHandlers ==
    ASSUME Inner, Outer, FenceInner, FenceOuter, Handlers PROVE FenceInner'
BY FencePlainHandlers, FenceCancelHandlers, FenceEndHandlers, FenceAlarmHandlers
   DEF Handlers

\* Every answer.
LEMMA FenceAnswers ==
    ASSUME Inner, Outer, FenceInner, Answers PROVE FenceInner'
BY FenceGranted, FenceDispatched, FenceNotDispatched, FenceReleased, FenceSettled
   DEF Answers

\* The process forgets all but what it stored.
LEMMA FenceForget ==
    ASSUME Inner, Outer, FenceInner, FenceOuter, Forget, clock' = clock
    PROVE  FenceInner' /\ FenceOuter'
<1>1. /\ st' = disk /\ job' = NoJob /\ scheduled' = {} /\ stack' = <<>> /\ queue' = <<>>
      /\ disk' = disk
  BY DEF Forget
<1>2. Special' = {}
  <2>1. <<>> \in Seq(Plain)
    BY EmptySeq
  <2> QED  BY <1>1, <2>1, SpecialPlain
<1>3. CutBegun' /\ PutBack'
  BY <1>2, FenceSoon DEF CutBegun, PutBack, FenceStages
<1>4. /\ PlanApart(st, scheduled)'
      /\ job'.now <= clock /\ job'.at <= clock /\ Begun(job'.prev, clock)
  BY <1>1, FenceBase DEF PlanApart, NoJob, NoTime, Begun
<1>5. Begun(run', clock)
  BY <1>1 DEF FenceOuter, run
<1>6. FenceInner'
  BY <1>3, <1>4, <1>5 DEF FenceInner, Begun
<1>7. FenceOuter'
  <2>1. <<>> \in Seq(Past(clock'))
    BY EmptySeq
  <2> QED  BY <1>1, <2>1 DEF FenceOuter, Begun
<1> QED  BY <1>6, <1>7

\* Every stage.
LEMMA FenceStagesKept ==
    ASSUME Inner, Outer, FenceInner, FenceOuter, Stages PROVE FenceInner'
<1>1. CASE Unloaded
  BY <1>1, FenceForget DEF Unloaded, world
<1>2. CASE ~Unloaded
  BY <1>2, FenceReconcile, FenceDrain, FencePending, FenceAcquired, FenceJoinDue,
     FenceMerged, FenceComplete, FenceBegin, FenceDispatch, FenceDecide, FenceFinish,
     FenceCancelled, FenceEnded, FenceRecover, FenceRecoverRun DEF Stages
<1> QED  BY <1>1, <1>2

\* What waits for the loop leaves the handler at work alone.
LEMMA FenceStill ==
    ASSUME Inner, Outer, FenceInner, Still, clock' \in Nat, clock <= clock'
    PROVE  FenceInner'
<1>1. /\ st' = st /\ scheduled' = scheduled /\ job' = job /\ stack' = stack /\ run' = run
  BY DEF Still, run
<1>2. PlanApart(st, scheduled)' /\ CutBegun'
  BY <1>1 DEF FenceInner, PlanApart, CutBegun, Soon, Begun
<1>3. ASSUME NEW r \in Run \cup {NoRun}, Begun(r, clock) PROVE Begun(r, clock')
  <2>1. r # NoRun => r.occs \in SUBSET Occ
    BY DEF Run
  <2> QED  BY <1>3, <2>1, FenceBase, TimeAssumption DEF Begun
<1>4. Begun(run, clock)' /\ Begun(job.prev, clock)'
  <2>1. Begun(run, clock') /\ Begun(job.prev, clock')
    BY <1>3, FenceBase
  <2> QED  BY <1>1, <2>1 DEF Begun
<1>5. job'.now <= clock' /\ job'.at <= clock'
  BY <1>1, FenceBase
<1>6. PutBack'
  <2>1. Soon("merged")' <=> Soon("merged")
    BY <1>1 DEF Soon, StagesOf
  <2>2. job.prev # NoRun => \A o \in job.prev.occs : job.prev.hold[o] \in Nat
    BY FenceBase DEF Run
  <2> QED  BY <1>1, <2>1, <2>2, FenceBase DEF PutBack, FenceInner
<1> QED  BY <1>2, <1>4, <1>5, <1>6 DEF FenceInner

-----------------------------------------------------------------------------
(***************************************************************************)
(* What is stored, and what waits for the lock.                            *)
(***************************************************************************)
\* The past grows.
LEMMA PastGrows ==
    ASSUME NEW t \in Nat, NEW u \in Nat, t <= u, NEW s \in Seq(Past(t))
    PROVE  s \in Seq(Past(u))
<1>1. Past(t) \subseteq Past(u)
  BY DEF Past, Tasks
<1> QED  BY <1>1, SeqDef

\* A step that queues what has happened and stores nothing.
LEMMA FenceOuterKept ==
    ASSUME Outer, FenceOuter, clock' \in Nat, clock <= clock', disk' = disk,
           queue' \in Seq(Past(clock))
    PROVE  FenceOuter'
<1>1. clock \in Nat /\ (disk.run # NoRun => disk.run.occs \in SUBSET Occ)
  BY DEF Outer, Profile, Run
<1>2. Begun(disk.run, clock')
  BY <1>1, TimeAssumption DEF FenceOuter, Begun
<1>3. queue' \in Seq(Past(clock'))
  BY <1>1, PastGrows
<1> QED  BY <1>2, <1>3 DEF FenceOuter, Begun

\* Posting what has happened.
LEMMA FencePost ==
    ASSUME FenceOuter, NEW s \in Seq(Past(clock)), Post(s)
    PROVE  queue' \in Seq(Past(clock))
<1>1. queue \in Seq(Past(clock))
  BY DEF FenceOuter
<1>2. queue \o s \in Seq(Past(clock))
  BY <1>1, ConcatProperties
<1> QED  BY <1>1, <1>2 DEF Post

\* One task.
LEMMA FenceOne ==
    ASSUME Outer, FenceOuter, NEW t \in Tasks, t.now <= clock,
           Post(<<t>>) \/ queue' = Append(queue, t)
    PROVE  queue' \in Seq(Past(clock))
<1>1. t \in Past(clock) /\ queue \in Seq(Past(clock))
  BY DEF Past, FenceOuter
<1>2. <<t>> \in Seq(Past(clock)) /\ Append(queue, t) \in Seq(Past(clock))
  BY <1>1, AppendProperties
<1> QED  BY <1>2, FencePost

\* The tasks of the environment bear no time, or the present one.
LEMMA TaskTimes ==
    /\ \A k : Task(k).now = NoTime
    /\ \A k, t : [Task(k) EXCEPT !.now = t].now = t
    /\ \A k, u : [Task(k) EXCEPT !.user = u].now = NoTime
    /\ \A k, o : [Task(k) EXCEPT !.occ = o].now = NoTime
    /\ \A k, g : [Task(k) EXCEPT !.gen = g].now = NoTime
    /\ \A k, g, u : [Task(k) EXCEPT !.gen = g, !.user = u].now = NoTime
    /\ \A k, l, o : [Task(k) EXCEPT !.leaf = l, !.occ = o].now = NoTime
BY DEF Task

\* Lights that go off.
LEMMA FenceLights ==
    ASSUME Inner, Outer, FenceOuter, NEW now, NEW before \in Seq(Past(clock)),
           LightsBecome(now, before)
    PROVE  queue' \in Seq(Past(clock))
<1> DEFINE drop == RootOn(lights) /\ ~RootOn(now)
           gone == drop /\ pbl.status = "active"
           lease == IF Active THEN run.lease ELSE NoOcc
           root == [Task("rootOff") EXCEPT !.occ = lease]
           revoke == [Task("revoke") EXCEPT !.gen = pbl.gen, !.user = TRUE]
           a == IF drop THEN <<root>> ELSE <<>>
           b == IF gone THEN <<revoke>> ELSE <<>>
<1>0. clock \in Nat /\ NoTime <= clock
  BY DEF Outer, NoTime
<1>1. root \in Past(clock)
  <2>1. lease \in Occ \cup {NoOcc}
    BY ActiveRun DEF Run
  <2> HIDE DEF lease
  <2>2. root \in Tasks
    <3>1. "rootOff" \in Kinds
      BY DEF Kinds
    <3> QED  BY <2>1, <3>1, OccTaskType
  <2>3. root.now = NoTime
    BY TaskTimes
  <2> QED  BY <1>0, <2>2, <2>3 DEF Past
<1>2. revoke \in Past(clock)
  <2>1. pbl.gen \in Nat
    BY DEF Outer, Leases
  <2>2. revoke \in Tasks
    BY <2>1, EnvTasks
  <2>3. revoke.now = NoTime
    BY TaskTimes
  <2> QED  BY <1>0, <2>2, <2>3 DEF Past
<1>3. Post(before \o a \o b)
  BY DEF LightsBecome
<1> HIDE DEF root, revoke
<1>4. a \in Seq(Past(clock)) /\ b \in Seq(Past(clock))
  BY <1>1, <1>2
<1> HIDE DEF a, b
<1>5. before \o a \o b \in Seq(Past(clock))
  BY <1>4, ConcatProperties
<1> QED  BY <1>3, <1>5, FencePost

\* Stages store nothing and queue nothing.
LEMMA FenceStagesOuter ==
    ASSUME Inner, Outer, FenceInner, FenceOuter, Stages PROVE FenceOuter'
<1>1. CASE Unloaded
  BY <1>1, FenceForget DEF Unloaded, world
<1>2. CASE ~Unloaded
  <2>1. Quiet
    BY <1>2 DEF Stages, Reconcile, Drain, Pending, Reacquired, JoinDue, Merged,
       Complete, CompletedRun, Begin, Started, Dispatch, Decide, Finish, Cancelled,
       Updated, Failed, Ended, Fence, RecoverNothing, RecoverRootOff,
       RecoverNoTargets, RecoverRun, Recovered, Abandoned
  <2> QED  BY <2>1 DEF Quiet, world, FenceOuter, Begun
<1> QED  BY <1>1, <1>2

\* Answers store the run there is.
LEMMA FenceAnswersOuter ==
    ASSUME Inner, Outer, FenceInner, FenceOuter, Answers PROVE FenceOuter'
<1>1. CASE Save \/ Persist
  <2>1. disk' = st /\ queue' = queue /\ clock' = clock
    BY <1>1 DEF Save, Persist, world
  <2> QED  BY <2>1, FenceBase DEF FenceOuter, Begun, run
<1>2. CASE SafeOff
  <2>1. disk' = disk /\ clock' = clock
    BY <1>2 DEF SafeOff, Calm
  <2>2. queue' \in Seq(Past(clock))
    <3>1. <<>> \in Seq(Past(clock))
      BY EmptySeq
    <3>2. PICK now : LightsBecome(now, <<>>)
      BY <1>2 DEF SafeOff
    <3> QED  BY <3>1, <3>2, FenceLights
  <2> QED  BY <2>1, <2>2, FenceBase, FenceOuterKept
<1>3. CASE ~(Save \/ Persist \/ SafeOff)
  <2>1. disk' = disk /\ queue' = queue /\ clock' = clock
    BY <1>3 DEF Answers, Granted, Refused, NotDispatched, Dispatched, DispatchFailed,
       Released, NotReleased, NotSafeOff, Settling, Quiet, Calm, world
  <2> QED  BY <2>1 DEF FenceOuter, Begun
<1> QED  BY <1>1, <1>2, <1>3

\* Handlers take one task.
LEMMA FenceHandlersOuter ==
    ASSUME Outer, FenceOuter, Handlers PROVE FenceOuter'
<1>1. \E kind : Take(kind)
  BY DEF Handlers, OnStart, OnTimer, OnPoke, OnLeafOff, OnRootOff, OnRevoke,
     OnVacation, OnHazard, OnEnd, OnDismiss, OnAdd, OnDelete, OnStop, OnUnload
<1>2. queue # <<>> /\ queue' = Tail(queue) /\ disk' = disk /\ clock' = clock
  BY <1>1 DEF Take, world
<1>3. queue' \in Seq(Past(clock))
  BY <1>2, HeadTailProperties DEF FenceOuter
<1> QED  BY <1>2, <1>3 DEF FenceOuter, Begun

-----------------------------------------------------------------------------
\* A queued command has no time of its own.
LEMMA CommandTask ==
    ASSUME NEW kind \in {"dismiss", "add", "delete", "end"},
           NEW o \in Occ \cup {NoOcc}, kind = "add" => o \in Occ
    PROVE  [Task(kind) EXCEPT !.occ = o] \in Tasks
<1>1. kind \in Kinds
  BY DEF Kinds
<1> QED  BY <1>1, OccTaskType

\* The acts of users.
LEMMA FenceUsers ==
    ASSUME Inner, Outer, FenceInner, FenceOuter, Users
    PROVE  FenceInner' /\ FenceOuter'
<1>1. Still /\ clock' = clock /\ disk' = disk /\ clock \in Nat /\ NoTime <= clock
  <2>1. Still /\ clock' = clock
    BY DEF Users, LeafOff, LeafOn, SetVacation, SetRoom, PblRevoke, Command
  <2> QED  BY <2>1, FenceBase DEF Still, NoTime
<1>2. FenceInner'
  BY <1>1, FenceStill
<1>3. ASSUME NEW t \in Tasks, t.now = NoTime, Post(<<t>>) \/ queue' = Append(queue, t)
      PROVE  queue' \in Seq(Past(clock))
  BY <1>1, <1>3, FenceOne
<1>4. queue' \in Seq(Past(clock))
  <2>1. CASE \E l \in Leaf : LeafOff(l)
    <3>1. PICK l \in Leaf : LeafOff(l)
      BY <2>1
    <3> DEFINE lease == IF Active THEN run.lease ELSE NoOcc
               off == [Task("leafOff") EXCEPT !.leaf = l, !.occ = lease]
    <3>2. LightsBecome([lights EXCEPT ![l] = 0], <<off>>)
      BY <3>1 DEF LeafOff
    <3>3. lease \in Occ \cup {NoOcc}
      BY ActiveRun DEF Run
    <3> HIDE DEF lease
    <3>4. off \in Tasks /\ off.now = NoTime
      <4>1. off \in Tasks
        BY <3>3, EnvTasks
      <4>2. off.now = NoTime
        BY TaskTimes
      <4> QED  BY <4>1, <4>2
    <3> HIDE DEF off
    <3>5. <<off>> \in Seq(Past(clock))
      BY <1>1, <3>4 DEF Past
    <3> QED  BY <3>2, <3>5, FenceLights
  <2>2. CASE \E l \in Leaf, level \in 1 .. Full : LeafOn(l, level)
    <3> DEFINE t == [Task("poke") EXCEPT !.user = TRUE]
    <3>1. Post(<<t>>)
      BY <2>2 DEF LeafOn
    <3>2. t \in Tasks
      BY EnvTasks
    <3>3. t.now = NoTime
      BY TaskTimes
    <3> HIDE DEF t
    <3> QED  BY <1>3, <3>1, <3>2, <3>3
  <2>3. CASE \E v \in {"off", "on", "unknown"} : SetVacation(v)
    <3>1. PICK u \in BOOLEAN : \/ Post(<<Task("poke")>>)
                               \/ Post(<<[Task("vacation") EXCEPT !.user = u]>>)
      BY <2>3 DEF SetVacation
    <3> DEFINE p == Task("poke")
               t == [Task("vacation") EXCEPT !.user = u]
    <3>2. p \in Tasks /\ t \in Tasks
      BY EnvTasks
    <3>3. p.now = NoTime /\ t.now = NoTime
      BY TaskTimes
    <3> HIDE DEF p, t
    <3>4. Post(<<p>>) \/ Post(<<t>>)
      BY <3>1 DEF p, t
    <3> QED  BY <1>3, <3>2, <3>3, <3>4
  <2>4. CASE \E r \in {"ready", "unknown", "blocked"} : SetRoom(r)
    <3>1. Post(<<Task("poke")>>) \/ Post(<<Task("hazard")>>)
      BY <2>4 DEF SetRoom
    <3> DEFINE p == Task("poke")
               t == Task("hazard")
    <3>2. p \in Tasks /\ t \in Tasks
      BY EnvTasks
    <3>3. p.now = NoTime /\ t.now = NoTime
      BY TaskTimes
    <3> HIDE DEF p, t
    <3>4. Post(<<p>>) \/ Post(<<t>>)
      BY <3>1 DEF p, t
    <3> QED  BY <1>3, <3>2, <3>3, <3>4
  <2>5. CASE \E u \in BOOLEAN : PblRevoke(u)
    <3>1. PICK u \in BOOLEAN : Post(<<[Task("revoke") EXCEPT !.gen = pbl.gen, !.user = u]>>)
      BY <2>5 DEF PblRevoke
    <3> DEFINE t == [Task("revoke") EXCEPT !.gen = pbl.gen, !.user = u]
    <3>2. t \in Tasks
      <4>1. pbl.gen \in Nat
        BY DEF Outer, Leases
      <4> QED  BY <4>1, EnvTasks
    <3>3. t.now = NoTime
      BY TaskTimes
    <3>4. Post(<<t>>)
      BY <3>1
    <3> HIDE DEF t
    <3> QED  BY <1>3, <3>2, <3>3, <3>4
  <2>6. CASE \/ \E o \in Occ : \/ Command("dismiss", o) \/ Command("add", o)
                               \/ Command("delete", o)
             \/ Command("end", NoOcc)
    <3>1. PICK kind \in {"dismiss", "add", "delete", "end"}, o \in Occ \cup {NoOcc} :
              Command(kind, o) /\ (kind = "add" => o \in Occ)
      BY <2>6
    <3>2. queue' = Append(queue, [Task(kind) EXCEPT !.occ = o])
      BY <3>1 DEF Command
    <3> DEFINE t == [Task(kind) EXCEPT !.occ = o]
    <3>3. t \in Tasks
      BY <3>1, CommandTask
    <3>4. t.now = NoTime
      BY TaskTimes
    <3> HIDE DEF t
    <3> QED  BY <1>3, <3>2, <3>3, <3>4 DEF t
  <2> QED  BY <2>1, <2>2, <2>3, <2>4, <2>5, <2>6 DEF Users
<1> QED  BY <1>1, <1>2, <1>4, FenceOuterKept

\* Time, timers, PBL's expiry and the life of Home Assistant.
LEMMA FenceMachine ==
    ASSUME Inner, Outer, FenceInner, FenceOuter, Machine
    PROVE  FenceInner' /\ FenceOuter'
<1>1. CASE Die
  BY <1>1, FenceForget DEF Die
<1>2. CASE ~Die
  <2>1. Still /\ disk' = disk
    BY <1>2 DEF Machine, Tick, FireTimer, Poke, PblExpire, Stop, Unload, Boot, CoreRunning, Still
  <2>2. clock \in Nat /\ NoTime <= clock /\ queue \in Seq(Past(clock))
    BY FenceBase DEF NoTime, FenceOuter
  <2>3. clock' \in Nat /\ clock <= clock'
    BY <1>2, <2>2 DEF Machine, Tick, FireTimer, Poke, PblExpire, Stop, Unload, Boot,
       CoreRunning, world
  <2>4. ASSUME NEW t \in Tasks, t.now <= clock, Post(<<t>>) \/ queue' = Append(queue, t)
        PROVE  queue' \in Seq(Past(clock))
    BY <2>4, FenceOne
  <2>5. queue' \in Seq(Past(clock))
    <3>1. CASE Tick \/ Boot
      BY <2>2, <3>1 DEF Tick, Boot
    <3>2. CASE FireTimer
      <4> DEFINE t == [Task("timer") EXCEPT !.now = clock]
      <4>1. queue' = Append(queue, t)
        BY <3>2 DEF FireTimer
      <4>2. t \in Tasks
        <5>1. clock \in Int
          BY <2>2
        <5> QED  BY <5>1, EnvTasks
      <4>3. t.now = clock
        BY TaskTimes
      <4> HIDE DEF t
      <4>4. t.now <= clock
        BY <2>2, <4>3
      <4> QED  BY <2>4, <4>1, <4>2, <4>4
    <3>3. CASE Poke \/ Stop \/ Unload \/ CoreRunning
      <4>1. \E k \in {"poke", "stop", "unload", "start"} :
               Post(<<Task(k)>>) \/ queue' = Append(queue, Task(k))
        BY <3>3 DEF Poke, Stop, Unload, CoreRunning
      <4>2. PICK k \in {"poke", "stop", "unload", "start"} :
               Post(<<Task(k)>>) \/ queue' = Append(queue, Task(k))
        BY <4>1
      <4>3. Task(k) \in Tasks /\ Task(k).now = NoTime
        BY EnvTasks, TaskTimes
      <4> QED  BY <2>2, <2>4, <4>2, <4>3
    <3>4. CASE PblExpire
      <4> DEFINE t == [Task("revoke") EXCEPT !.gen = pbl.gen]
      <4>1. pbl.gen \in Nat
        BY DEF Outer, Leases
      <4>2. t \in Tasks
        <5>1. Task("revoke") \in Tasks /\ Task("revoke").kind # "add"
          <6>1. "revoke" \in Kinds \ {"add"}
            BY DEF Kinds
          <6> QED  BY <6>1, TaskType DEF Task
        <5> QED  BY <4>1, <5>1 DEF Tasks
      <4>3. t.now = NoTime /\ Post(<<t>>)
        BY <3>4, TaskTimes DEF PblExpire
      <4> HIDE DEF t
      <4> QED  BY <2>2, <2>4, <4>2, <4>3
    <3> QED  BY <1>2, <3>1, <3>2, <3>3, <3>4 DEF Machine
  <2> QED  BY <2>1, <2>2, <2>3, <2>5, FenceStill, FenceOuterKept
<1> QED  BY <1>1, <1>2

\* At first nothing is planned.
LEMMA FenceInit == Init => FenceInv
<1> SUFFICES ASSUME Init PROVE FenceInner /\ FenceOuter
  BY DEF FenceInv
<1>1. /\ st.run = NoRun /\ disk.run = NoRun /\ scheduled = {} /\ job = NoJob /\ clock = 0
      /\ stack = <<>> /\ queue = <<Task("start")>>
  BY DEF Init
<1>2. \A x : ~Soon(x)
  BY <1>1, StagesOfOne DEF Soon, StagesOf
<1>3. FenceInner
  BY <1>1, <1>2 DEF FenceInner, PlanApart, NoJob, NoTime, Begun, CutBegun, PutBack, run
<1>4. Task("start") \in Past(clock)
  <2>1. Task("start") \in Tasks /\ Task("start").now = NoTime
    BY EnvTasks, TaskTimes
  <2> QED  BY <1>1, <2>1 DEF Past, NoTime
<1>5. FenceOuter
  BY <1>1, <1>4 DEF FenceOuter, Begun
<1> QED  BY <1>3, <1>5

\* Every step keeps it.
LEMMA FenceNext == TypeInv /\ FenceInv /\ [Next]_vars => FenceInv'
<1> SUFFICES ASSUME Inner, Outer, FenceInner, FenceOuter, [Next]_vars
             PROVE  FenceInner' /\ FenceOuter'
  BY TwoParts DEF FenceInv
<1>1. CASE UNCHANGED vars
  BY <1>1 DEF vars, FenceInner, FenceOuter, PlanApart, CutBegun, PutBack, Begun, Soon,
     StagesOf, Past, run
<1>2. CASE Next
  BY <1>2, FenceHandlers, FenceHandlersOuter, FenceStagesKept, FenceStagesOuter,
     FenceAnswers, FenceAnswersOuter, FenceUsers, FenceMachine DEF Next
<1> QED  BY <1>1, <1>2

-----------------------------------------------------------------------------
(***************************************************************************)
(* How a run comes to be and grows.                                        *)
(***************************************************************************)
\* No new occurrences.
Shrinks == run' # NoRun => run # NoRun /\ run'.occs \subseteq run.occs

\* Giving up, failing and releasing leaves only take away.
LEMMA PartsShrink ==
    ASSUME Inner, Outer, NEW r \in Run, run \in Run, r.occs \subseteq run.occs,
           NEW rest \in Seq(Plain),
           \/ FailRecovery(r, rest) \/ RetryOrFail(r, rest) \/ BlockedRecovery(r, rest)
    PROVE  Shrinks
<1>1. st \in Profile /\ run # NoRun
  BY NoRunAssumption DEF Inner
<1>2. run' = r \/ run' = [r EXCEPT !.pending = TRUE]
  <2>1. CASE FailRecovery(r, rest) \/ RetryOrFail(r, rest)
    <3>1. \/ st' = [st EXCEPT !.run = [r EXCEPT !.pending = TRUE]]
          \/ st' = [st EXCEPT !.run = r]
      BY <2>1, FailRecoveryDoes, RetryOrFailDoes
    <3> QED  BY <1>1, <3>1 DEF Profile, run
  <2>2. CASE Cancel([st EXCEPT !.run = r], FALSE, FALSE, VacationBlocks, rest)
    <3>1. [st EXCEPT !.run = r] \in Profile /\ [st EXCEPT !.run = r].run = r
      BY <1>1 DEF Profile
    <3>2. VacationBlocks \in BOOLEAN /\ clock \in Nat
      BY DEF VacationBlocks, Available, Outer
    <3> QED  BY <2>2, <3>1, <3>2, CancelDoes DEF run
  <2> QED  BY <2>1, <2>2 DEF BlockedRecovery
<1>3. run'.occs = r.occs
  BY <1>2 DEF Run
<1> QED  BY <1>1, <1>3 DEF Shrinks

\* Giving a run up, or keeping it.
LEMMA CancelShrinks ==
    ASSUME Inner, Outer, NEW p, p.run = run \/ p.run = NoRun
             \/ (run \in Run /\ p.run.occs \subseteq run.occs),
           NEW rest \in Seq(Plain),
           \/ NoCancel(p, rest)
           \/ /\ p \in Profile
              /\ \E u, v, w \in BOOLEAN : Cancel(p, u, v, w, rest)
    PROVE  Shrinks
<1>1. run' = p.run
  <2>1. clock \in Nat
    BY DEF Outer
  <2> QED  BY <2>1, NoCancelDoes, CancelDoes DEF run
<1> QED  BY <1>1, NoRunAssumption DEF Shrinks

\* Releasing a leaf.
LEMMA ReleaseLeafShrinks ==
    ASSUME Inner, Outer, NEW l, NEW rest \in Seq(Plain), ReleaseLeaf(l, rest)
    PROVE  Shrinks
<1>0. st \in Profile
  BY DEF Inner
<1>1. CASE \E revoked \in BOOLEAN : Cancel(st, TRUE, revoked, FALSE, rest)
  BY <1>0, <1>1, CancelShrinks DEF run
<1>2. CASE st' = st
  BY <1>2 DEF Shrinks, run
<1>3. CASE /\ run \in Run /\ ReleaseLeaves(run, {l}) \in Run
           /\ st' = [st EXCEPT !.run = ReleaseLeaves(run, {l})]
  <2> DEFINE q == ReleaseLeaves(run, {l})
  <2>1. q.occs = run.occs
    BY <1>3, ReleaseLeavesKeeps
  <2>2. run' = q
    BY <1>0, <1>3 DEF Profile, run
  <2> HIDE DEF q
  <2> QED  BY <1>3, <2>1, <2>2, NoRunAssumption DEF Shrinks
<1> QED  BY <1>1, <1>2, <1>3, ReleaseLeafDoes

\* The stages that start no occurrence.
LEMMA StagesShrink ==
    ASSUME Inner, Outer, Stages, ~Begin, ~JoinDue, ~Merged, ~Unloaded PROVE Shrinks
<1>0. st \in Profile
  BY DEF Inner
<1>1. CASE Reconcile \/ Finish
  <2>1. run' = run
    <3>1. clock \in Int /\ job.now \in Int
      BY DEF Outer, Inner, Jobs
    <3> QED  BY <1>0, <1>1, <3>1, RefreshedType DEF Reconcile, Finish, run
  <2> QED  BY <2>1 DEF Shrinks
<1>2. CASE Drain
  <2>1. Rest \in Seq(Plain) /\ stack \in Seq(Plain)
    BY <1>2, AtPlain, AtAllPlain DEF Drain, Plain, StageNames, NeedRun, NeedPrev, FirstOnly
  <2>2. \/ NoCancel(st, Rest) \/ NoCancel(st, stack)
        \/ \E l \in Leaf : ReleaseLeaf(l, stack)
    BY <1>2 DEF Drain
  <2> QED  BY <2>1, <2>2, CancelShrinks, ReleaseLeafShrinks DEF run
<1>3. CASE Pending
  <2>1. Rest \in Seq(Plain) /\ <<"finish">> \in Seq(Plain)
    BY <1>3, AtPlain, PipelinePlain DEF Pending
  <2>2. CASE st' = st
    BY <2>2 DEF Shrinks, run
  <2>3. CASE Active /\ (FailRecovery(run, <<"finish">>) \/ BlockedRecovery(run, <<"finish">>))
    BY <2>1, <2>3, ActiveRun, PartsShrink
  <2> QED  BY <1>3, <2>2, <2>3 DEF Pending, NoCancel
<1>4. CASE Reacquired \/ Recovered
  <2>1. Rest \in Seq(Plain) /\ <<"finish">> \in Seq(Plain) /\ run \in Run
    BY <1>4, AtPlain, AtNeeds, PipelinePlain DEF Reacquired, Recovered, NeedRun
  <2>2. CASE NoCancel([st EXCEPT !.run = Resumed], Rest)
    <3>1. run' = Resumed
      BY <1>0, <2>2 DEF NoCancel, Profile, run
    <3>2. Resumed.occs = run.occs
      BY <2>1 DEF Resumed, RefreshHolds, Run
    <3> QED  BY <2>1, <3>1, <3>2, NoRunAssumption DEF Shrinks
  <2>3. CASE NotRecovered(Rest) \/ NotRecovered(<<"finish">>)
    BY <2>1, <2>3, PartsShrink DEF NotRecovered
  <2> QED  BY <1>4, <2>2, <2>3 DEF Reacquired, Recovered
<1>5. CASE Complete
  <2>1. run' = run \/ (Active /\ \E d : run' = Without(run, d))
    BY <1>0, <1>5 DEF Complete, NoCancel, Profile, run
  <2>2. CASE Active /\ \E d : run' = Without(run, d)
    <3>1. PICK d : run' = Without(run, d)
      BY <2>2
    <3> QED  BY <2>2, <3>1, ActiveRun, NoRunAssumption DEF Without, Run, Shrinks
  <2> QED  BY <2>1, <2>2 DEF Shrinks
<1>6. CASE CompletedRun \/ Failed \/ Abandoned \/ Started \/ RecoverNoTargets \/ Ended
  <2>1. run' = run \/ run' = NoRun
    BY <1>0, <1>6 DEF CompletedRun, Failed, Abandoned, Started, RecoverNoTargets, Ended, NoCancel,
       Profile, run
  <2> QED  BY <2>1 DEF Shrinks
<1>7. CASE Cancelled \/ Fence
  <2>1. run' = NoRun
    BY <1>0, <1>7 DEF Cancelled, Fence, RememberUserCancellation, Profile, run
  <2> QED  BY <2>1 DEF Shrinks
<1>8. CASE Dispatch \/ Updated \/ RecoverNothing \/ RecoverRootOff
  <2>1. Rest \in Seq(Plain)
    BY <1>8, AtPlain DEF Dispatch, Updated, RecoverNothing, RecoverRootOff
  <2>2. CASE st' = st
    BY <2>2 DEF Shrinks, run
  <2>3. CASE \E u, v, w \in BOOLEAN : Cancel(st, u, v, w, Rest)
    BY <1>0, <2>1, <2>3, CancelShrinks DEF run
  <2> QED  BY <1>8, <2>2, <2>3 DEF Dispatch, Updated, RecoverNothing, RecoverRootOff, NoCancel
<1>9. CASE Decide
  <2>1. run' = run \/ (Active /\ \E n : run' = [run EXCEPT !.next = n])
    BY <1>0, <1>9, ActiveRun DEF Decide, NoCancel, Profile, Run, run
  <2>2. CASE Active /\ \E n : run' = [run EXCEPT !.next = n]
    BY <2>2, ActiveRun, NoRunAssumption DEF Run, Shrinks
  <2> QED  BY <2>1, <2>2 DEF Shrinks
<1>10. CASE RecoverRun
  <2> DEFINE less == ReleaseLeaves(run, GoneLeaves)
             kept == Watched(less, job.now)
  <2>1. Rest \in Seq(Plain) /\ run \in Run
    BY <1>10, AtPlain, ActiveRun DEF RecoverRun
  <2>2. less \in Run
    <3>1. GoneLeaves = {} \/ ~(run.targets \subseteq GoneLeaves)
      BY <1>10 DEF RecoverRun, NoTargetLeft
    <3> QED  BY <2>1, <3>1, ReleaseLeavesType
  <2>3. kept \in Run /\ kept.occs = run.occs
    <3>1. less.occs = run.occs
      BY <2>1, <2>2, ReleaseLeavesKeeps
    <3> HIDE DEF less
    <3> QED  BY <2>2, <3>1, WatchedKeeps DEF Outer
  <2>4. \/ BlockedRecovery(kept, Rest) \/ FailRecovery(kept, Rest)
        \/ st' = [st EXCEPT !.run = [kept EXCEPT !.pending = TRUE]]
    BY <1>10 DEF RecoverRun, NoCancel
  <2> HIDE DEF kept
  <2>5. CASE st' = [st EXCEPT !.run = [kept EXCEPT !.pending = TRUE]]
    <3>1. run' = [kept EXCEPT !.pending = TRUE]
      BY <1>0, <2>5 DEF Profile, run
    <3>2. run'.occs = run.occs
      BY <2>3, <3>1 DEF Run
    <3> QED  BY <2>1, <3>2, NoRunAssumption DEF Shrinks
  <2> QED  BY <2>1, <2>3, <2>4, <2>5, PartsShrink
<1> QED  BY <1>1, <1>2, <1>3, <1>4, <1>5, <1>6, <1>7, <1>8, <1>9, <1>10 DEF Stages

\* So do the answers.
LEMMA AnswersShrink ==
    ASSUME Inner, Outer, Answers PROVE Shrinks
<1>0. st \in Profile
  BY DEF Inner
<1>1. CASE Released \/ NotReleased \/ SafeOff \/ NotSafeOff \/ Save \/ Persist \/ Refused
  BY <1>1 DEF Released, NotReleased, SafeOff, NotSafeOff, Save, Persist, Refused, Shrinks, run
<1>2. CASE Granted
  <2>1. run \in Run
    BY <1>2, AtNeeds DEF Granted, NeedRun
  <2>2. PICK g, e : st' = [st EXCEPT !.run = MarkAcquired(run, g, e)]
    BY <1>2 DEF Granted
  <2>3. run' = MarkAcquired(run, g, e)
    BY <1>0, <2>2 DEF Profile, run
  <2>4. run'.occs = run.occs
    BY <2>1, <2>3 DEF MarkAcquired, Run
  <2> QED  BY <2>1, <2>4, NoRunAssumption DEF Shrinks
<1>3. CASE Settling
  <2>1. Rest \in Seq(Plain)
    BY <1>3, AtPlain DEF Settling
  <2> QED  BY <1>0, <1>3, <2>1, CancelShrinks, ReleaseLeafShrinks DEF Settling, run
<1>4. CASE NotDispatched(TRUE) \/ NotDispatched(FALSE) \/ DispatchFailed
  <2>1. Rest \in Seq(Plain) /\ run \in Run
    BY <1>4, AtPlain, AtNeeds DEF NotDispatched, DispatchFailed, NeedRun
  <2>2. CASE \E u, v, w \in BOOLEAN : Cancel(st, u, v, w, Rest)
    BY <1>0, <2>1, <2>2, CancelShrinks DEF run
  <2>3. CASE \E n : st' = [st EXCEPT !.run.next = n]
    <3>1. PICK n : st' = [st EXCEPT !.run.next = n]
      BY <2>3
    <3>2. run' = [run EXCEPT !.next = n]
      BY <1>0, <3>1 DEF Profile, run
    <3>3. run'.occs = run.occs
      BY <2>1, <3>2 DEF Run
    <3> QED  BY <2>1, <3>3, NoRunAssumption DEF Shrinks
  <2> QED  BY <1>4, <2>2, <2>3 DEF NotDispatched, DispatchFailed
<1>5. CASE \E T \in SUBSET Leaf : Dispatched(T)
  <2>1. PICK T \in SUBSET Leaf : Dispatched(T)
    BY <1>5
  <2>2. Rest \in Seq(Plain) /\ run \in Run
    BY <2>1, AtPlain, AtNeeds DEF Dispatched, NeedRun
  <2>3. CASE T = {}
    BY <1>0, <2>1, <2>2, <2>3, CancelShrinks DEF Dispatched, run
  <2>4. CASE T # {}
    <3> DEFINE less == ReleaseLeaves(run, run.targets \ T)
               r == MarkDispatched(less, job.now, job.level, T, job.force)
               q == [r EXCEPT !.next = NextDeadline(r, job.now)]
    <3>1. less \in Run
      <4>1. ~(run.targets \subseteq run.targets \ T)
        BY <2>1, <2>4 DEF Dispatched
      <4> QED  BY <2>2, <4>1, ReleaseLeavesType
    <3>2. less.occs = run.occs
      BY <2>2, <3>1, ReleaseLeavesKeeps
    <3>3. st' = [st EXCEPT !.run = q]
      BY <2>1, <2>4 DEF Dispatched
    <3> HIDE DEF less
    <3>4. q.occs = less.occs
      <4>1. r.occs = less.occs /\ q.occs = r.occs
        BY <3>1 DEF MarkDispatched, Run
      <4> QED  BY <4>1
    <3> HIDE DEF r, q
    <3>5. run' = q
      BY <1>0, <3>3 DEF Profile, run
    <3> QED  BY <2>2, <3>2, <3>4, <3>5, NoRunAssumption DEF Shrinks
  <2> QED  BY <2>3, <2>4
<1> QED  BY <1>1, <1>2, <1>3, <1>4, <1>5 DEF Answers

\* And the handlers.
LEMMA HandlersShrink ==
    ASSUME Inner, Outer, Handlers PROVE Shrinks
<1>0. st \in Profile
  BY DEF Inner
<1>1. CASE OnRootOff \/ OnRevoke \/ OnVacation \/ OnHazard
  <2>1. run' = run
    <3>1. \/ st' = st
          \/ st' = [st EXCEPT !.alarms = @ \ FiredAlarms(run)]
      BY <1>1 DEF OnRootOff, OnRevoke, OnVacation, OnHazard, CancelOn
    <3> QED  BY <1>0, <3>1 DEF Profile, run
  <2> QED  BY <2>1 DEF Shrinks
<1>2. CASE OnStart
  <2>1. run' = run
    <3>1. clock \in Nat
      BY DEF Outer
    <3> QED  BY <1>0, <1>2, <3>1, RefreshedType DEF OnStart, run
  <2> QED  BY <2>1 DEF Shrinks
<1>3. CASE OnTimer \/ OnLeafOff \/ OnStop \/ OnUnload \/ OnAdd \/ OnDelete \/ OnEnd
  <2>1. run' = run \/ run' = NoRun
    BY <1>0, <1>3 DEF OnTimer, OnLeafOff, OnStop, OnUnload, OnAdd, OnDelete, OnEnd, Profile, run
  <2> QED  BY <2>1 DEF Shrinks
<1>4. CASE OnPoke
  <2>1. CASE Active /\ Event.user
    <3>1. run' = Watched(run, clock)
      BY <1>0, <1>4, <2>1 DEF OnPoke, Profile, run
    <3>2. run \in Run /\ Watched(run, clock).occs = run.occs
      BY <2>1, ActiveRun, WatchedKeeps DEF Outer
    <3> QED  BY <3>1, <3>2, NoRunAssumption DEF Shrinks
  <2>2. CASE ~(Active /\ Event.user)
    BY <1>4, <2>2 DEF OnPoke, Shrinks, run
  <2> QED  BY <2>1, <2>2
<1>5. CASE OnDismiss
  <2>1. run' = run \/ (Active /\ \E d : run' = Without(run, d))
    BY <1>0, <1>5 DEF OnDismiss, Profile, run
  <2>2. CASE Active /\ \E d : run' = Without(run, d)
    <3>1. PICK d : run' = Without(run, d)
      BY <2>2
    <3> QED  BY <2>2, <3>1, ActiveRun, NoRunAssumption DEF Without, Run, Shrinks
  <2> QED  BY <2>1, <2>2 DEF Shrinks
<1> QED  BY <1>1, <1>2, <1>3, <1>4, <1>5 DEF Handlers

\* A run grows only when it begins, when one joins, or when it is put back.
LEMMA OnlyTheseGrow ==
    ASSUME Inner, Outer, [Next]_vars, ~Begin, ~JoinDue, ~Merged, phase' # "down"
    PROVE  Shrinks
<1>1. CASE UNCHANGED vars
  BY <1>1 DEF vars, Shrinks, run
<1>2. CASE Users \/ Machine
  <2>1. st' = st
    BY <1>2 DEF Users, LeafOff, LeafOn, SetVacation, SetRoom, PblRevoke, Command, Machine, Tick,
       FireTimer, Poke, PblExpire, Stop, Unload, Boot, CoreRunning, Still, Die, Forget
  <2> QED  BY <2>1 DEF Shrinks, run
<1>3. ~Unloaded
  BY DEF Unloaded, Forget
<1> QED  BY <1>1, <1>2, <1>3, StagesShrink, AnswersShrink, HandlersShrink DEF Next

\* How they grow.
LEMMA BeginGrows ==
    ASSUME Inner, Outer, Begin, run' # NoRun
    PROVE  \/ run' = run
           \/ ~Active /\ run'.occs = Due /\ Due # {} /\ st'.fence = st.fence
<1>0. st \in Profile
  BY DEF Inner
<1>1. CASE st' = st
  BY <1>1 DEF run
<1>2. CASE /\ ~Active /\ Due # {}
           /\ st' = [st EXCEPT !.run = StartRun(Due, job.now, TargetFloor(Leaf))]
  <2>1. st'.fence = st.fence /\ run' = StartRun(Due, job.now, TargetFloor(Leaf))
    BY <1>0, <1>2 DEF Profile, run
  <2> QED  BY <1>2, <2>1 DEF StartRun
<1> QED  BY <1>1, <1>2 DEF Begin, NoCancel

\* What is due at the end of a schedule has begun after the fence.
LEMMA DueAfterFence ==
    ASSUME Inner, Outer, FenceInner, NEW o \in Due
    PROVE  o \notin st.terminal /\ (st.fence.to = NoTime \/ clock > st.fence.to)
<1>1. o \in Occ /\ o \in scheduled \ st.terminal /\ RampStart[o] <= job.now
  BY FenceBase DEF Due
<1>2. st.fence.to # NoTime => RampStart[o] > st.fence.to
  BY <1>1 DEF FenceInner, PlanApart
<1>3. st.fence.to \in Int
  BY DEF Inner, Profile, Interval
<1> QED  BY <1>1, <1>2, <1>3, FenceBase, TimeAssumption

\* No run starts while a fence stands.
LEMMA NoRelightStep ==
    ASSUME Inner, Outer, FenceInner, [Next]_vars, ~Active, Active', phase' # "down"
    PROVE  st'.fence.to = NoTime \/ clock > st'.fence.to
<1>1. ~Merged /\ ~JoinDue
  <2>1. ~Merged
    BY AtNeeds, NoRunAssumption DEF Merged, NeedRun, Active
  <2>2. ~JoinDue
    BY DEF JoinDue, NoCancel, Active, run
  <2> QED  BY <2>1, <2>2
<1>2. CASE Begin
  <2>1. run'.occs = Due /\ Due # {} /\ st'.fence = st.fence
    BY <1>2, BeginGrows DEF Active
  <2> QED  BY <2>1, DueAfterFence
<1>3. CASE ~Begin
  BY <1>1, <1>3, OnlyTheseGrow DEF Shrinks, Active
<1> QED  BY <1>2, <1>3

\* What has ended does not start again, and is put back only when its hold is
\* over.
LEMMA EndedStep ==
    ASSUME Inner, Outer, FenceInner, [Next]_vars, Active', phase' # "down",
           NEW o \in run'.occs \cap st.terminal
    PROVE  (Active /\ o \in run.occs) \/ clock >= run'.hold[o]
<1>0. st \in Profile
  BY DEF Inner
<1>1. CASE Begin
  <2>1. run' = run \/ run'.occs = Due
    BY <1>1, BeginGrows DEF Active
  <2> QED  BY <2>1, DueAfterFence DEF Active
<1>2. CASE JoinDue
  <2>1. CASE run' = run
    BY <2>1 DEF Active
  <2>2. CASE Active /\ run' = Watched(run, job.now)
    <3>1. run \in Run /\ Watched(run, job.now).occs = run.occs
      BY <2>2, ActiveRun, WatchedKeeps DEF Outer
    <3> QED  BY <2>2, <3>1
  <2>3. CASE Active /\ \E S \in SUBSET Due :
               run' = MergeOccurrences(Watched(run, job.now), S, job.now)
    <3> DEFINE r == Watched(run, job.now)
    <3>1. r \in Run /\ r.occs = run.occs
      BY <2>3, ActiveRun, WatchedKeeps DEF Outer
    <3>2. PICK S \in SUBSET Due : run' = MergeOccurrences(r, S, job.now)
      BY <2>3
    <3> HIDE DEF r
    <3>3. run'.occs = r.occs \cup S
      BY <3>1, <3>2 DEF MergeOccurrences, Run
    <3> QED  BY <2>3, <3>1, <3>3, DueAfterFence
  <2>4. Rest \in Seq(Plain) /\ clock \in Nat
    BY <1>2, AtPlain DEF JoinDue, Outer
  <2>5. CASE ~Active
    BY <1>2, <2>5, <2>1 DEF JoinDue, NoCancel, run
  <2>6. CASE Active /\ vacation # "off"
    <3> DEFINE p == [st EXCEPT !.run = Watched(run, job.now)]
               on == vacation = "on"
    <3>1. p \in Profile /\ p.run = Watched(run, job.now)
      <4>1. Watched(run, job.now) \in Run
        BY <2>6, ActiveRun, WatchedType DEF Outer
      <4> QED  BY <1>0, <4>1 DEF Profile
    <3>2. Cancel(p, FALSE, FALSE, on, Rest)
      BY <1>2, <2>6 DEF JoinDue
    <3>3. on \in BOOLEAN
      OBVIOUS
    <3> HIDE DEF p, on
    <3>4. st'.run = p.run
      BY <2>4, <3>1, <3>2, <3>3, CancelDoes
    <3> QED  BY <2>2, <2>6, <3>1, <3>4 DEF run
  <2>7. CASE Active /\ vacation = "off"
    <3> DEFINE r == Watched(run, job.now)
               due == (Due \ r.occs) \cap ConnectedEpisode(r, Due, job.now).ids
               over == OverBudget(r, due)
               p == [st EXCEPT !.run = r, !.terminal = @ \cup over]
    <3>1. st' = p \/ st' = [p EXCEPT !.run = MergeOccurrences(r, due \ over, job.now)]
      BY <1>2, <2>7 DEF JoinDue, NoCancel
    <3>2. due \ over \in SUBSET Due
      OBVIOUS
    <3> HIDE DEF r, due, over
    <3>3. run' = r \/ run' = MergeOccurrences(r, due \ over, job.now)
      BY <1>0, <3>1 DEF Profile, run
    <3> QED  BY <2>2, <2>3, <2>7, <3>2, <3>3 DEF r
  <2> QED  BY <2>5, <2>6, <2>7 DEF JoinDue
<1>3. CASE Merged
  <2>1. run \in Run /\ Active
    BY <1>3, AtNeeds, NoRunAssumption DEF Merged, NeedRun, Active
  <2>2. run' = run \/ run' = job.prev
    BY <1>0, <1>3 DEF Merged, Profile, run
  <2>3. \A x \in job.prev.occs \ run.occs : job.prev.hold[x] <= clock
    <3>1. Soon("merged")
      BY <1>3, StagesAt DEF Merged, Soon
    <3> QED  BY <3>1 DEF FenceInner, PutBack
  <2> QED
    <3>1. CASE run' = run
      BY <2>1, <3>1
    <3>2. CASE run' = job.prev
      <4>1. job.prev \in Run /\ o \in job.prev.occs
        BY <3>2, FenceBase DEF Active
      <4>2. job.prev.hold[o] \in Nat /\ clock \in Nat
        BY <4>1, FenceBase DEF Run
      <4> QED  BY <2>1, <2>3, <3>2, <4>1, <4>2
    <3> QED  BY <2>2, <3>1, <3>2
<1>4. CASE ~Begin /\ ~JoinDue /\ ~Merged
  BY <1>4, OnlyTheseGrow DEF Shrinks, Active
<1> QED  BY <1>1, <1>2, <1>3, <1>4

\* A cancellation by the user keeps the room dark: while its fence stands no
\* run begins, however alarms are saved, deleted and dismissed meanwhile and
\* whatever is stored, restarted or still under way (remember_user_cancellation,
\* expand_relight_fence, resolve_profile_occurrences).
THEOREM CancellationKeepsDark == Spec => NoRelight
<1>1. TypeInv /\ FenceInv /\ [Next]_vars
        => [~Active /\ Active' /\ phase' # "down"
              => st'.fence.to = NoTime \/ clock > st'.fence.to]_vars
  BY NoRelightStep, TwoParts DEF FenceInv
<1> QED  BY <1>1, TypeInit, TypeNext, FenceInit, FenceNext, PTL DEF Spec, NoRelight

\* What has ended stays over: no occurrence that is terminal starts again or
\* joins a run, and a refused lease update brings one back only to complete it
\* once more, its hold being over (_reconcile_locked, remove_completed).
THEOREM EndedStaysOverAlways == Spec => EndedStaysOver
<1>1. TypeInv /\ FenceInv /\ [Next]_vars
        => [Active' /\ phase' # "down" => \A o \in run'.occs \cap st.terminal :
              (Active /\ o \in run.occs) \/ clock >= run'.hold[o]]_vars
  BY EndedStep, TwoParts DEF FenceInv
<1> QED  BY <1>1, TypeInit, TypeNext, FenceInit, FenceNext, PTL DEF Spec, EndedStaysOver

-----------------------------------------------------------------------------
(***************************************************************************)
(* A run that does not wait for its recovery can act.  While the room or   *)
(* the vacation forbid it the event that says so still waits for the lock, *)
(* and while no call failed PBL holds the lease of the run, or its revoke  *)
(* event waits.                                                            *)
(***************************************************************************)
Queued == {queue[i] : i \in 1 .. Len(queue)}
Waits(kind) == \E t \in Queued : t.kind = kind
RevokeWaits == \E t \in Queued : t.kind = "revoke" /\ t.gen = run.gen

\* The stages that give a run up, and those that take one up again.
Quits == {"cancelled", "failed", "abandoned"}
Recovering == {"recovered", "reacquired"}

\* A run that is neither given up nor still to be recovered.
InForce == Listening /\ Active /\ Special \cap (Quits \cup {"recover"}) = {}

Admitted ==
    InForce /\ (~run.pending \/ Special \cap Recovering # {})
        => /\ vacation # "off" => Waits("vacation")
           /\ room # "ready" => Waits("hazard")

Holding == pbl.status = "active" /\ pbl.lease = run.lease /\ pbl.gen = run.gen

\* A new run whose first lease is not granted yet.
Unanswered == "started" \in Special /\ ("acquire" \in Special \/ ~job.ok)

Leased ==
    Faultless /\ InForce /\ ~run.pending /\ "completed" \notin Special
        => \/ run.gen = 0 /\ Unanswered
           \/ run.gen # 0 /\ (Holding \/ RevokeWaits)

\* A recovery that was granted holds the lease.
Answered ==
    Special \cap Recovering # {} /\ "acquire" \notin Special /\ job.ok
        => Holding /\ run.gen # 0

\* The run that a refused update puts back is the same run.
SamePrev ==
    "merged" \in Special =>
        /\ job.prev.pending = run.pending /\ job.prev.lease = run.lease
        /\ job.prev.gen = run.gen \/ ("acquire" \notin Special /\ job.ok)

\* Only the lease of a run that ends is released.
ReleaseLast == "release" \in Special /\ Active => Special \cap (Quits \cup {"completed"}) # {}

CanInv == /\ Admitted /\ Leased /\ Answered /\ SamePrev /\ ReleaseLast
          /\ pbl.status # "none" => pbl.gen > 0
          /\ left.faults <= MaxFaults

\* The lease of a run and whether it waits for its recovery.
SameGrant(q, r) ==
    /\ q \in Run /\ r \in Run
    /\ q.lease = r.lease /\ q.gen = r.gen /\ q.exp = r.exp /\ q.pending = r.pending

\* The same run, with no more occurrences.
KeepsLease(q, r) ==
    q = r \/ (SameGrant(q, r) /\ q.occs \subseteq r.occs /\ q.hold = r.hold)

\* The same run, with occurrences that fit the expiry of its lease.
Extended(q, r) ==
    /\ SameGrant(q, r)
    /\ \A o \in q.occs : \/ o \in r.occs /\ q.hold[o] = r.hold[o]
                         \/ r.exp = NoTime \/ q.hold[o] <= r.exp

(***************************************************************************)
(* What the stages do to the run and to the stages to come.                *)
(***************************************************************************)
Carries == /\ KeepsLease(run', run)
           /\ Special \subseteq {"settling", "send", "ended"}
           /\ Special' \subseteq {"send", "acquire", "safeOff", "fence", "settling"}
Quitting == /\ KeepsLease(run', run)
            /\ Special' \cap Quits # {} /\ Special' \subseteq Quits \cup {"release"}
Gone == run' = NoRun /\ Special' \subseteq {"safeOff", "release", "ended"}
SameLease == Active /\ Active' /\ run'.lease = run.lease /\ run'.exp = run.exp
Retries == SameLease /\ run'.pending /\ Special' = {}
AsksAgain == /\ Preflight /\ SameLease /\ run'.pending
             /\ Special' = {"acquire", "recovered"} \/ Special' = {"acquire", "reacquired"}
Starts == /\ ~Active /\ Preflight /\ run'.gen = 0 /\ run'.exp = NoTime /\ ~run'.pending
          /\ run'.lease \notin st'.terminal
          /\ \A o \in run'.occs : /\ o \in Occ /\ RampStart[o] <= job.now
                                  /\ run'.hold[o] = ScheduledHold(o, job.now)
          /\ Special' = {"acquire", "started"}
Joins == /\ Special = {} /\ Special' = {"acquire", "merged"}
         /\ Active /\ Extended(run', run) /\ KeepsLease(job'.prev, run)
Resumes == /\ Special = {"recovered"} \/ Special = {"reacquired"}
           /\ job.ok /\ Special' = {} /\ SameLease /\ run'.gen = run.gen
Completes == /\ Special = {} /\ run' = run
             /\ "completed" \in Special' /\ Special' \subseteq {"completed", "release"}
PutsBack == /\ Special = {"merged"} /\ Special' = {} /\ run # NoRun
            /\ run' = IF job.ok THEN run ELSE job.prev
Opens == Special = {"started"} /\ Special' = {} /\ job.ok /\ run' = run

\* What a stage does that neither starts a run nor takes a recovery up.
Plods == Carries \/ Quitting \/ Gone \/ Joins \/ Completes \/ PutsBack \/ Opens
Moves == Plods \/ Retries \/ AsksAgain \/ Starts \/ Resumes

\* The stages leave alone what the invariant says of the environment.
Alone == UNCHANGED <<proc, queue, pbl, vacation, room>> /\ left'.faults <= left.faults

\* Faults are only spent.
LEMMA StillFaultless ==
    ASSUME CanInv, MaxFaults \in Nat, left.faults \in Nat, left'.faults \in Nat,
           left'.faults <= left.faults
    PROVE  left'.faults <= MaxFaults /\ (Faultless' => Faultless)
BY DEF CanInv, Faultless

\* Every one of these moves keeps the invariant.
LEMMA CanMove ==
    ASSUME CanInv, MaxFaults \in Nat, left.faults \in Nat, left'.faults \in Nat,
           Alone, Moves
    PROVE  CanInv'
<1>1. /\ queue' = queue /\ pbl' = pbl /\ vacation' = vacation /\ room' = room
      /\ left'.faults <= MaxFaults /\ (Faultless' => Faultless)
      /\ Listening' = Listening /\ Queued' = Queued
  BY StillFaultless DEF Alone, proc, Listening, Queued
<1>2. \A k : Waits(k)' = Waits(k)
  BY <1>1 DEF Waits
<1> USE DEF CanInv, Quits, Recovering
<1>3. CASE Quitting
  BY <1>1, <1>3 DEF Quitting, Admitted, Leased, Answered, SamePrev, ReleaseLast, InForce
<1>4. CASE Gone
  BY <1>1, <1>4 DEF Gone, Admitted, Leased, Answered, SamePrev, ReleaseLast, InForce, Active, run
<1>5. CASE Retries
  BY <1>1, <1>5 DEF Retries, Admitted, Leased, Answered, SamePrev, ReleaseLast, run
<1>6. CASE AsksAgain
  BY <1>1, <1>6 DEF AsksAgain, Admitted, Leased, Answered, SamePrev, ReleaseLast, Preflight, run
<1>7. CASE Starts
  BY <1>1, <1>7 DEF Starts, Admitted, Leased, Answered, SamePrev, ReleaseLast, Preflight,
     Unanswered, run
<1>8. ASSUME KeepsLease(run', run), run' # NoRun => run # NoRun
      PROVE  /\ Active' => Active
             /\ Active' => run'.pending = run.pending /\ run'.gen = run.gen
             /\ Active' => Holding' = Holding /\ RevokeWaits' = RevokeWaits
  BY <1>1, <1>8 DEF KeepsLease, SameGrant, Holding, RevokeWaits, Active, run
<1>9. KeepsLease(run', run) => (run' # NoRun => run # NoRun)
  BY NoRunAssumption DEF KeepsLease, SameGrant
<1>10. CASE Carries
  <2>1. InForce' => InForce
    BY <1>1, <1>8, <1>9, <1>10 DEF Carries, InForce
  <2>2. Admitted'
    BY <1>1, <1>2, <1>8, <1>9, <1>10, <2>1 DEF Carries, Admitted, InForce
  <2>3. Leased'
    BY <1>1, <1>8, <1>9, <1>10, <2>1 DEF Carries, Leased, Unanswered, InForce
  <2> QED  BY <1>1, <1>10, <2>2, <2>3 DEF Carries, Answered, SamePrev, ReleaseLast
<1>11. CASE Joins
  <2>0. /\ Active => run'.pending = run.pending /\ run'.gen = run.gen
        /\ Holding' = Holding /\ RevokeWaits' = RevokeWaits
    BY <1>1, <1>11 DEF Joins, Extended, SameGrant, Holding, RevokeWaits, Active, run
  <2>1. InForce' => InForce
    BY <1>1, <1>11 DEF Joins, InForce
  <2>2. Admitted'
    BY <1>1, <1>2, <1>11, <2>0, <2>1 DEF Joins, Admitted, InForce
  <2>3. Leased'
    BY <1>1, <1>11, <2>0, <2>1 DEF Joins, Leased, Unanswered, InForce
  <2>4. SamePrev'
    BY <1>11 DEF Joins, SamePrev, Extended, KeepsLease, SameGrant, run
  <2> QED  BY <1>1, <1>11, <2>2, <2>3, <2>4 DEF Joins, Answered, ReleaseLast
<1>12. CASE Resumes
  <2>1. Holding /\ run.gen # 0
    BY <1>12 DEF Resumes, Answered
  <2>2. Leased'
    BY <1>1, <1>12, <2>1 DEF Resumes, SameLease, Leased, Holding, run
  <2>3. Admitted'
    BY <1>1, <1>2, <1>12 DEF Resumes, SameLease, Admitted, InForce, Active
  <2> QED  BY <1>1, <1>12, <2>2, <2>3 DEF Resumes, Answered, SamePrev, ReleaseLast
<1>13. CASE Completes
  <2>1. InForce' => InForce
    BY <1>1, <1>13 DEF Completes, InForce, Active
  <2> QED  BY <1>1, <1>2, <1>13, <2>1 DEF Completes, Admitted, Leased, Answered, SamePrev,
              ReleaseLast
<1>14. CASE PutsBack
  <2>1. /\ run'.pending = run.pending /\ run'.gen = run.gen /\ run'.lease = run.lease
    BY <1>14 DEF PutsBack, SamePrev
  <2>2. InForce' => InForce
    BY <1>1, <1>14 DEF PutsBack, InForce, Active
  <2>3. Leased'
    BY <1>1, <1>14, <2>1, <2>2 DEF PutsBack, Leased, Unanswered, Holding, RevokeWaits, run
  <2>4. Admitted'
    BY <1>1, <1>2, <1>14, <2>1, <2>2 DEF PutsBack, Admitted, run
  <2> QED  BY <1>1, <1>14, <2>3, <2>4 DEF PutsBack, Answered, SamePrev, ReleaseLast
<1>15. CASE Opens
  <2>1. InForce' => InForce
    BY <1>1, <1>15 DEF Opens, InForce, Active
  <2>2. Leased'
    BY <1>1, <1>15, <2>1 DEF Opens, Leased, Unanswered, Holding, RevokeWaits, run
  <2>3. Admitted'
    BY <1>1, <1>2, <1>15, <2>1 DEF Opens, Admitted, run
  <2> QED  BY <1>1, <1>15, <2>2, <2>3 DEF Opens, Answered, SamePrev, ReleaseLast
<1> QED  BY <1>3, <1>4, <1>5, <1>6, <1>7, <1>10, <1>11, <1>12, <1>13, <1>14, <1>15
            DEF Moves, Plods

-----------------------------------------------------------------------------
\* Giving the run up, when there is one.
LEMMA CancelMoves ==
    ASSUME Inner, clock \in Nat, NEW p \in Profile, NEW u \in BOOLEAN, NEW v \in BOOLEAN,
           NEW w \in BOOLEAN, NEW rest \in Seq(Plain), Cancel(p, u, v, w, rest),
           p.run = NoRun \/ KeepsLease(p.run, run)
    PROVE  Quitting \/ Gone
<1>1. /\ run' = p.run
      /\ p.run = NoRun => Special' = {}
      /\ p.run # NoRun => "cancelled" \in Special' /\ Special' \subseteq {"release", "cancelled"}
  BY CancelDoes DEF run
<1> QED  BY <1>1 DEF Quitting, Gone, Quits

\* Giving a recovery up, or trying again later.
LEMMA FailMoves ==
    ASSUME Inner, Outer, NEW r \in Run, KeepsLease(r, run), NEW rest \in Seq(Plain),
           \/ FailRecovery(r, rest) \/ RetryOrFail(r, rest) \/ BlockedRecovery(r, rest)
    PROVE  Quitting \/ Gone \/ Retries
<1>1. st \in Profile /\ clock \in Nat
  BY DEF Inner, Outer
<1>2. CASE /\ st' = [st EXCEPT !.run = r]
           /\ Special' = {"failed"} \cup (IF r.gen = 0 THEN {} ELSE {"release"})
  <2>1. run' = r
    BY <1>1, <1>2 DEF Profile, run
  <2> QED  BY <1>2, <2>1 DEF Quitting, Quits
<1>3. CASE st' = [st EXCEPT !.run = [r EXCEPT !.pending = TRUE]] /\ Special' = {}
  <2>1. run' = [r EXCEPT !.pending = TRUE]
    BY <1>1, <1>3 DEF Profile, run
  <2>2. /\ run'.pending /\ run' \in Run /\ run \in Run
        /\ run'.lease = run.lease /\ run'.exp = run.exp
    BY <2>1 DEF Run, KeepsLease, SameGrant
  <2> QED  BY <1>3, <2>2, NoRunAssumption DEF Retries, SameLease, Active
<1>4. CASE Cancel([st EXCEPT !.run = r], FALSE, FALSE, VacationBlocks, rest)
  <2>1. /\ [st EXCEPT !.run = r] \in Profile /\ [st EXCEPT !.run = r].run = r
        /\ VacationBlocks \in BOOLEAN
    BY <1>1 DEF Profile, VacationBlocks, Available
  <2> QED  BY <1>1, <1>4, <2>1, CancelMoves
<1> QED  BY <1>2, <1>3, <1>4, FailRecoveryDoes, RetryOrFailDoes DEF BlockedRecovery

\* Keeping the lease of the run before plain stages.
LEMMA KeepMoves ==
    ASSUME Inner, NEW p, KeepsLease(p.run, run), NEW rest \in Seq(Plain), NoCancel(p, rest),
           Special \subseteq {"settling", "send", "ended"}
    PROVE  Carries
BY NoCancelDoes DEF Carries, run

\* Losing a leaf keeps it too.
LEMMA LeafMoves ==
    ASSUME Inner, Outer, NEW l, NEW rest \in Seq(Plain), ReleaseLeaf(l, rest),
           Special \subseteq {"settling", "send", "ended"}
    PROVE  Carries \/ Quitting \/ Gone
<1>0. st \in Profile /\ clock \in Nat
  BY DEF Inner, Outer
<1>1. CASE \E revoked \in BOOLEAN : Cancel(st, TRUE, revoked, FALSE, rest)
  BY <1>0, <1>1, CancelMoves DEF KeepsLease, run
<1>2. CASE st' = st /\ Special' = {}
  BY <1>2 DEF Carries, KeepsLease, run
<1>3. CASE /\ run \in Run /\ ReleaseLeaves(run, {l}) \in Run
           /\ st' = [st EXCEPT !.run = ReleaseLeaves(run, {l})]
           /\ Special' = {"acquire"}
  <2> DEFINE q == ReleaseLeaves(run, {l})
  <2>1. /\ q.lease = run.lease /\ q.gen = run.gen /\ q.exp = run.exp
        /\ q.pending = run.pending /\ q.occs = run.occs /\ q.hold = run.hold
    BY <1>3, ReleaseLeavesSame
  <2>2. run' = q
    BY <1>0, <1>3 DEF Profile, run
  <2> HIDE DEF q
  <2> QED  BY <1>3, <2>1, <2>2 DEF Carries, KeepsLease, SameGrant, q
<1> QED  BY <1>1, <1>2, <1>3, ReleaseLeafDoes

\* At a plain stage nothing else is to come.
LEMMA PlainAt ==
    ASSUME Inner, NEW a \in Plain, At(a)
    PROVE  Special = {}
<1>1. a \notin {"acquire", "release", "safeOff"}
  BY DEF Plain, NeedRun, NeedPrev
<1> QED  BY <1>1, SpecialAt

PlainNames == {"reconcile", "drain", "pending", "active", "complete", "begin", "dispatch",
               "decide", "finish", "updated"}

\* These are plain stages.
LEMMA PlainNamesPlain == PlainNames \subseteq Plain
BY DEF PlainNames, Plain, StageNames, NeedRun, NeedPrev, FirstOnly

\* The plain stages that go on with the run there is.
LEMMA EasyMoves ==
    ASSUME Inner, Outer, Reconcile \/ Drain \/ Dispatch \/ Updated \/ Finish PROVE Plods
<1>0. st \in Profile /\ clock \in Nat /\ clock \in Int /\ job.now \in Int
  BY DEF Inner, Outer, Jobs
<1>1. Special = {} /\ Rest \in Seq(Plain) /\ stack \in Seq(Plain)
  <2>1. \E a \in PlainNames : At(a)
    BY DEF Reconcile, Drain, Dispatch, Updated, Finish, PlainNames
  <2>2. stack \in Seq(Plain)
    BY <2>1, PlainNamesPlain, AtAllPlain DEF PlainNames, NeedRun, NeedPrev
  <2> QED  BY <2>1, <2>2, PlainNamesPlain, PlainAt, AtPlain DEF PlainNames
<1>2. CASE Reconcile \/ Finish
  <2>1. run' = run
    BY <1>0, <1>2, RefreshedType DEF Reconcile, Finish, run
  <2>2. stack' = Pipeline \/ stack' = <<"save">> \/ stack' = <<>>
    BY <1>2 DEF Reconcile, Finish, Goto
  <2>3. stack' \in Seq(Plain)
    <3>1. <<"save">> \in Seq(Plain) /\ <<>> \in Seq(Plain)
      BY DEF Plain, StageNames, NeedRun, NeedPrev, FirstOnly
    <3> QED  BY <2>2, <3>1, PipelinePlain
  <2> QED  BY <1>1, <2>1, <2>3, SpecialPlain DEF Plods, Carries, KeepsLease
<1>3. CASE Drain
  <2>1. \/ NoCancel(st, Rest) \/ NoCancel(st, stack) \/ \E l \in Leaf : ReleaseLeaf(l, stack)
    BY <1>3 DEF Drain
  <2> QED  BY <1>1, <2>1, KeepMoves, LeafMoves DEF Plods, KeepsLease, run
<1>4. CASE Dispatch
  <2>1. <<"drain", "decide">> \in Seq(Plain)
    BY DEF Plain, StageNames, NeedRun, NeedPrev, FirstOnly
  <2>2. <<"drain", "decide">> \o Rest \in Seq(Plain)
    BY <1>1, <2>1, ConcatProperties
  <2>3. NoCancel(st, <<"drain", "decide">> \o Rest) \/ NoCancel(st, Rest)
    BY <1>4 DEF Dispatch
  <2> QED  BY <1>1, <2>2, <2>3, KeepMoves DEF Plods, KeepsLease, run
<1>5. CASE Updated
  BY <1>0, <1>1, <1>5, KeepMoves, CancelMoves DEF Updated, Plods, KeepsLease, run
<1> QED  BY <1>2, <1>3, <1>4, <1>5

\* A call and the stage that looks at its answer.
LEMMA CallSpecial ==
    ASSUME NEW s \in Seq(Plain),
           NEW b \in {"reacquired", "recovered", "merged", "started"},
           stack' = <<"acquire", b>> \o s
    PROVE  Special' = {"acquire", b}
<1>1. {"acquire", b} \subseteq StageNames /\ {"acquire", b} \cap Plain = {}
  BY DEF StageNames, Plain, NeedRun
<1> QED  BY <1>1, SpecialCall

\* Taking a recovery up.
LEMMA RecoveryMoves ==
    ASSUME Inner, Outer, Pending \/ Reacquired \/ Recovered PROVE Moves
<1>0. st \in Profile
  BY DEF Inner
<1>1. Rest \in Seq(Plain) /\ <<"finish">> \in Seq(Plain)
  BY AtPlain, PipelinePlain DEF Pending, Reacquired, Recovered
<1>2. CASE Pending
  <2>1. Special = {}
    BY <1>2, PlainNamesPlain, PlainAt DEF Pending, PlainNames
  <2>2. CASE NoCancel(st, Rest) \/ NoCancel(st, <<"finish">>)
    BY <1>1, <2>1, <2>2, KeepMoves DEF Moves, Plods, KeepsLease, run
  <2>3. CASE Active /\ (FailRecovery(run, <<"finish">>) \/ BlockedRecovery(run, <<"finish">>))
    BY <1>1, <2>3, ActiveRun, FailMoves DEF Moves, Plods, KeepsLease
  <2>4. CASE /\ Preflight /\ Active /\ run.pending
             /\ NoCancel(st, <<"acquire", "reacquired">> \o Rest)
    <3>1. Special' = {"acquire", "reacquired"} /\ run' = run
      BY <1>1, <2>4, CallSpecial DEF NoCancel, Goto, run
    <3> QED  BY <2>4, <3>1 DEF Moves, AsksAgain, SameLease, Active
  <2> QED  BY <1>2, <2>2, <2>3, <2>4 DEF Pending
<1>3. CASE Reacquired \/ Recovered
  <2>1. run \in Run
    BY <1>3, AtNeeds DEF Reacquired, Recovered, NeedRun
  <2>2. Special = {"recovered"} \/ Special = {"reacquired"}
    <3>1. {"recovered", "reacquired"} \cap Plain = {}
      BY DEF Plain, NeedRun
    <3> QED  BY <1>3, <3>1, SpecialAt DEF Recovered, Reacquired
  <2>3. CASE job.ok /\ NoCancel([st EXCEPT !.run = Resumed], Rest)
    <3>1. run' = Resumed /\ Special' = {}
      BY <1>0, <1>1, <2>3, NoCancelDoes DEF Profile, run
    <3>2. /\ Resumed.lease = run.lease /\ Resumed.gen = run.gen /\ Resumed.exp = run.exp
          /\ Resumed \in Run
      <4>1. RefreshHolds(run, job.now) \in Run
        BY <2>1, RefreshHoldsType DEF Inner, Jobs
      <4> QED  BY <2>1, <4>1 DEF Resumed, RefreshHolds, Run
    <3> QED  BY <2>1, <2>2, <2>3, <3>1, <3>2, NoRunAssumption
                DEF Moves, Resumes, SameLease, Active
  <2>4. CASE NotRecovered(Rest) \/ NotRecovered(<<"finish">>)
    BY <1>1, <2>1, <2>4, FailMoves DEF Moves, Plods, NotRecovered, KeepsLease
  <2> QED  BY <1>3, <2>3, <2>4 DEF Reacquired, Recovered
<1> QED  BY <1>2, <1>3

\* Joining the run.
LEMMA JoinMoves ==
    ASSUME Inner, Outer, JoinDue PROVE Plods
<1>0. st \in Profile /\ clock \in Nat /\ job \in Jobs
  BY DEF Inner, Outer
<1>1. Rest \in Seq(Plain) /\ Special = {}
  BY AtPlain, PlainNamesPlain, PlainAt DEF JoinDue, PlainNames
<1>2. CASE ~Active
  BY <1>1, <1>2, KeepMoves DEF JoinDue, Plods, KeepsLease, run
<1>3. CASE Active
  <2> DEFINE r == Watched(run, job.now)
             due == (Due \ r.occs) \cap ConnectedEpisode(r, Due, job.now).ids
             over == OverBudget(r, due)
             p == [st EXCEPT !.run = r, !.terminal = @ \cup over]
             m == MergeOccurrences(r, due \ over, job.now)
             on == vacation = "on"
  <2>1. /\ run \in Run /\ r \in Run /\ r.lease = run.lease /\ r.gen = run.gen
        /\ r.exp = run.exp /\ r.pending = run.pending /\ r.occs = run.occs /\ r.hold = run.hold
    BY <1>3, ActiveRun, WatchedKeeps DEF Outer
  <2>2. m.lease = r.lease /\ m.gen = r.gen /\ m.exp = r.exp /\ m.pending = r.pending
    BY <2>1 DEF MergeOccurrences, Run
  <2>3. /\ p.run = r /\ [p EXCEPT !.run = m].run = m
        /\ [st EXCEPT !.run = r] \in Profile /\ [st EXCEPT !.run = r].run = r
    <3> HIDE DEF r, over, m
    <3> QED  BY <1>0, <2>1 DEF Profile
  <2>4. m \in Run
    <3>2. due \ over \in SUBSET Occ
      BY DEF Due, Inner
    <3> HIDE DEF r, due, over
    <3> QED  BY <2>1, <3>2, MergeType, <1>0 DEF Jobs
  <2>5. \/ Cancel([st EXCEPT !.run = r], FALSE, FALSE, on, Rest)
        \/ NoCancel(p, Rest)
        \/ /\ st' = [p EXCEPT !.run = m] /\ job' = [job EXCEPT !.prev = r]
           /\ stack' = <<"acquire", "merged">> \o Rest
    BY <1>3 DEF JoinDue, Goto
  <2>6. on \in BOOLEAN
    OBVIOUS
  <2>10. ASSUME NEW o \in m.occs
         PROVE  \/ o \in run.occs /\ m.hold[o] = run.hold[o]
                \/ run.exp = NoTime \/ m.hold[o] <= run.exp
    <3> DEFINE fits == due \ over
    <3>1. ASSUME o \in fits PROVE run.exp = NoTime \/ ScheduledHold(o, job.now) <= run.exp
      <4>1. o \in due /\ ~(r.exp # NoTime /\ ScheduledHold(o, job.now) > r.exp)
        BY <3>1 DEF OverBudget
      <4>2. o \in Occ
        BY <4>1 DEF Due, Inner
      <4>3. ScheduledHold(o, job.now) \in Int /\ r.exp \in Int
        BY <1>0, <2>1, <4>2, TimeAssumption DEF ScheduledHold, Later, Jobs, Run
      <4> HIDE DEF r
      <4> QED  BY <2>1, <4>1, <4>3
    <3>2. fits \in SUBSET Occ
      BY DEF Due, Inner
    <3>3. m = MergeOccurrences(r, fits, job.now)
      OBVIOUS
    <3> HIDE DEF r, fits, m
    <3>4. /\ m.occs = r.occs \cup fits
          /\ m.hold = [x \in Occ |-> IF x \in fits \ r.occs THEN ScheduledHold(x, job.now)
                                     ELSE r.hold[x]]
      BY <2>1, <3>3 DEF MergeOccurrences, Run
    <3>5. o \in Occ
      BY <2>1, <3>2, <3>4 DEF Run
    <3>6. CASE o \in r.occs
      BY <2>1, <3>4, <3>5, <3>6
    <3>7. CASE o \notin r.occs
      BY <3>1, <3>4, <3>5, <3>7
    <3> QED  BY <3>6, <3>7
  <2> HIDE DEF r, due, over, p, m, on
  <2>7. CASE Cancel([st EXCEPT !.run = r], FALSE, FALSE, on, Rest)
    BY <1>0, <1>1, <2>1, <2>3, <2>6, <2>7, CancelMoves DEF Plods, KeepsLease, SameGrant
  <2>8. CASE NoCancel(p, Rest)
    BY <1>1, <2>1, <2>3, <2>8, KeepMoves DEF Plods, KeepsLease, SameGrant
  <2>9. CASE /\ st' = [p EXCEPT !.run = m] /\ job' = [job EXCEPT !.prev = r]
             /\ stack' = <<"acquire", "merged">> \o Rest
    <3>1. Special' = {"acquire", "merged"}
      BY <1>1, <2>9, CallSpecial
    <3>2. run' = m /\ job'.prev = r
      BY <1>0, <2>3, <2>9 DEF Jobs, run
    <3>3. Extended(run', run)
      BY <2>1, <2>2, <2>4, <2>10, <3>2 DEF Extended, SameGrant
    <3>4. KeepsLease(job'.prev, run)
      BY <2>1, <3>2 DEF KeepsLease, SameGrant
    <3> QED  BY <1>1, <1>3, <3>1, <3>3, <3>4 DEF Plods, Joins
  <2> QED  BY <2>5, <2>7, <2>8, <2>9
<1> QED  BY <1>2, <1>3

-----------------------------------------------------------------------------
\* Occurrences that leave the run, the last one with its release.
LEMMA CompleteMoves ==
    ASSUME Inner, Outer, Complete PROVE Plods
<1>0. st \in Profile /\ job \in Jobs
  BY DEF Inner
<1>1. Rest \in Seq(Plain) /\ Special = {}
  BY AtPlain, PlainNamesPlain, PlainAt DEF Complete, PlainNames
<1> DEFINE done == IF Active THEN Completed(run, job.now) ELSE {}
           p == [st EXCEPT !.alarms = @ \ done,
                           !.terminal = @ \cup done,
                           !.missed = @ \cup (done \ run.final)]
<1>2. CASE NoCancel(st, Rest)
  BY <1>1, <1>2, KeepMoves DEF Plods, KeepsLease, run
<1>3. CASE done # {}
  <2>1. run \in Run /\ Active
    BY <1>3, ActiveRun
  <2>2. /\ job' = [job EXCEPT !.prev = run]
        /\ \/ st' = p /\ stack' = ReleaseOf(run) \o <<"completed">> \o Rest
           \/ /\ run.occs # done /\ st' = [p EXCEPT !.run = Without(run, done)]
              /\ stack' = <<"acquire", "merged">> \o Rest
    BY <1>3 DEF Complete, Goto
  <2>3. done \subseteq run.occs
    BY <2>1 DEF Completed
  <2> HIDE DEF done
  <2>4. p.run = run /\ \A r : [p EXCEPT !.run = r].run = r
    BY <1>0 DEF Profile, run
  <2> HIDE DEF p
  <2>5. CASE st' = p /\ stack' = ReleaseOf(run) \o <<"completed">> \o Rest
    <3>1. "completed" \in StageNames \ Plain
      BY DEF StageNames, Plain, NeedRun
    <3>2. Special' = {"completed"} \cup (IF run.gen = 0 THEN {} ELSE {"release"})
      BY <1>1, <2>5, <3>1, SpecialRelease
    <3>3. "completed" \in Special' /\ Special' \subseteq {"completed", "release"}
      BY <3>2
    <3> QED  BY <1>1, <2>4, <2>5, <3>3 DEF Plods, Completes, run
  <2>6. CASE /\ run.occs # done /\ st' = [p EXCEPT !.run = Without(run, done)]
             /\ stack' = <<"acquire", "merged">> \o Rest
    <3>1. Special' = {"acquire", "merged"}
      BY <1>1, <2>6, CallSpecial
    <3>2. run' = Without(run, done) /\ job'.prev = run
      BY <1>0, <2>2, <2>4, <2>6 DEF Jobs, run
    <3>3. /\ run' \in Run /\ run'.lease = run.lease /\ run'.gen = run.gen
          /\ run'.exp = run.exp /\ run'.pending = run.pending
          /\ run'.occs \subseteq run.occs /\ run'.hold = run.hold
      <4>1. ~(run.occs \subseteq done)
        BY <2>3, <2>6
      <4> QED  BY <2>1, <3>2, <4>1 DEF Without, Run
    <3>4. Extended(run', run) /\ KeepsLease(job'.prev, run)
      BY <2>1, <3>2, <3>3 DEF Extended, KeepsLease, SameGrant
    <3> QED  BY <1>1, <2>1, <3>1, <3>4 DEF Plods, Joins
  <2> QED  BY <2>2, <2>5, <2>6
<1> QED  BY <1>2, <1>3 DEF Complete

\* The answers that end the run.
LEMMA EndMoves ==
    ASSUME Inner, Outer,
           CompletedRun \/ Failed \/ Abandoned \/ Cancelled \/ Ended \/ Fence
    PROVE  Plods
<1>0. st \in Profile
  BY DEF Inner
<1>1. Rest \in Seq(Plain)
  BY AtPlain DEF CompletedRun, Failed, Abandoned, Cancelled, Ended, Fence
<1>2. CASE CompletedRun \/ Failed \/ Abandoned \/ Fence
  <2>1. run' = NoRun /\ stack' = Rest
    BY <1>0, <1>2 DEF CompletedRun, Failed, Abandoned, Fence, RememberUserCancellation, Profile,
       Goto, run
  <2>2. Special' = {}
    BY <1>1, <2>1, SpecialPlain
  <2> QED  BY <2>1, <2>2 DEF Plods, Gone
<1>3. CASE Cancelled
  <2>1. run' = NoRun
    BY <1>0, <1>3 DEF Cancelled, RememberUserCancellation, Profile, run
  <2>2. stack' = <<"safeOff">> \o Rest \/ stack' = Rest
    BY <1>3 DEF Cancelled, Goto
  <2>3. Special' = {"safeOff"} \ Plain \/ Special' = {}
    BY <1>1, <2>2, SpecialOne, SpecialPlain DEF StageNames
  <2> QED  BY <2>1, <2>3 DEF Plods, Gone
<1>4. CASE Ended
  <2>1. run' = run
    BY <1>4 DEF Ended, run
  <2>2. stack' = (IF OwnedLights(job.prev) = {} THEN <<>> ELSE <<"safeOff">>)
                    \o <<"fence">> \o Rest
    BY <1>4 DEF Ended, Goto
  <2>3. stack' = <<"fence">> \o Rest \/ stack' = <<"safeOff", "fence">> \o Rest
    BY <2>2, Joined
  <2>4. Special' = {"fence"} \ Plain \/ Special' = {"safeOff", "fence"} \ Plain
    BY <1>1, <2>3, SpecialOne, SpecialCall DEF StageNames
  <2>5. Special = {"ended"}
    <3>1. "ended" \notin Plain
      BY DEF Plain, NeedPrev
    <3> QED  BY <1>4, <3>1, SpecialAt DEF Ended
  <2> QED  BY <2>1, <2>4, <2>5 DEF Plods, Carries, KeepsLease
<1> QED  BY <1>2, <1>3, <1>4

\* The answers that open, join or refuse.
LEMMA AnswerMoves ==
    ASSUME Inner, Outer, Merged \/ Started PROVE Plods
<1>0. st \in Profile /\ {"merged", "started"} \cap Plain = {}
  BY DEF Inner, Plain, NeedRun
<1>1. Rest \in Seq(Plain) /\ run \in Run
  BY AtPlain, AtNeeds DEF Merged, Started, NeedRun
<1>2. stack' = Rest
  BY DEF Merged, Started, NoCancel, Goto
<1>3. Special' = {}
  BY <1>1, <1>2, SpecialPlain
<1>4. CASE Merged
  <2>1. run' = IF job.ok THEN run ELSE job.prev
    BY <1>0, <1>4 DEF Merged, Profile, run
  <2>2. Special = {"merged"}
    BY <1>0, <1>4, SpecialAt DEF Merged
  <2> QED  BY <1>1, <1>3, <2>1, <2>2, NoRunAssumption DEF Plods, PutsBack
<1>5. CASE Started
  <2>1. (job.ok /\ run' = run) \/ run' = NoRun
    BY <1>0, <1>5 DEF Started, NoCancel, Profile, run
  <2>2. Special = {"started"}
    BY <1>0, <1>5, SpecialAt DEF Started
  <2> QED  BY <1>3, <2>1, <2>2 DEF Plods, Opens, Gone
<1> QED  BY <1>4, <1>5

\* Starting a run.
LEMMA BeginMoves ==
    ASSUME Inner, Outer, Begin PROVE Plods \/ Starts
<1>0. st \in Profile
  BY DEF Inner
<1>1. Rest \in Seq(Plain) /\ Special = {}
  BY AtPlain, PlainNamesPlain, PlainAt DEF Begin, PlainNames
<1>2. CASE NoCancel(st, Rest)
  BY <1>1, <1>2, KeepMoves DEF Plods, KeepsLease, run
<1>3. CASE /\ ~Active /\ Due # {} /\ Preflight
           /\ NoCancel([st EXCEPT !.run = StartRun(Due, job.now, TargetFloor(Leaf))],
                       <<"acquire", "started">> \o Rest)
  <2>1. run' = StartRun(Due, job.now, TargetFloor(Leaf)) /\ st'.terminal = st.terminal
    BY <1>0, <1>3 DEF NoCancel, Profile, run
  <2>2. run'.gen = 0 /\ run'.exp = NoTime /\ ~run'.pending
    BY <2>1 DEF StartRun
  <2>3. Special' = {"acquire", "started"}
    BY <1>1, <1>3, CallSpecial DEF NoCancel, Goto
  <2>4. \A o \in run'.occs : /\ o \in Occ /\ RampStart[o] <= job.now
                             /\ run'.hold[o] = ScheduledHold(o, job.now)
    BY <2>1 DEF StartRun, Due, Inner
  <2>5. run'.lease \notin st'.terminal
    <3>1. Due \in (SUBSET Occ) \ {{}} /\ Due \cap st.terminal = {}
      BY <1>3 DEF Due, Inner
    <3>2. FirstOf(Due) \in Due /\ run'.lease = FirstOf(Due)
      BY <2>1, <3>1, FirstOfIn DEF StartRun
    <3> QED  BY <2>1, <3>1, <3>2
  <2> QED  BY <1>3, <2>2, <2>3, <2>4, <2>5 DEF Starts
<1> QED  BY <1>2, <1>3 DEF Begin

\* Deciding on a command.
LEMMA DecideMoves ==
    ASSUME Inner, Outer, Decide PROVE Plods
<1>0. st \in Profile
  BY DEF Inner
<1>1. Rest \in Seq(Plain) /\ Special = {}
  BY AtPlain, PlainNamesPlain, PlainAt DEF Decide, PlainNames
<1>2. CASE NoCancel(st, Rest)
  BY <1>1, <1>2, KeepMoves DEF Plods, KeepsLease, run
<1>3. CASE /\ Active
           /\ NoCancel([st EXCEPT !.run.next =
                          IF revokeBy # NoTime /\ @ # NoTime THEN @
                          ELSE NextDeadline(run, job.now)], Rest)
  <2> DEFINE n == IF revokeBy # NoTime /\ run.next # NoTime THEN run.next
                  ELSE NextDeadline(run, job.now)
             p == [st EXCEPT !.run = [run EXCEPT !.next = n]]
  <2>1. run \in Run
    BY <1>3, ActiveRun
  <2>2. NoCancel(p, Rest)
    BY <1>0, <1>3, <2>1 DEF run, Profile, Run
  <2>3. n \in Int
    BY <2>1, NextDeadlineType DEF Run, Inner, Jobs
  <2> HIDE DEF n
  <2>4. /\ p.run \in Run /\ p.run.lease = run.lease /\ p.run.gen = run.gen
        /\ p.run.exp = run.exp /\ p.run.pending = run.pending
        /\ p.run.occs = run.occs /\ p.run.hold = run.hold
    <3>1. p.run = [run EXCEPT !.next = n]
      BY <1>0 DEF Profile
    <3> QED  BY <2>1, <2>3, <3>1 DEF Run
  <2> HIDE DEF p
  <2> QED  BY <1>1, <2>1, <2>2, <2>4, KeepMoves DEF Plods, KeepsLease, SameGrant
<1>4. CASE /\ stack' = <<"send">> \o Rest
           /\ UNCHANGED st
  <2>1. Special' = {"send"} \ Plain
    BY <1>1, <1>4, SpecialOne DEF StageNames
  <2> QED  BY <1>1, <1>4, <2>1 DEF Plods, Carries, KeepsLease, run
<1> QED  BY <1>2, <1>3, <1>4 DEF Decide, Goto

\* Recovering after a restart.
LEMMA RecoverMoves ==
    ASSUME Inner, Outer, RecoverNothing \/ RecoverRootOff \/ RecoverNoTargets \/ RecoverRun
    PROVE  Moves
<1>0. st \in Profile /\ clock \in Nat
  BY DEF Inner, Outer
<1>1. Rest \in Seq(Plain)
  BY AtPlain DEF RecoverNothing, RecoverRootOff, RecoverNoTargets, RecoverRun
<1>2. CASE RecoverNothing
  <2>1. run' = NoRun /\ Special' = {}
    BY <1>1, <1>2, NoCancelDoes DEF RecoverNothing, Active, run
  <2> QED  BY <2>1 DEF Moves, Plods, Gone
<1>3. CASE RecoverRootOff
  BY <1>0, <1>1, <1>3, CancelMoves DEF RecoverRootOff, Moves, Plods, KeepsLease, run
<1>4. CASE RecoverNoTargets
  <2>1. stack' = ReleaseOf(run) \o <<"abandoned">> \o Rest /\ run' = run
    BY <1>4 DEF RecoverNoTargets, Goto, run
  <2>2. "abandoned" \in StageNames \ Plain
    BY DEF StageNames, Plain, NeedPrev
  <2>3. Special' = {"abandoned"} \cup (IF run.gen = 0 THEN {} ELSE {"release"})
    BY <1>1, <2>1, <2>2, SpecialRelease
  <2> QED  BY <2>1, <2>3 DEF Moves, Plods, Quitting, Quits, KeepsLease
<1>5. CASE RecoverRun
  <2> DEFINE kept == Watched(ReleaseLeaves(run, GoneLeaves), job.now)
  <2>1. run \in Run
    BY <1>5, ActiveRun DEF RecoverRun
  <2>2. kept \in Run /\ KeepsLease(kept, run)
    <3>1. GoneLeaves = {} \/ ~(run.targets \subseteq GoneLeaves)
      BY <1>5 DEF RecoverRun, NoTargetLeft
    <3>2. ReleaseLeaves(run, GoneLeaves) \in Run
      BY <2>1, <3>1, ReleaseLeavesType
    <3> DEFINE less == ReleaseLeaves(run, GoneLeaves)
    <3>3. /\ less.lease = run.lease /\ less.gen = run.gen /\ less.exp = run.exp
          /\ less.pending = run.pending /\ less.occs = run.occs /\ less.hold = run.hold
      BY <2>1, <3>2, ReleaseLeavesSame
    <3>4. /\ kept \in Run /\ kept.lease = less.lease /\ kept.gen = less.gen
          /\ kept.exp = less.exp /\ kept.pending = less.pending
          /\ kept.occs = less.occs /\ kept.hold = less.hold
      BY <3>2, WatchedKeeps DEF Outer
    <3> HIDE DEF less, kept
    <3> QED  BY <2>1, <3>3, <3>4 DEF KeepsLease, SameGrant
  <2>3. \/ BlockedRecovery(kept, Rest) \/ FailRecovery(kept, Rest)
        \/ /\ Preflight
           /\ NoCancel([st EXCEPT !.run = [kept EXCEPT !.pending = TRUE]],
                       <<"acquire", "recovered">> \o Rest)
    BY <1>5 DEF RecoverRun
  <2> HIDE DEF kept
  <2>4. CASE BlockedRecovery(kept, Rest) \/ FailRecovery(kept, Rest)
    BY <1>1, <2>2, <2>4, FailMoves DEF Moves, Plods
  <2>5. CASE /\ Preflight
             /\ NoCancel([st EXCEPT !.run = [kept EXCEPT !.pending = TRUE]],
                         <<"acquire", "recovered">> \o Rest)
    <3>1. run' = [kept EXCEPT !.pending = TRUE]
      BY <1>0, <2>5 DEF NoCancel, Profile, run
    <3>2. /\ run' \in Run /\ run'.pending
          /\ run'.lease = run.lease /\ run'.exp = run.exp
      BY <2>1, <2>2, <3>1 DEF Run, KeepsLease, SameGrant
    <3>3. Special' = {"acquire", "recovered"}
      BY <1>1, <2>5, CallSpecial DEF NoCancel, Goto
    <3> QED  BY <2>1, <2>5, <3>2, <3>3, NoRunAssumption DEF Moves, AsksAgain, SameLease, Active
  <2> QED  BY <2>3, <2>4, <2>5
<1> QED  BY <1>2, <1>3, <1>4, <1>5

\* Every stage that does not unload the coordinator.
LEMMA StageMoves ==
    ASSUME Inner, Outer, Stages, ~Unloaded PROVE Alone /\ Moves
<1>1. Quiet
  BY DEF Stages, Reconcile, Drain, Pending, Reacquired, JoinDue, Merged,
     Complete, CompletedRun, Begin, Started, Dispatch, Decide, Finish, Cancelled,
     Updated, Failed, Ended, Fence, RecoverNothing, RecoverRootOff,
     RecoverNoTargets, RecoverRun, Recovered, Abandoned
<1>2. Alone
  BY <1>1 DEF Quiet, Alone, peer, world, Outer
<1>3. Moves
  BY EasyMoves, RecoveryMoves, JoinMoves, CompleteMoves, EndMoves, AnswerMoves, BeginMoves,
     DecideMoves, RecoverMoves DEF Stages, Moves
<1> QED  BY <1>2, <1>3

-----------------------------------------------------------------------------
\* The queue grows at its end.
LEMMA QueuedJoined ==
    ASSUME NEW q \in Seq(Tasks), NEW s \in Seq(Tasks)
    PROVE  LET r == q \o s
           IN  {r[i] : i \in 1 .. Len(r)} =
                 {q[i] : i \in 1 .. Len(q)} \cup {s[i] : i \in 1 .. Len(s)}
<1> DEFINE r == q \o s
<1>1. /\ r \in Seq(Tasks) /\ Len(r) = Len(q) + Len(s)
      /\ Len(q) \in Nat /\ Len(s) \in Nat
      /\ \A i \in 1 .. Len(r) : r[i] = IF i <= Len(q) THEN q[i] ELSE s[i - Len(q)]
  BY ConcatProperties, LenProperties
<1> HIDE DEF r
<1>2. ASSUME NEW i \in 1 .. Len(r)
      PROVE  r[i] \in {q[j] : j \in 1 .. Len(q)} \cup {s[j] : j \in 1 .. Len(s)}
  <2>1. CASE i <= Len(q)
    BY <1>1, <2>1
  <2>2. CASE i > Len(q)
    <3>1. i - Len(q) \in 1 .. Len(s) /\ r[i] = s[i - Len(q)]
      BY <1>1, <2>2
    <3> QED  BY <3>1
  <2> QED  BY <1>1, <2>1, <2>2
<1>3. ASSUME NEW i \in 1 .. Len(q) PROVE q[i] \in {r[j] : j \in 1 .. Len(r)}
  <2>1. i \in 1 .. Len(r) /\ r[i] = q[i]
    BY <1>1
  <2> QED  BY <2>1
<1>4. ASSUME NEW i \in 1 .. Len(s) PROVE s[i] \in {r[j] : j \in 1 .. Len(r)}
  <2>1. PICK k \in 1 .. Len(r) : ~(k <= Len(q)) /\ k - Len(q) = i
    <3>1. /\ i + Len(q) \in 1 .. Len(r) /\ ~(i + Len(q) <= Len(q))
          /\ (i + Len(q)) - Len(q) = i
      BY <1>1
    <3> QED  BY <3>1
  <2>2. r[k] = s[i]
    BY <1>1, <2>1
  <2> QED  BY <2>2
<1> QED  BY <1>2, <1>3, <1>4 DEF r

\* What is posted waits, if anybody listens, and nothing is lost.
LEMMA QueuedPost ==
    ASSUME Outer, NEW s \in Seq(Tasks), Post(s)
    PROVE  /\ Queued \subseteq Queued'
           /\ Listening => \A i \in 1 .. Len(s) : s[i] \in Queued'
<1>1. queue \in Seq(Tasks)
  BY DEF Outer
<1>2. CASE Listening
  <2>1. queue' = queue \o s
    BY <1>2 DEF Post
  <2>2. Queued' = {(queue \o s)[i] : i \in 1 .. Len(queue \o s)}
    BY <2>1 DEF Queued
  <2>3. Queued' = Queued \cup {s[i] : i \in 1 .. Len(s)}
    BY <1>1, <2>2, QueuedJoined DEF Queued
  <2> QED  BY <2>3
<1>3. CASE ~Listening
  BY <1>3 DEF Post, Queued
<1> QED  BY <1>2, <1>3

\* One task.
LEMMA QueuedOne ==
    ASSUME Outer, NEW t \in Tasks, Post(<<t>>) \/ queue' = Append(queue, t)
    PROVE  Queued \subseteq Queued' /\ (Listening => t \in Queued')
<1>1. <<t>> \in Seq(Tasks) /\ Len(<<t>>) = 1 /\ <<t>>[1] = t /\ queue \in Seq(Tasks)
  BY DEF Outer
<1>2. CASE Post(<<t>>)
  <2>1. /\ Queued \subseteq Queued'
        /\ Listening => \A i \in 1 .. Len(<<t>>) : <<t>>[i] \in Queued'
    BY <1>1, <1>2, QueuedPost
  <2> QED  BY <1>1, <2>1
<1>3. CASE queue' = Append(queue, t)
  <2>1. queue' = queue \o <<t>>
    BY <1>1, <1>3, AppendIsConcat
  <2>2. Queued' = {(queue \o <<t>>)[i] : i \in 1 .. Len(queue \o <<t>>)}
    BY <2>1 DEF Queued
  <2>3. Queued' = Queued \cup {<<t>>[i] : i \in 1 .. Len(<<t>>)}
    BY <1>1, <2>2, QueuedJoined DEF Queued
  <2> QED  BY <1>1, <2>3
<1> QED  BY <1>2, <1>3

\* A handler takes the first task only.
LEMMA QueuedTail ==
    ASSUME Outer, queue # <<>>, queue' = Tail(queue)
    PROVE  Queued \subseteq Queued' \cup {Event}
<1>1. /\ queue \in Seq(Tasks) /\ Len(queue) \in Nat \ {0} /\ Event = queue[1]
      /\ Len(queue') = Len(queue) - 1
      /\ \A i \in 1 .. Len(queue') : queue'[i] = queue[i + 1]
  BY HeadTailProperties, EmptySeq, LenProperties DEF Outer, Event
<1>2. ASSUME NEW i \in 1 .. Len(queue), i # 1 PROVE queue[i] \in Queued'
  <2>1. i - 1 \in 1 .. Len(queue') /\ (i - 1) + 1 = i
    BY <1>1, <1>2
  <2>2. queue'[i - 1] = queue[i]
    BY <1>1, <2>1
  <2> QED  BY <2>1, <2>2 DEF Queued
<1> QED  BY <1>1, <1>2 DEF Queued

\* While the handler waits, the answer to a recovery is still to come.
LEMMA RecoveringAsks ==
    ASSUME Inner, Yielded, Special \cap Recovering # {}
    PROVE  "acquire" \in Special
<1>1. PICK i \in 1 .. Len(stack) : stack[i] \in Recovering
  BY DEF Special, StagesOf
<1>2. /\ Fits(stack, run, job.prev) /\ stack \in Seq(StageNames) /\ Len(stack) \in Nat
  BY LenProperties DEF Inner, Fits
<1>3. i # 1
  <2>1. Len(stack) >= 1 => stack # <<>> /\ Head(stack) = stack[1]
    BY <1>2, EmptySeq, HeadTailProperties
  <2> QED  BY <1>1, <1>2, <2>1 DEF Yielded, Awaits, Recovering
<1>4. CASE i = 2
  <2>1. <<stack[1], stack[2]>> \in Pairs
    BY <1>1, <1>2, <1>4 DEF Fits, Plain, NeedRun, Recovering
  <2>2. stack[1] = "acquire"
    BY <1>1, <1>4, <2>1 DEF Pairs, Recovering
  <2> QED  BY <1>2, <1>1, <1>4, <2>2 DEF Special, StagesOf, Plain, NeedRun
<1>5. CASE i \in 3 .. Len(stack)
  BY <1>1, <1>2, <1>5 DEF Fits, Plain, NeedRun, Recovering
<1> QED  BY <1>2, <1>3, <1>4, <1>5

(***************************************************************************)
(* What happens around the handler at work.                                *)
(***************************************************************************)
\* The lease is kept, or its revoke event waits.
LeaseNoticed ==
    \/ pbl' = pbl
    \/ /\ pbl' = NoLease
       /\ Special \cap Recovering # {} => "acquire" \in Special
       /\ Listening' => \E t \in Queued' : t.kind = "revoke" /\ t.gen = pbl.gen

Around ==
    /\ run' = run /\ job' = job
    /\ Special' \subseteq Special /\ Special \ Special' \subseteq {"safeOff"}
    /\ Listening' => Listening /\ Queued \subseteq Queued'
    /\ Listening' => vacation' = vacation \/ vacation' = "off" \/ Waits("vacation")'
    /\ Listening' => room' = room \/ room' = "ready" \/ Waits("hazard")'
    /\ LeaseNoticed /\ left'.faults <= left.faults

\* Every step around the handler keeps the invariant.
LEMMA CanAround ==
    ASSUME CanInv, MaxFaults \in Nat, left.faults \in Nat, left'.faults \in Nat, Around
    PROVE  CanInv'
<1>1. left'.faults <= MaxFaults /\ (Faultless' => Faultless)
  BY StillFaultless DEF Around
<1>2. /\ InForce' => InForce /\ Queued \subseteq Queued'
      /\ \A x : x # "safeOff" => (x \in Special' <=> x \in Special)
      /\ run' = run /\ job' = job
  BY DEF Around, InForce, Active, Quits
<1>3. \A k : Waits(k) /\ Queued \subseteq Queued' => Waits(k)'
  BY DEF Waits
<1>4. Admitted'
  BY <1>2, <1>3 DEF Around, CanInv, Admitted, InForce, Recovering
<1>5. InForce' /\ (Holding \/ RevokeWaits) => Holding' \/ RevokeWaits'
  <2>1. CASE pbl' = pbl
    BY <1>2, <2>1 DEF Holding, RevokeWaits
  <2>2. CASE /\ pbl' = NoLease
             /\ Listening' => \E t \in Queued' : t.kind = "revoke" /\ t.gen = pbl.gen
    BY <1>2, <2>2 DEF Holding, RevokeWaits, InForce
  <2> QED  BY <2>1, <2>2 DEF Around, LeaseNoticed
<1>6. Leased'
  BY <1>1, <1>2, <1>5 DEF CanInv, Leased, Unanswered
<1>7. Answered'
  <2>1. CASE pbl' = pbl
    BY <1>2, <2>1 DEF CanInv, Answered, Holding, Recovering
  <2>2. CASE Special \cap Recovering # {} => "acquire" \in Special
    BY <1>2, <2>2 DEF CanInv, Answered, Recovering
  <2> QED  BY <2>1, <2>2 DEF Around, LeaseNoticed
<1>8. SamePrev' /\ ReleaseLast'
  BY <1>2 DEF CanInv, SamePrev, ReleaseLast, Quits, Active
<1>9. pbl'.status # "none" => pbl'.gen > 0
  BY DEF Around, LeaseNoticed, CanInv, NoLease
<1> QED  BY <1>1, <1>4, <1>6, <1>7, <1>8, <1>9 DEF CanInv

\* What handlers do to the run and to the stages to come.
Handled ==
    \/ /\ run' = NoRun /\ Special' \cap (Recovering \cup {"merged"}) = {}
    \/ /\ KeepsLease(run', run) /\ Special' \cap (Quits \cup {"recover"}) # {}
       /\ Special' \subseteq Quits \cup {"recover", "release"}
       /\ "release" \in Special' => Special' \cap Quits # {}
    \/ /\ KeepsLease(run', run) /\ Special' \subseteq {"acquire", "settling"}
       /\ Listening' => Listening
       /\ run' # NoRun => /\ Event.kind # "vacation"
                          /\ Event.kind = "hazard" => room = "ready"
                          /\ Event.kind = "revoke" => Event.gen # run.gen

\* Every handler keeps it.
LEMMA CanHandler ==
    ASSUME Outer, CanInv, Special = {}, NEW k, Take(k), Handled
    PROVE  CanInv'
<1>1. /\ Queued \subseteq Queued' \cup {Event} /\ pbl' = pbl /\ left' = left
      /\ vacation' = vacation /\ room' = room
  BY QueuedTail DEF Take, peer, world
<1>2. CASE run' = NoRun /\ Special' \cap (Recovering \cup {"merged"}) = {}
  BY <1>1, <1>2 DEF CanInv, Admitted, Leased, Answered, SamePrev, ReleaseLast, InForce, Active,
     run
<1>3. CASE /\ Special' \cap (Quits \cup {"recover"}) # {}
           /\ Special' \subseteq Quits \cup {"recover", "release"}
           /\ "release" \in Special' => Special' \cap Quits # {}
  <2>1. Special' \cap (Recovering \cup {"merged"}) = {}
    BY <1>3 DEF Quits, Recovering
  <2> QED  BY <1>1, <1>3, <2>1 DEF CanInv, Admitted, Leased, Answered, SamePrev, ReleaseLast, InForce
<1>4. CASE /\ KeepsLease(run', run) /\ Special' \subseteq {"acquire", "settling"}
           /\ Listening' => Listening
           /\ run' # NoRun => /\ Event.kind # "vacation"
                              /\ Event.kind = "hazard" => room = "ready"
                              /\ Event.kind = "revoke" => Event.gen # run.gen
  <2>1. /\ InForce' => InForce /\ run' # NoRun
        /\ run' # NoRun => run'.pending = run.pending /\ run'.gen = run.gen
             /\ run'.lease = run.lease
    BY <1>4, NoRunAssumption DEF KeepsLease, SameGrant, InForce, Active, run
  <2>2. Admitted'
    BY <1>1, <1>4, <2>1 DEF CanInv, Admitted, Waits, Recovering, run
  <2>3. InForce' /\ RevokeWaits => RevokeWaits'
    BY <1>1, <1>4, <2>1 DEF RevokeWaits, run
  <2>4. Leased'
    BY <1>1, <1>4, <2>1, <2>3 DEF CanInv, Leased, Unanswered, Holding, Faultless, run
  <2>5. Answered' /\ SamePrev' /\ ReleaseLast'
    BY <1>4 DEF Answered, SamePrev, ReleaseLast, Recovering
  <2> QED  BY <1>1, <2>2, <2>4, <2>5 DEF CanInv
<1> QED  BY <1>2, <1>3, <1>4 DEF Handled

-----------------------------------------------------------------------------
(***************************************************************************)
(* The answers.                                                            *)
(***************************************************************************)
\* Budgets are only spent.
LEMMA SpentLess ==
    ASSUME Outer, NEW what \in {"user", "lags", "faults", "restarts"},
           Spend(what) \/ left' = left
    PROVE  left'.faults <= left.faults /\ left.faults \in Nat
BY DEF Outer, Spend

\* A command that was executed leaves the run its lease.
LEMMA DispatchedMoves ==
    ASSUME Inner, Outer, NEW T \in SUBSET Leaf, Dispatched(T)
    PROVE  Plods /\ run' \in Run /\ st'.terminal = st.terminal
<1>0. st \in Profile /\ clock \in Nat
  BY DEF Inner, Outer
<1>1. Rest \in Seq(Plain) /\ run \in Run /\ Special = {"send"}
  <2>1. At("send") /\ "send" \notin Plain /\ "send" \in NeedRun
    BY DEF Dispatched, NeedRun, Plain
  <2> QED  BY <2>1, AtPlain, AtNeeds, SpecialAt
<1>2. CASE T = {}
  <2>1. Cancel(st, FALSE, FALSE, FALSE, Rest)
    BY <1>2 DEF Dispatched
  <2>2. run' = run /\ st'.terminal = st.terminal
    BY <1>0, <1>1, <2>1, CancelDoes DEF run
  <2> QED  BY <1>0, <1>1, <2>1, <2>2, CancelMoves DEF Plods, KeepsLease, run
<1>3. CASE T # {}
  <2> DEFINE less == ReleaseLeaves(run, run.targets \ T)
             r == MarkDispatched(less, job.now, job.level, T, job.force)
             q == [r EXCEPT !.next = NextDeadline(r, job.now)]
  <2>1. job.now \in Int /\ job.level \in 0 .. Full /\ job.force \in BOOLEAN
    BY DEF Inner, Jobs
  <2>2. less \in Run
    <3>1. ~(run.targets \subseteq run.targets \ T)
      BY <1>3 DEF Dispatched
    <3> QED  BY <1>1, <3>1, ReleaseLeavesType
  <2>3. /\ less.lease = run.lease /\ less.gen = run.gen /\ less.exp = run.exp
        /\ less.pending = run.pending /\ less.occs = run.occs /\ less.hold = run.hold
    BY <1>1, <2>2, ReleaseLeavesSame
  <2>4. st' = [st EXCEPT !.run = q] /\ stack' = Rest
    BY <1>3 DEF Dispatched, Goto
  <2> HIDE DEF less
  <2>5. /\ r \in Run /\ r.lease = less.lease /\ r.gen = less.gen /\ r.exp = less.exp
        /\ r.pending = less.pending /\ r.occs = less.occs /\ r.hold = less.hold
    <3>1. r \in Run
      BY <2>1, <2>2, MarkDispatchedType
    <3>2. /\ r.lease = less.lease /\ r.gen = less.gen /\ r.exp = less.exp
          /\ r.pending = less.pending /\ r.occs = less.occs /\ r.hold = less.hold
      BY <2>2 DEF MarkDispatched, Run
    <3> QED  BY <3>1, <3>2
  <2> HIDE DEF r
  <2>6. /\ q \in Run /\ q.lease = r.lease /\ q.gen = r.gen /\ q.exp = r.exp
        /\ q.pending = r.pending /\ q.occs = r.occs /\ q.hold = r.hold
    <3>1. NextDeadline(r, job.now) \in Int
      BY <2>1, <2>5, NextDeadlineType
    <3> QED  BY <2>5, <3>1 DEF Run
  <2> HIDE DEF q
  <2>7. run' = q /\ st'.terminal = st.terminal /\ Special' = {}
    BY <1>0, <1>1, <2>4, SpecialPlain DEF Profile, run
  <2> QED  BY <1>1, <2>3, <2>5, <2>6, <2>7 DEF Plods, Carries, KeepsLease, SameGrant
<1> QED  BY <1>2, <1>3

\* So does one that waits; a failed one gives the run up.
LEMMA NotDispatchedMoves ==
    ASSUME Inner, Outer, NEW b \in BOOLEAN, NotDispatched(b) \/ DispatchFailed
    PROVE  Plods
<1>0. st \in Profile /\ clock \in Nat /\ job.now \in Int /\ revokeBy \in Int
  BY DEF Inner, Outer, Jobs
<1>1. Rest \in Seq(Plain) /\ run \in Run /\ Special = {"send"}
  <2>1. At("send") /\ "send" \notin Plain /\ "send" \in NeedRun
    BY DEF NotDispatched, DispatchFailed, NeedRun, Plain
  <2> QED  BY <2>1, AtPlain, AtNeeds, SpecialAt
<1>2. CASE Cancel(st, FALSE, b, FALSE, Rest) \/ Cancel(st, FALSE, FALSE, FALSE, Rest)
  BY <1>0, <1>1, <1>2, CancelMoves DEF Plods, KeepsLease, run
<1>3. CASE \E n \in Int : st' = [st EXCEPT !.run.next = n] /\ stack' = Rest
  <2>1. PICK n \in Int : st' = [st EXCEPT !.run.next = n] /\ stack' = Rest
    BY <1>3
  <2>2. st' = [st EXCEPT !.run = [run EXCEPT !.next = n]]
    BY <1>0, <2>1 DEF Profile, run
  <2>3. run' = [run EXCEPT !.next = n] /\ Special' = {}
    BY <1>0, <1>1, <2>1, <2>2, SpecialPlain DEF Profile, run
  <2>4. /\ run' \in Run /\ run'.lease = run.lease /\ run'.gen = run.gen
        /\ run'.exp = run.exp /\ run'.pending = run.pending
        /\ run'.occs = run.occs /\ run'.hold = run.hold
    BY <1>1, <2>3 DEF Run
  <2> QED  BY <1>1, <2>3, <2>4 DEF Plods, Carries, KeepsLease, SameGrant
<1>4. \A by \in Int : Sooner(by, job.now + Step) \in Int
  BY <1>0, TimeAssumption DEF Sooner
<1>5. job.now + 2 * Step \in Int
  BY <1>0, TimeAssumption
<1> QED  BY <1>0, <1>2, <1>3, <1>4, <1>5 DEF NotDispatched, DispatchFailed, Goto

\* Releasing a leaf after its group has settled, and saving.
LEMMA SettledMoves ==
    ASSUME Inner, Outer, Settling \/ Save \/ Persist PROVE Plods
<1>0. st \in Profile /\ clock \in Nat
  BY DEF Inner, Outer
<1>1. Rest \in Seq(Plain) /\ <<>> \in Seq(Plain) /\ Special \subseteq {"settling"}
  <2>1. PICK a \in {"settling", "save", "persist"} : At(a)
    BY DEF Settling, Save, Persist
  <2> QED  BY <2>1, AtPlain, EmptySeq, SpecialAt DEF Plain, StageNames, NeedRun, NeedPrev, FirstOnly
<1>2. CASE Settling
  BY <1>0, <1>1, <1>2, CancelMoves, LeafMoves DEF Settling, Plods, KeepsLease, run
<1>3. CASE Save \/ Persist
  <2>1. run' = run /\ stack' \in Seq(Plain)
    BY <1>1, <1>3 DEF Save, Persist, Goto, run
  <2> QED  BY <1>1, <2>1, SpecialPlain DEF Plods, Carries, KeepsLease
<1> QED  BY <1>2, <1>3

\* None of these touches the lease or the room.
LEMMA AnswersAlone ==
    ASSUME Outer,
           \/ \E T \in SUBSET Leaf : Dispatched(T)
           \/ NotDispatched(TRUE) \/ NotDispatched(FALSE) \/ DispatchFailed
           \/ Settling \/ Save \/ Persist
    PROVE  Alone
<1>1. UNCHANGED <<proc, queue, pbl, vacation, room>>
  BY DEF Dispatched, NotDispatched, DispatchFailed, Settling, Save, Persist, Calm, Quiet,
     peer, world
<1>2. left' = left \/ Spend("faults")
  BY DEF Dispatched, NotDispatched, DispatchFailed, Settling, Save, Persist, Quiet, world
<1> QED  BY <1>1, <1>2, SpentLess DEF Alone

\* A granted lease is the lease of the run.
LEMMA CanGranted ==
    ASSUME Inner, Outer, CanInv, MaxFaults \in Nat, Granted PROVE CanInv'
<1>0. st \in Profile /\ job \in Jobs
  BY DEF Inner
<1>1. /\ run \in Run /\ Special = {"acquire"} \cup Special' /\ "acquire" \notin Special'
      /\ Special' \subseteq {"recovered", "reacquired", "merged", "started"}
  <2>1. At("acquire") /\ "acquire" \notin Plain /\ "acquire" \in NeedRun /\ stack' = Rest
    BY DEF Granted, NeedRun, Plain, Goto
  <2>2. \A x \in Special' : <<"acquire", x>> \in Pairs
    BY <2>1, SpecialRest
  <2> QED  BY <2>1, <2>2, SpecialRest, AtNeeds DEF Pairs
<1>2. PICK g, e : /\ g > 0 /\ st' = [st EXCEPT !.run = MarkAcquired(run, g, e)]
                  /\ pbl'.status = "active" /\ pbl'.lease = run.lease /\ pbl'.gen = g
  <2> DEFINE same == /\ pbl.status = "active"
                     /\ pbl.occs = run.occs /\ pbl.targets = run.targets
             g == IF same THEN pbl.gen ELSE pblGen + 1
             e == IF pbl.status = "none"
                  THEN clock + (IF run.exp = NoTime THEN TTL
                                ELSE Later(1, Sooner(TTL, run.exp - clock)))
                  ELSE pbl.exp
  <2>1. g > 0
    <3>1. pblGen \in Nat
      BY DEF Outer
    <3> QED  BY <3>1 DEF CanInv
  <2>2. st' = [st EXCEPT !.run = MarkAcquired(run, g, e)]
    BY DEF Granted
  <2>3. pbl' = [status |-> "active", lease |-> run.lease, gen |-> g, exp |-> e,
                grace |-> NoTime, occs |-> run.occs, targets |-> run.targets]
    BY DEF Granted
  <2> HIDE DEF g, e
  <2> QED  BY <2>1, <2>2, <2>3
<1>3. run' = [run EXCEPT !.gen = g, !.exp = e]
  BY <1>0, <1>2 DEF Profile, run, MarkAcquired
<1>4. run'.lease = run.lease /\ run'.gen = g /\ run'.pending = run.pending
  BY <1>1, <1>3 DEF Run
<1>5. Holding' /\ run'.gen # 0
  BY <1>2, <1>4 DEF Holding, run
<1>6. /\ queue' = queue /\ UNCHANGED <<proc, vacation, room, left>> /\ Queued' = Queued
      /\ job'.prev = job.prev /\ job'.ok /\ Listening' = Listening
  BY <1>0 DEF Granted, Calm, world, proc, Queued, Listening, Jobs
<1>7. Active
  BY <1>1, NoRunAssumption DEF Active
<1>8. InForce' => InForce
  BY <1>1, <1>6, <1>7 DEF InForce, Quits
<1>9. Admitted'
  BY <1>1, <1>4, <1>6, <1>8 DEF CanInv, Admitted, Recovering, Waits, run
<1>10. Leased' /\ Answered'
  BY <1>5 DEF Leased, Answered
<1>11. SamePrev'
  BY <1>1, <1>4, <1>6 DEF CanInv, SamePrev, run
<1>12. ReleaseLast'
  BY <1>1 DEF ReleaseLast
<1> QED  BY <1>2, <1>6, <1>9, <1>10, <1>11, <1>12 DEF CanInv

\* A refusal leaves a new run without lease and puts a merged one back.
LEMMA CanRefused ==
    ASSUME Inner, Outer, CanInv, MaxFaults \in Nat, Refused PROVE CanInv'
<1>0. st \in Profile /\ job \in Jobs
  BY DEF Inner
<1>1. /\ run \in Run /\ Special = {"acquire"} \cup Special' /\ "acquire" \notin Special'
      /\ Special' \subseteq {"recovered", "reacquired", "merged", "started"}
  <2>1. At("acquire") /\ "acquire" \notin Plain /\ "acquire" \in NeedRun /\ stack' = Rest
    BY DEF Refused, NeedRun, Plain, Goto
  <2>2. \A x \in Special' : <<"acquire", x>> \in Pairs
    BY <2>1, SpecialRest
  <2> QED  BY <2>1, <2>2, SpecialRest, AtNeeds DEF Pairs
<1>2. /\ queue' = queue /\ UNCHANGED <<proc, vacation, room, pbl>> /\ Queued' = Queued
      /\ job'.prev = job.prev /\ ~job'.ok /\ Listening' = Listening /\ run' = run
  BY <1>0 DEF Refused, Calm, peer, proc, Queued, Listening, Jobs, run
<1>3. left'.faults <= left.faults /\ left.faults \in Nat
  BY SpentLess DEF Refused
<1>4. left'.faults <= MaxFaults /\ (Faultless' => Faultless)
  <2>1. left'.faults \in Nat
    <3>1. left' \in [{"user", "lags", "faults", "restarts"} -> Nat]
      BY SpendType DEF Refused, Outer
    <3> QED  BY <3>1
  <2> QED  BY <1>3, <2>1, StillFaultless
<1>5. InForce' => InForce
  BY <1>1, <1>2 DEF InForce, Quits, Active
<1>6. Admitted'
  BY <1>1, <1>2, <1>5 DEF CanInv, Admitted, Recovering, Waits
<1>7. Leased'
  BY <1>1, <1>2, <1>4, <1>5 DEF CanInv, Leased, Unanswered, Holding, RevokeWaits
<1>8. Answered' /\ SamePrev' /\ ReleaseLast'
  BY <1>1, <1>2 DEF CanInv, Answered, SamePrev, ReleaseLast
<1> QED  BY <1>2, <1>4, <1>6, <1>7, <1>8 DEF CanInv

-----------------------------------------------------------------------------
\* Only the lease of a run that ends is released.
LEMMA CanReleased ==
    ASSUME Inner, Outer, Outer', CanInv, MaxFaults \in Nat, Released \/ NotReleased
    PROVE  CanInv'
<1>1. /\ Special = {"release"} \cup Special' /\ "release" \notin Special'
      /\ Special' \subseteq {"cancelled", "completed", "failed", "abandoned", "ended"}
  <2>1. At("release") /\ "release" \notin Plain /\ stack' = Rest
    BY DEF Released, NotReleased, NeedPrev, Plain, Goto
  <2>2. \A x \in Special' : <<"release", x>> \in Pairs
    BY <2>1, SpecialRest
  <2> QED  BY <2>1, <2>2, SpecialRest DEF Pairs
<1>2. /\ queue' = queue /\ UNCHANGED <<proc, vacation, room>> /\ Queued' = Queued
      /\ Listening' = Listening /\ run' = run /\ (pbl' = pbl \/ pbl' = NoLease)
  BY DEF Released, NotReleased, Calm, peer, world, proc, Queued, Listening, Retire, run
<1>3. left'.faults <= left.faults /\ left.faults \in Nat /\ left'.faults \in Nat
  <2>1. Spend("faults") \/ left' = left
    BY DEF Released, NotReleased, world
  <2> QED  BY <2>1, SpentLess DEF Outer
<1>4. left'.faults <= MaxFaults /\ (Faultless' => Faultless)
  BY <1>3, StillFaultless
<1>5. InForce' => InForce
  BY <1>1, <1>2 DEF InForce, Quits, Active
<1>6. Admitted'
  BY <1>1, <1>2, <1>5 DEF CanInv, Admitted, Recovering, Waits
<1>7. Leased'
  <2>1. Active => Special' \cap (Quits \cup {"completed"}) # {}
    BY <1>1 DEF CanInv, ReleaseLast, Quits
  <2> QED  BY <1>2, <2>1 DEF Leased, InForce, Active
<1>8. Answered' /\ SamePrev' /\ ReleaseLast'
  BY <1>1 DEF Answered, SamePrev, ReleaseLast, Recovering
<1>9. pbl'.status # "none" => pbl'.gen > 0
  BY <1>2 DEF CanInv, NoLease
<1> QED  BY <1>4, <1>6, <1>7, <1>8, <1>9 DEF CanInv

\* Lights that go off with the root light post the revoke event of the lease.
LEMMA LightsNoticed ==
    ASSUME Inner, Outer, NEW now, NEW before \in Seq(Tasks), LightsBecome(now, before)
    PROVE  /\ Queued \subseteq Queued'
           /\ \/ pbl' = pbl
              \/ /\ pbl' = NoLease
                 /\ Listening => \E t \in Queued' : t.kind = "revoke" /\ t.gen = pbl.gen
<1> DEFINE drop == RootOn(lights) /\ ~RootOn(now)
           gone == drop /\ pbl.status = "active"
           lease == IF Active THEN run.lease ELSE NoOcc
           root == [Task("rootOff") EXCEPT !.occ = lease]
           revoke == [Task("revoke") EXCEPT !.gen = pbl.gen, !.user = TRUE]
           a == IF drop THEN <<root>> ELSE <<>>
           b == IF gone THEN <<revoke>> ELSE <<>>
<1>1. root \in Tasks
  <2>1. lease \in Occ \cup {NoOcc}
    BY ActiveRun DEF Run
  <2> HIDE DEF lease
  <2>2. "rootOff" \in Kinds
    BY DEF Kinds
  <2> QED  BY <2>1, <2>2, OccTaskType
<1>2. revoke \in Tasks /\ revoke.kind = "revoke" /\ revoke.gen = pbl.gen
  <2>1. pbl.gen \in Nat
    BY DEF Outer, Leases
  <2>2. revoke \in Tasks
    BY <2>1, EnvTasks
  <2>3. revoke.kind = "revoke" /\ revoke.gen = pbl.gen
    BY DEF Task
  <2> QED  BY <2>2, <2>3
<1>3. Post(before \o a \o b) /\ (IF gone THEN Retire ELSE UNCHANGED peer)
  BY DEF LightsBecome
<1> HIDE DEF root, revoke, gone, drop
<1>4. a \in Seq(Tasks) /\ b \in Seq(Tasks)
  BY <1>1, <1>2
<1> DEFINE u == before \o a
<1>5. u \in Seq(Tasks)
  BY <1>4, ConcatProperties
<1>6. Post(u \o b)
  BY <1>3
<1> HIDE DEF a, u
<1>7. CASE gone
  <2>1. u \o b = Append(u, revoke)
    BY <1>2, <1>5, <1>7, AppendIsConcat
  <2>2. /\ Append(u, revoke) \in Seq(Tasks) /\ Len(Append(u, revoke)) = Len(u) + 1
        /\ Append(u, revoke)[Len(u) + 1] = revoke /\ Len(u) \in Nat
    BY <1>2, <1>5, AppendProperties, LenProperties
  <2> DEFINE v == Append(u, revoke)
  <2>3. Post(v)
    BY <1>6, <2>1
  <2> HIDE DEF v
  <2>4. /\ Queued \subseteq Queued'
        /\ Listening => \A i \in 1 .. Len(v) : v[i] \in Queued'
    BY <2>2, <2>3, QueuedPost DEF v
  <2>5. Len(u) + 1 \in 1 .. Len(v) /\ v[Len(u) + 1] = revoke
    BY <2>2 DEF v
  <2>6. Listening => revoke \in Queued'
    BY <2>4, <2>5
  <2>7. pbl' = NoLease
    BY <1>3, <1>7 DEF Retire
  <2> QED  BY <1>2, <2>4, <2>6, <2>7
<1>8. CASE ~gone
  <2>1. u \o b \in Seq(Tasks) /\ pbl' = pbl
    BY <1>3, <1>4, <1>5, <1>8, ConcatProperties DEF peer
  <2> HIDE DEF b
  <2> QED  BY <1>6, <2>1, QueuedPost
<1> QED  BY <1>7, <1>8

\* The lights of the wake light are turned off.
LEMMA CanSafeOff ==
    ASSUME Inner, Outer, Outer', CanInv, MaxFaults \in Nat, SafeOff \/ NotSafeOff
    PROVE  CanInv'
<1>1. /\ run' = run /\ job' = job /\ Listening' = Listening
      /\ vacation' = vacation /\ room' = room
  BY DEF SafeOff, NotSafeOff, Calm, proc, Listening, run
<1>2. Special' \subseteq Special /\ Special \ Special' \subseteq {"safeOff"}
  <2>1. At("safeOff") /\ "safeOff" \notin Plain /\ stack' = Rest
    BY DEF SafeOff, NotSafeOff, NeedPrev, Plain, Goto
  <2>2. Special = {"safeOff"} \cup Special'
    BY <2>1, SpecialRest
  <2> QED  BY <2>2
<1>3. left'.faults <= left.faults /\ left.faults \in Nat /\ left'.faults \in Nat
  <2>1. Spend("faults") \/ left' = left
    BY DEF SafeOff, NotSafeOff
  <2> QED  BY <2>1, SpentLess DEF Outer
<1>4. Special \cap Recovering # {} => "acquire" \in Special
  <2>1. Yielded
    BY DEF SafeOff, NotSafeOff, At, Yielded, Awaits
  <2> QED  BY <2>1, RecoveringAsks
<1>5. Queued \subseteq Queued' /\ LeaseNoticed
  <2>1. CASE SafeOff
    <3>1. <<>> \in Seq(Tasks)
      BY EmptySeq
    <3>2. PICK now : LightsBecome(now, <<>>)
      BY <2>1 DEF SafeOff
    <3> QED  BY <1>1, <1>4, <3>1, <3>2, LightsNoticed DEF LeaseNoticed
  <2>2. CASE NotSafeOff
    BY <2>2 DEF NotSafeOff, peer, Queued, LeaseNoticed
  <2> QED  BY <2>1, <2>2
<1> QED  BY <1>1, <1>2, <1>3, <1>5, CanAround DEF Around

\* Every answer.
LEMMA CanAnswers ==
    ASSUME Inner, Outer, Outer', CanInv, MaxFaults \in Nat, Answers PROVE CanInv'
<1>1. left.faults \in Nat /\ left'.faults \in Nat
  BY DEF Outer
<1>2. CASE \/ \E T \in SUBSET Leaf : Dispatched(T)
           \/ NotDispatched(TRUE) \/ NotDispatched(FALSE) \/ DispatchFailed
           \/ Settling \/ Save \/ Persist
  <2>1. Moves
    BY <1>2, DispatchedMoves, NotDispatchedMoves, SettledMoves DEF Moves
  <2>2. Alone
    BY <1>2, AnswersAlone
  <2> QED  BY <1>1, <2>1, <2>2, CanMove
<1> QED  BY <1>2, CanGranted, CanRefused, CanReleased, CanSafeOff DEF Answers

-----------------------------------------------------------------------------
(***************************************************************************)
(* The handlers.                                                           *)
(***************************************************************************)
\* Starting with plain stages and the same lease.
LEMMA PlainHandled ==
    ASSUME Special = {}, KeepsLease(run', run), Listening' => Listening,
           NEW j, NEW s \in Seq(Plain), Begins(j, s),
           run' # NoRun => /\ Event.kind # "vacation"
                           /\ Event.kind = "hazard" => room = "ready"
                           /\ Event.kind = "revoke" => Event.gen # run.gen
    PROVE  Handled
<1>1. Special' = {}
  BY SpecialPlain DEF Begins, Goto
<1> QED  BY <1>1 DEF Handled

\* Giving the run up, when there is one.
LEMMA CancelHandled ==
    ASSUME Inner, Outer, NEW user \in BOOLEAN, NEW revoked \in BOOLEAN,
           NEW off \in BOOLEAN, NEW rest \in Seq(Plain),
           CancelOn(user, revoked, off, rest)
    PROVE  Handled
<1>1. CASE Active
  <2>1. run' = run /\ "cancelled" \in Special' /\ Special' \subseteq {"release", "cancelled"}
    BY <1>1, CancelOnDoes
  <2> QED  BY <2>1 DEF Handled, Quits, KeepsLease
<1>2. CASE ~Active
  <2>1. run' = run /\ Special' = {}
    BY <1>2, CancelOnDoes
  <2> QED  BY <1>2, <2>1 DEF Handled, Active
<1> QED  BY <1>1, <1>2

\* Starting and the handlers that only reconcile.
LEMMA PlainHandlers ==
    ASSUME Inner, Outer, Special = {}, OnStart \/ OnTimer \/ OnPoke \/ OnLeafOff \/ OnStop
    PROVE  Handled
<1>0. st \in Profile /\ clock \in Int
  BY DEF Inner, Outer
<1>1. Event.kind \in {"start", "timer", "poke", "leafOff", "stop"}
  BY DEF OnStart, OnTimer, OnPoke, OnLeafOff, OnStop, Take, Event
<1>2. CASE OnStart
  <2>1. CASE stopping
    <3>1. st' = st /\ stack' = stack /\ phase' = phase /\ stopping' = stopping
      BY <1>2, <2>1 DEF OnStart
    <3> QED  BY <1>1, <3>1 DEF Handled, KeepsLease, Special, StagesOf, Listening, run
  <2>2. CASE ~stopping
    <3>1. stack' = <<"recover", "reconcile">> /\ run' = run
      BY <1>0, <1>2, <2>2, RefreshedType DEF OnStart, Begins, Goto, run
    <3>2. Special' = {"recover"}
      <4>1. <<"recover", "reconcile">> = <<"recover">> \o <<"reconcile">>
        BY Joined
      <4>2. "recover" \in StageNames \ Plain
        BY DEF StageNames, Plain, FirstOnly
      <4> QED  BY <3>1, <4>1, <4>2, FirstStages, SpecialOne
    <3> QED  BY <3>1, <3>2 DEF Handled, KeepsLease
  <2> QED  BY <2>1, <2>2
<1>3. CASE OnTimer \/ OnStop \/ (OnLeafOff /\ ThenReconcile)
  <2>1. run' = run /\ Listening' = Listening
    BY <1>3 DEF OnTimer, OnStop, OnLeafOff, proc, Listening, run
  <2>2. \E j : Begins(j, <<"reconcile">>) \/ Begins(j, <<"persist">>)
    BY <1>3 DEF OnTimer, OnStop, ThenReconcile
  <2> QED  BY <1>1, <2>1, <2>2, FirstStages, PlainHandled DEF KeepsLease
<1>4. CASE OnPoke
  <2>1. run' = run \/ (Active /\ run' = Watched(run, clock))
    <3>1. CASE Active /\ Event.user
      <4>1. st' = [st EXCEPT !.run = Watched(run, clock)]
        BY <1>4, <3>1 DEF OnPoke
      <4> QED  BY <1>0, <3>1, <4>1 DEF Profile, run
    <3>2. CASE ~(Active /\ Event.user)
      BY <1>4, <3>2 DEF OnPoke, run
    <3> QED  BY <3>1, <3>2
  <2>2. KeepsLease(run', run)
    <3>1. CASE run' = run
      BY <3>1 DEF KeepsLease
    <3>2. CASE Active /\ run' = Watched(run, clock)
      <4>1. run \in Run
        BY <3>2, ActiveRun
      <4> DEFINE q == Watched(run, clock)
      <4>2. /\ q \in Run /\ q.lease = run.lease /\ q.gen = run.gen /\ q.exp = run.exp
            /\ q.pending = run.pending /\ q.occs = run.occs /\ q.hold = run.hold
        BY <4>1, WatchedKeeps DEF Outer
      <4> HIDE DEF q
      <4>3. run' = q
        BY <3>2 DEF q
      <4> QED  BY <4>1, <4>2, <4>3 DEF KeepsLease, SameGrant
    <3> QED  BY <2>1, <3>1, <3>2
  <2>3. Listening' = Listening /\ Begins(Now(clock), <<"reconcile">>)
    BY <1>4 DEF OnPoke, ThenReconcile, proc, Listening
  <2> QED  BY <1>1, <2>2, <2>3, FirstStages, PlainHandled
<1>5. CASE OnLeafOff /\ ~ThenReconcile
  <2>1. run' = run /\ Listening' = Listening /\ stack' = <<"settling", "reconcile">>
    BY <1>5 DEF OnLeafOff, proc, Listening, run, Begins, Goto
  <2>2. Special' = {"settling"}
    <3>1. <<"settling", "reconcile">> = <<"settling">> \o <<"reconcile">>
      BY Joined
    <3>2. "settling" \in StageNames \ Plain
      BY DEF StageNames, Plain, FirstOnly
    <3> QED  BY <2>1, <3>1, <3>2, FirstStages, SpecialOne
  <2> QED  BY <1>1, <2>1, <2>2 DEF Handled, KeepsLease
<1> QED  BY <1>2, <1>3, <1>4, <1>5

\* The handlers of what forbids the run.
LEMMA CancelHandlers ==
    ASSUME Inner, Outer, Special = {}, OnRootOff \/ OnRevoke \/ OnVacation \/ OnHazard
    PROVE  Handled
<1>1. Event.user \in BOOLEAN
  <2>1. Event \in Tasks
    BY TakeType DEF OnRootOff, OnRevoke, OnVacation, OnHazard
  <2> QED  BY <2>1 DEF Tasks
<1>2. CASE \E u, v, w \in BOOLEAN, s \in Seq(Plain) : CancelOn(u, v, w, s)
  BY <1>2, CancelHandled
<1>3. CASE /\ OnRevoke /\ ~(Active /\ Event.gen = run.gen)
  <2>1. /\ st' = st /\ stack' = stack /\ proc' = proc /\ Event.kind = "revoke"
    BY <1>3 DEF OnRevoke, Take, Event
  <2> QED  BY <1>3, <2>1 DEF Handled, KeepsLease, Special, StagesOf, Listening, proc, Active, run
<1>4. CASE /\ OnHazard /\ room = "ready" /\ ThenReconcile
           /\ UNCHANGED <<st, scheduled, retryAt, revokeBy, timer, proc>>
  <2>1. Event.kind = "hazard" /\ run' = run /\ Listening' = Listening
        /\ Begins(Now(clock), <<"reconcile">>)
    BY <1>4 DEF OnHazard, Take, Event, proc, Listening, ThenReconcile, run
  <2> QED  BY <1>4, <2>1, FirstStages, PlainHandled DEF KeepsLease
<1>5. OnRevoke /\ Active /\ Event.gen = run.gen => CancelOn(Event.user, TRUE, FALSE, <<"finish">>)
  BY DEF OnRevoke
<1>6. /\ OnRootOff => CancelOn(TRUE, TRUE, FALSE, <<"reconcile">>)
      /\ OnVacation => CancelOn(FALSE, FALSE, Event.user, <<"reconcile">>)
      /\ OnHazard => \/ CancelOn(FALSE, FALSE, FALSE, <<"reconcile">>)
                     \/ /\ room = "ready" /\ ThenReconcile
                        /\ UNCHANGED <<st, scheduled, retryAt, revokeBy, timer, proc>>
  BY DEF OnRootOff, OnVacation, OnHazard
<1> QED  BY <1>1, <1>2, <1>3, <1>4, <1>5, <1>6, FirstStages

\* end_episode and the unloading of the config entry.
LEMMA EndHandlers ==
    ASSUME Inner, Outer, Special = {}, OnEnd \/ OnUnload PROVE Handled
<1>0. st \in Profile /\ Event.kind \in {"end", "unload"}
  BY DEF Inner, OnEnd, OnUnload, Take, Event
<1>1. CASE OnEnd /\ Active
  <2>1. /\ st' = [st EXCEPT !.run = NoRun, !.terminal = @ \cup run.occs,
                            !.alarms = @ \ FiredAlarms(run)]
        /\ stack' = ReleaseOf(run) \o <<"ended", "reconcile">>
    BY <1>1 DEF OnEnd, Begins, Goto
  <2>2. run' = NoRun
    BY <1>0, <2>1 DEF Profile, run
  <2>3. stack' = ReleaseOf(run) \o <<"ended">> \o <<"reconcile">>
    <3>1. /\ <<"ended", "reconcile">> = <<"ended">> \o <<"reconcile">>
          /\ ReleaseOf(run) \in Seq(StageNames) /\ <<"ended">> \in Seq(StageNames)
          /\ <<"reconcile">> \in Seq(StageNames)
      BY Joined DEF ReleaseOf, StageNames
    <3> QED  BY <2>1, <3>1, ConcatAssociative
  <2>4. Special' \subseteq {"ended", "release"}
    <3>1. "ended" \in StageNames \ Plain
      BY DEF StageNames, Plain, NeedPrev
    <3>2. Special' = {"ended"} \cup (IF run.gen = 0 THEN {} ELSE {"release"})
      BY <2>3, <3>1, FirstStages, SpecialRelease
    <3> QED  BY <3>2
  <2> QED  BY <2>2, <2>4 DEF Handled, Recovering
<1>2. CASE OnUnload /\ Active /\ ~stopping
  <2>1. stack' = ReleaseOf(run) \o <<"abandoned", "persist", "unloaded">>
    BY <1>2 DEF OnUnload, Begins, Goto
  <2>2. stack' = ReleaseOf(run) \o <<"abandoned">> \o <<"persist", "unloaded">>
    <3>1. ReleaseOf(run) \in Seq(StageNames)
      <4>1. ReleaseOf(run) = <<>> \/ ReleaseOf(run) = <<"release">>
        BY DEF ReleaseOf
      <4>2. <<>> \in Seq(StageNames) /\ <<"release">> \in Seq(StageNames)
        BY DEF StageNames
      <4> QED  BY <4>1, <4>2
    <3>2. <<"abandoned">> \in Seq(StageNames) /\ <<"persist", "unloaded">> \in Seq(StageNames)
      BY DEF StageNames
    <3> QED  BY <2>1, <3>1, <3>2, ThreeJoined, ConcatAssociative
  <2>3. Special' = {"abandoned"} \cup (IF run.gen = 0 THEN {} ELSE {"release"})
    <3>1. "abandoned" \in StageNames \ Plain
      BY DEF StageNames, Plain, NeedPrev
    <3> QED  BY <2>2, <3>1, FirstStages, SpecialRelease
  <2>4. run' = run
    BY <1>2 DEF OnUnload, run
  <2> QED  BY <2>3, <2>4 DEF Handled, Quits, KeepsLease
<1>3. CASE \E s \in Seq(Plain) : Begins(Now(clock), s) /\ st' = st /\ proc' = proc
  <2>1. run' = run /\ Listening' = Listening
    BY <1>3 DEF proc, Listening, run
  <2> QED  BY <1>0, <1>3, <2>1, PlainHandled DEF KeepsLease
<1> QED  BY <1>1, <1>2, <1>3, FirstStages DEF OnEnd, OnUnload, ThenReconcile

\* dismiss, upsert_alarm and delete_alarm.
LEMMA AlarmHandlers ==
    ASSUME Inner, Outer, Special = {}, OnDismiss \/ OnAdd \/ OnDelete PROVE Handled
<1>0. st \in Profile /\ Event.kind \in {"dismiss", "add", "delete"} /\ Listening' = Listening
  BY DEF Inner, OnDismiss, OnAdd, OnDelete, Take, Event, proc, Listening
<1>1. CASE OnDelete \/ OnAdd \/ (OnDismiss /\ ~(Active /\ Event.occ \in run.occs))
  <2>1. Begins(Now(clock), <<"reconcile">>) /\ run' = run
    BY <1>0, <1>1 DEF OnDelete, OnAdd, OnDismiss, ThenReconcile, Profile, run
  <2> QED  BY <1>0, <2>1, FirstStages, PlainHandled DEF KeepsLease
<1>2. CASE OnDismiss /\ Active /\ Event.occ \in run.occs
  <2> DEFINE r == Without(run, {Event.occ})
  <2>1. run \in Run /\ r \in Run \cup {NoRun}
    BY <1>2, ActiveRun, WithoutType
  <2>2. r # NoRun => /\ r.lease = run.lease /\ r.gen = run.gen /\ r.exp = run.exp
                     /\ r.pending = run.pending
                     /\ r.occs \subseteq run.occs /\ r.hold = run.hold
    BY <2>1 DEF Without, Run
  <2>3. /\ st' = [st EXCEPT !.run = r, !.terminal = @ \cup {Event.occ},
                            !.alarms = @ \ (FiredAlarms(run) \cap {Event.occ})]
        /\ stack' = (IF r = NoRun THEN ReleaseOf(run)
                     ELSE <<"acquire", "updated">>) \o <<"reconcile">>
    BY <1>2 DEF OnDismiss, Begins, Goto
  <2> HIDE DEF r
  <2>4. run' = r
    BY <1>0, <2>3 DEF Profile, run
  <2>5. <<>> \o <<"reconcile">> = <<"reconcile">>
    BY Joined
  <2>6. CASE r = NoRun
    <3>1. stack' = <<"reconcile">> \/ stack' = <<"release">> \o <<"reconcile">>
      BY <2>3, <2>5, <2>6 DEF ReleaseOf
    <3>2. Special' \subseteq {"release"}
      BY <3>1, FirstStages, SpecialPlain, SpecialOne DEF StageNames
    <3> QED  BY <2>4, <2>6, <3>2 DEF Handled, Recovering
  <2>7. CASE r # NoRun
    <3>1. stack' = <<"acquire", "updated">> \o <<"reconcile">>
      BY <2>3, <2>7
    <3>2. Special' = {"acquire", "updated"} \ Plain
      BY <3>1, FirstStages, SpecialCall DEF StageNames
    <3>3. "updated" \in Plain
      BY DEF Plain, StageNames, NeedRun, NeedPrev, FirstOnly
    <3> QED  BY <1>0, <2>1, <2>2, <2>4, <2>7, <3>2, <3>3 DEF Handled, KeepsLease, SameGrant
  <2> QED  BY <2>6, <2>7
<1> QED  BY <1>1, <1>2

\* Every handler.
LEMMA CanHandlers ==
    ASSUME Inner, Outer, CanInv, Handlers PROVE CanInv'
<1>1. \E kind : Take(kind)
  BY DEF Handlers, OnStart, OnTimer, OnPoke, OnLeafOff, OnRootOff, OnRevoke,
     OnVacation, OnHazard, OnEnd, OnDismiss, OnAdd, OnDelete, OnStop, OnUnload
<1>2. Special = {}
  BY <1>1, StagesOfOne, FirstStages DEF Take, Special, StagesOf
<1>3. Handled
  BY <1>2, PlainHandlers, CancelHandlers, EndHandlers, AlarmHandlers DEF Handlers
<1> QED  BY <1>1, <1>2, <1>3, CanHandler

-----------------------------------------------------------------------------
(***************************************************************************)
(* What happens around the handlers.                                       *)
(***************************************************************************)
\* What is left alone around the handlers.
LEMMA StillAround ==
    ASSUME Still, Listening' => Listening, Queued \subseteq Queued',
           Listening' => vacation' = vacation \/ vacation' = "off" \/ Waits("vacation")',
           Listening' => room' = room \/ room' = "ready" \/ Waits("hazard")',
           LeaseNoticed, left'.faults <= left.faults
    PROVE  Around
BY DEF Still, Around, Special, StagesOf, run

\* A revoke event that is posted.
LEMMA RevokePosted ==
    ASSUME Inner, Outer, Yielded, Retire, Listening' => Listening, NEW t \in Tasks,
           t.kind = "revoke", t.gen = pbl.gen, Post(<<t>>)
    PROVE  Queued \subseteq Queued' /\ LeaseNoticed
<1>1. Queued \subseteq Queued' /\ (Listening => t \in Queued')
  BY QueuedOne
<1>2. Special \cap Recovering # {} => "acquire" \in Special
  BY RecoveringAsks
<1> QED  BY <1>1, <1>2 DEF LeaseNoticed, Retire

\* The acts of users.
LEMMA CanUsers ==
    ASSUME Inner, Outer, Outer', CanInv, MaxFaults \in Nat, Users PROVE CanInv'
<1>1. left.faults \in Nat /\ left'.faults \in Nat /\ left'.faults <= left.faults
  <2>1. Spend("user")
    BY DEF Users, LeafOff, LeafOn, SetVacation, SetRoom, PblRevoke, Command, Act
  <2> QED  BY <2>1, SpentLess DEF Outer
<1>2. Still /\ Yielded /\ proc' = proc /\ Listening' = Listening
  <2>1. Still /\ Yielded /\ proc' = proc
    BY DEF Users, LeafOff, LeafOn, SetVacation, SetRoom, PblRevoke, Command, proc
  <2> QED  BY <2>1 DEF proc, Listening
<1>3. ASSUME Queued \subseteq Queued', LeaseNoticed,
             Listening' => vacation' = vacation \/ vacation' = "off" \/ Waits("vacation")',
             Listening' => room' = room \/ room' = "ready" \/ Waits("hazard")'
      PROVE  CanInv'
  BY <1>1, <1>2, <1>3, StillAround, CanAround
<1>4. ASSUME NEW t \in Tasks, Post(<<t>>) \/ queue' = Append(queue, t)
      PROVE  Queued \subseteq Queued' /\ (Listening' => t \in Queued')
  BY <1>2, <1>4, QueuedOne
<1>5. CASE \E l \in Leaf : LeafOff(l)
  <2>1. PICK l \in Leaf : LeafOff(l)
    BY <1>5
  <2> DEFINE lease == IF Active THEN run.lease ELSE NoOcc
             off == [Task("leafOff") EXCEPT !.leaf = l, !.occ = lease]
  <2>2. LightsBecome([lights EXCEPT ![l] = 0], <<off>>)
    BY <2>1 DEF LeafOff
  <2>3. lease \in Occ \cup {NoOcc}
    BY ActiveRun DEF Run
  <2> HIDE DEF lease
  <2>4. off \in Tasks
    BY <2>3, EnvTasks
  <2> HIDE DEF off
  <2>5. <<off>> \in Seq(Tasks)
    BY <2>4
  <2>6. Queued \subseteq Queued' /\ LeaseNoticed
    BY <1>2, <2>2, <2>5, LightsNoticed, RecoveringAsks DEF LeaseNoticed
  <2> QED  BY <1>3, <2>1, <2>6 DEF LeafOff
<1>6. CASE \E l \in Leaf, level \in 1 .. Full : LeafOn(l, level)
  <2> DEFINE t == [Task("poke") EXCEPT !.user = TRUE]
  <2>1. Post(<<t>>) /\ pbl' = pbl /\ vacation' = vacation /\ room' = room
    BY <1>6 DEF LeafOn, peer
  <2>2. t \in Tasks
    BY EnvTasks
  <2> HIDE DEF t
  <2> QED  BY <1>3, <1>4, <2>1, <2>2 DEF LeaseNoticed
<1>7. CASE \E v \in {"off", "on", "unknown"} : SetVacation(v)
  <2>1. PICK v \in {"off", "on", "unknown"} : SetVacation(v)
    BY <1>7
  <2> DEFINE t == IF v = "off" THEN Task("poke")
                  ELSE [Task("vacation") EXCEPT !.user = (v = "on")]
  <2>2. Post(<<t>>) /\ pbl' = pbl /\ vacation' = v /\ room' = room
    BY <2>1 DEF SetVacation, peer
  <2>3. t \in Tasks /\ (v # "off" => t.kind = "vacation")
    BY EnvTasks DEF Task
  <2> HIDE DEF t
  <2>4. Queued \subseteq Queued' /\ (Listening' => t \in Queued')
    BY <1>4, <2>2, <2>3
  <2>5. Listening' => v = "off" \/ Waits("vacation")'
    BY <2>3, <2>4 DEF Waits
  <2> QED  BY <1>3, <2>2, <2>4, <2>5 DEF LeaseNoticed
<1>8. CASE \E r \in {"ready", "unknown", "blocked"} : SetRoom(r)
  <2>1. PICK r \in {"ready", "unknown", "blocked"} : SetRoom(r)
    BY <1>8
  <2> DEFINE t == Task(IF r = "ready" THEN "poke" ELSE "hazard")
  <2>2. Post(<<t>>) /\ pbl' = pbl /\ room' = r /\ vacation' = vacation
    BY <2>1 DEF SetRoom, peer
  <2>3. t \in Tasks /\ (r # "ready" => t.kind = "hazard")
    BY EnvTasks DEF Task
  <2> HIDE DEF t
  <2>4. Queued \subseteq Queued' /\ (Listening' => t \in Queued')
    BY <1>4, <2>2, <2>3
  <2>5. Listening' => r = "ready" \/ Waits("hazard")'
    BY <2>3, <2>4 DEF Waits
  <2> QED  BY <1>3, <2>2, <2>4, <2>5 DEF LeaseNoticed
<1>9. CASE \E u \in BOOLEAN : PblRevoke(u)
  <2>1. PICK u \in BOOLEAN : PblRevoke(u)
    BY <1>9
  <2> DEFINE t == [Task("revoke") EXCEPT !.gen = pbl.gen, !.user = u]
  <2>2. Post(<<t>>) /\ Retire /\ vacation' = vacation /\ room' = room
    BY <2>1 DEF PblRevoke
  <2>3. t \in Tasks /\ t.kind = "revoke" /\ t.gen = pbl.gen
    <3>1. pbl.gen \in Nat
      BY DEF Outer, Leases
    <3>2. t \in Tasks
      BY <3>1, EnvTasks
    <3>3. t.kind = "revoke" /\ t.gen = pbl.gen
      BY DEF Task
    <3> QED  BY <3>2, <3>3
  <2> HIDE DEF t
  <2> QED  BY <1>2, <1>3, <2>2, <2>3, RevokePosted
<1>10. CASE \/ \E o \in Occ : \/ Command("dismiss", o) \/ Command("add", o)
                              \/ Command("delete", o)
            \/ Command("end", NoOcc)
  <2>1. PICK kind \in {"dismiss", "add", "delete", "end"}, o \in Occ \cup {NoOcc} :
            Command(kind, o) /\ (kind = "add" => o \in Occ)
    BY <1>10
  <2> DEFINE t == [Task(kind) EXCEPT !.occ = o]
  <2>2. queue' = Append(queue, t) /\ pbl' = pbl /\ vacation' = vacation /\ room' = room
    BY <2>1 DEF Command, peer
  <2>3. t \in Tasks
    BY <2>1, CommandTask
  <2> HIDE DEF t
  <2> QED  BY <1>3, <1>4, <2>2, <2>3 DEF LeaseNoticed
<1> QED  BY <1>5, <1>6, <1>7, <1>8, <1>9, <1>10 DEF Users

\* The coordinator forgets all but the stored profile.
LEMMA CanForget ==
    ASSUME CanInv, MaxFaults \in Nat, left.faults \in Nat, left'.faults \in Nat,
           left'.faults <= left.faults, Forget, pbl'.status # "none" => pbl'.gen > 0
    PROVE  CanInv'
<1>1. Special' = {} /\ ~Listening'
  <2>1. stack' = <<>> /\ phase' = "down" /\ <<>> \in Seq(Plain)
    BY EmptySeq DEF Forget
  <2> QED  BY <2>1, SpecialPlain DEF Listening
<1>2. left'.faults <= MaxFaults
  BY StillFaultless
<1> QED  BY <1>1, <1>2 DEF CanInv, Admitted, Leased, Answered, SamePrev, ReleaseLast, InForce

\* Time, timers, PBL's expiry and the life of Home Assistant.
LEMMA CanMachine ==
    ASSUME Inner, Outer, Outer', CanInv, MaxFaults \in Nat, Machine PROVE CanInv'
<1>1. left.faults \in Nat /\ left'.faults \in Nat /\ left'.faults <= left.faults
  <2>1. left' = left \/ Spend("lags") \/ Spend("restarts")
    BY DEF Machine, Tick, FireTimer, Poke, PblExpire, Stop, Unload, Die, Boot, CoreRunning, world
  <2> QED  BY <2>1, SpentLess DEF Outer
<1>2. CASE Die
  <2>1. pbl'.status # "none" => pbl'.gen > 0
    <3>1. pbl \in Leases
      BY DEF Outer
    <3>2. CASE pbl.status = "none"
      BY <1>2, <3>2 DEF Die
    <3>3. CASE pbl.status # "none"
      <4>1. pbl' = [pbl EXCEPT !.status = "recovering", !.grace = clock + Grace]
        BY <1>2, <3>3 DEF Die
      <4>2. pbl'.gen = pbl.gen
        BY <3>1, <4>1 DEF Leases
      <4> QED  BY <3>3, <4>2 DEF CanInv
    <3> QED  BY <3>2, <3>3
  <2> QED  BY <1>1, <1>2, <2>1, CanForget DEF Die
<1>3. CASE ~Die
  <2>1. /\ Still /\ (Listening' => Listening) /\ vacation' = vacation /\ room' = room
    BY <1>3 DEF Machine, Tick, FireTimer, Poke, PblExpire, Stop, Unload, Boot, CoreRunning,
       Still, Listening, proc, world
  <2>2. ASSUME Queued \subseteq Queued', LeaseNoticed PROVE CanInv'
    BY <1>1, <2>1, <2>2, StillAround, CanAround
  <2>3. ASSUME NEW t \in Tasks, Post(<<t>>) \/ queue' = Append(queue, t)
        PROVE  Queued \subseteq Queued'
    BY <2>3, QueuedOne
  <2>4. CASE PblExpire
    <3> DEFINE t == [Task("revoke") EXCEPT !.gen = pbl.gen]
    <3>1. Post(<<t>>) /\ Retire /\ Yielded
      BY <2>4 DEF PblExpire
    <3>2. t \in Tasks /\ t.kind = "revoke" /\ t.gen = pbl.gen
      <4>1. Task("revoke") \in Tasks /\ Task("revoke").kind = "revoke" /\ pbl.gen \in Nat
        <5>1. "revoke" \in Kinds \ {"add"}
          BY DEF Kinds
        <5> QED  BY <5>1, TaskType DEF Task, Outer, Leases
      <4> QED  BY <4>1 DEF Tasks
    <3> HIDE DEF t
    <3> QED  BY <2>1, <2>2, <3>1, <3>2, RevokePosted
  <2>5. CASE ~PblExpire
    <3>1. LeaseNoticed
      BY <1>3, <2>5 DEF Machine, Tick, FireTimer, Poke, Stop, Unload, Boot, CoreRunning,
         LeaseNoticed, peer
    <3>2. CASE Tick \/ Boot
      <4>1. queue' = queue
        BY <3>2 DEF Tick, Boot
      <4> QED  BY <2>2, <3>1, <4>1 DEF Queued
    <3>3. CASE FireTimer
      <4> DEFINE t == [Task("timer") EXCEPT !.now = clock]
      <4>1. queue' = Append(queue, t)
        BY <3>3 DEF FireTimer
      <4>2. t \in Tasks
        <5>1. clock \in Int
          BY DEF Outer
        <5> QED  BY <5>1, EnvTasks
      <4> HIDE DEF t
      <4> QED  BY <2>2, <2>3, <3>1, <4>1, <4>2
    <3>4. CASE Poke \/ Stop \/ Unload \/ CoreRunning
      <4>1. PICK k \in {"poke", "stop", "unload", "start"} :
               Post(<<Task(k)>>) \/ queue' = Append(queue, Task(k))
        BY <3>4 DEF Poke, Stop, Unload, CoreRunning
      <4> QED  BY <2>2, <2>3, <3>1, <4>1, EnvTasks
    <3> QED  BY <1>3, <2>5, <3>2, <3>3, <3>4 DEF Machine
  <2> QED  BY <2>4, <2>5
<1> QED  BY <1>2, <1>3

\* At first there is nothing.
LEMMA CanInit == Init => CanInv
<1> SUFFICES ASSUME Init PROVE CanInv
  OBVIOUS
<1>1. run = NoRun /\ stack = <<>> /\ pbl = NoLease /\ left.faults = MaxFaults /\ MaxFaults \in Nat
  BY CoordinatorAssumption DEF Init, run
<1>2. Special = {}
  BY <1>1, StagesOfOne, FirstStages DEF Special, StagesOf
<1> QED  BY <1>1, <1>2 DEF CanInv, Admitted, Leased, Answered, SamePrev, ReleaseLast, InForce,
            Active, NoLease

\* Every step keeps it.
LEMMA CanNext == TypeInv /\ TypeInv' /\ CanInv /\ [Next]_vars => CanInv'
<1> SUFFICES ASSUME Inner, Outer, Outer', CanInv, [Next]_vars PROVE CanInv'
  <2>1. TypeInv' => Outer'
    BY TwoParts DEF TypeInv, TypeOK, Outer, LeaseKnown
  <2> QED  BY <2>1, TwoParts
<1>0. MaxFaults \in Nat /\ left.faults \in Nat /\ left'.faults \in Nat
  BY CoordinatorAssumption DEF Outer
<1>1. CASE UNCHANGED vars
  <2>1. /\ run' = run /\ Special' = Special /\ Queued' = Queued /\ Listening' = Listening
        /\ UNCHANGED <<job, pbl, vacation, room, left>>
    BY <1>1 DEF vars, proc, peer, world, run, Special, StagesOf, Queued, Listening
  <2> QED  BY <1>0, <2>1, CanAround DEF Around, LeaseNoticed
<1>2. CASE Stages
  <2>1. CASE Unloaded
    <3>1. Forget /\ pbl' = pbl /\ left' = left
      BY <2>1 DEF Unloaded, peer, world
    <3> QED  BY <1>0, <3>1, CanForget DEF CanInv
  <2>2. CASE ~Unloaded
    BY <1>0, <1>2, <2>2, StageMoves, CanMove
  <2> QED  BY <2>1, <2>2
<1> QED  BY <1>0, <1>1, <1>2, CanHandlers, CanAnswers, CanUsers, CanMachine DEF Next

\* The coordinator never sleeps on a run it could not act for: what forbids the
\* run has been acted on, and unless a call failed PBL holds the very lease and
\* generation that the next command will name (_preflight_locked,
\* _acquire_current_run_locked, _async_wake_lease_revoked).
THEOREM RunCanActAlways == Spec => []RunCanAct
<1>1. CanInv => RunCanAct
  <2> SUFFICES ASSUME CanInv, Settled, Active, ~run.pending
               PROVE  /\ vacation = "off" /\ room = "ready"
                      /\ Faultless => /\ pbl.status = "active" /\ pbl.lease = run.lease
                                      /\ pbl.gen = run.gen
    BY DEF RunCanAct
  <2>1. stack = <<>> /\ queue = <<>> /\ Listening
    BY DEF Settled, Idle
  <2>2. Special = {}
    BY <2>1, StagesOfOne, FirstStages DEF Special, StagesOf
  <2>3. Queued = {}
    BY <2>1 DEF Queued
  <2>4. InForce
    BY <2>1, <2>2 DEF InForce
  <2> QED  BY <2>2, <2>3, <2>4 DEF CanInv, Admitted, Leased, Unanswered, Holding, RevokeWaits, Waits
<1> QED  BY <1>1, TypeInit, TypeNext, CanInit, CanNext, PTL DEF Spec

-----------------------------------------------------------------------------
(***************************************************************************)
(* A leaf that a user turns off.  A coordinator that keeps listening notes *)
(* the off at once and drains what it noted right before it decides on a   *)
(* command; nothing comes between.                                         *)
(***************************************************************************)
AfterDrain(s) == \A i \in 2 .. Len(s) : s[i] = "decide" => s[i - 1] = "drain"
Ordered(s) == /\ s \in Seq(StageNames) /\ AfterDrain(s)
              /\ s # <<>> => Head(s) # "decide"

\* What follows a stage other than the drain is ordered.
LEMMA OrderedRest ==
    ASSUME NEW s \in Seq(StageNames), AfterDrain(s), s # <<>>, Head(s) # "drain"
    PROVE  Ordered(Tail(s))
<1>1. /\ Len(s) \in Nat \ {0} /\ Head(s) = s[1] /\ Tail(s) \in Seq(StageNames)
      /\ Len(Tail(s)) = Len(s) - 1
      /\ \A i \in 1 .. Len(Tail(s)) : Tail(s)[i] = s[i + 1]
  BY HeadTailProperties, EmptySeq, LenProperties
<1>2. AfterDrain(Tail(s))
  <2> SUFFICES ASSUME NEW i \in 2 .. Len(Tail(s)), Tail(s)[i] = "decide"
               PROVE  Tail(s)[i - 1] = "drain"
    BY DEF AfterDrain
  <2>1. i + 1 \in 2 .. Len(s) /\ i \in 1 .. Len(Tail(s)) /\ i - 1 \in 1 .. Len(Tail(s))
    BY <1>1
  <2>2. s[i + 1] = "decide" /\ Tail(s)[i - 1] = s[i]
    BY <1>1, <2>1
  <2>3. s[(i + 1) - 1] = "drain"
    BY <2>1, <2>2 DEF AfterDrain
  <2> QED  BY <2>1, <2>2, <2>3
<1>3. ASSUME Tail(s) # <<>> PROVE Head(Tail(s)) # "decide"
  <2>1. Len(Tail(s)) \in Nat \ {0} /\ Head(Tail(s)) = Tail(s)[1]
    BY <1>1, <1>3, EmptySeq
  <2>2. 2 \in 2 .. Len(s) /\ Tail(s)[1] = s[2]
    BY <1>1, <2>1
  <2>3. s[2] = "decide" => s[2 - 1] = "drain"
    BY <2>2 DEF AfterDrain
  <2> QED  BY <1>1, <2>1, <2>2, <2>3
<1> QED  BY <1>1, <1>2, <1>3 DEF Ordered

\* A stage in front of an ordered stack.
LEMMA OrderedMore ==
    ASSUME NEW s, Ordered(s), NEW a \in StageNames, a # "decide"
    PROVE  Ordered(<<a>> \o s)
<1> DEFINE t == <<a>> \o s
<1>1. /\ t \in Seq(StageNames) /\ Len(t) = 1 + Len(s) /\ Len(s) \in Nat
      /\ t # <<>> /\ Head(t) = a /\ t[1] = a
      /\ \A i \in 2 .. Len(t) : t[i] = s[i - 1]
  <2>1. s \in Seq(StageNames) /\ <<a>> \in Seq(StageNames) /\ Len(<<a>>) = 1 /\ <<a>>[1] = a
    BY DEF Ordered
  <2>2. /\ t \in Seq(StageNames) /\ Len(t) = 1 + Len(s) /\ Len(s) \in Nat
        /\ \A i \in 1 .. Len(t) : t[i] = IF i <= 1 THEN <<a>>[i] ELSE s[i - 1]
    BY <2>1, ConcatProperties, LenProperties
  <2> HIDE DEF t
  <2>3. t # <<>> /\ Head(t) = t[1]
    BY <2>2, EmptySeq
  <2> QED  BY <2>1, <2>2, <2>3
<1> HIDE DEF t
<1>2. AfterDrain(t)
  <2> SUFFICES ASSUME NEW i \in 2 .. Len(t), t[i] = "decide" PROVE t[i - 1] = "drain"
    BY DEF AfterDrain
  <2>1. i - 1 \in 1 .. Len(s) /\ s[i - 1] = "decide"
    BY <1>1
  <2>2. i - 1 # 1
    <3>1. s # <<>> /\ Head(s) = s[1]
      BY <1>1, <2>1, EmptySeq
    <3> QED  BY <2>1, <3>1 DEF Ordered
  <2>3. i - 1 \in 2 .. Len(s) /\ s[(i - 1) - 1] = "drain"
    <3>1. i - 1 \in 2 .. Len(s)
      BY <1>1, <2>1, <2>2
    <3> QED  BY <2>1, <3>1 DEF Ordered, AfterDrain
  <2> QED  BY <1>1, <2>3
<1> QED  BY <1>1, <1>2 DEF Ordered, t

\* Two of them, and the one or two that give a run up.
LEMMA OrderedTwo ==
    ASSUME NEW s, Ordered(s), NEW a \in StageNames, a # "decide",
           NEW b \in StageNames, b # "decide", NEW r
    PROVE  /\ Ordered(<<a, b>> \o s)
           /\ Ordered(ReleaseOf(r) \o <<b>> \o s)
<1>1. Ordered(<<b>> \o s) /\ s \in Seq(StageNames)
  BY OrderedMore DEF Ordered
<1>2. Ordered(<<a>> \o (<<b>> \o s))
  BY <1>1, OrderedMore
<1>3. <<a>> \o (<<b>> \o s) = <<a, b>> \o s
  BY <1>1
<1>4. <<"release">> \o <<b>> \o s = <<"release">> \o (<<b>> \o s) /\ <<>> \o <<b>> \o s = <<b>> \o s
  BY <1>1
<1>5. Ordered(<<"release">> \o (<<b>> \o s))
  BY <1>1, OrderedMore DEF StageNames
<1> QED  BY <1>1, <1>2, <1>3, <1>4, <1>5 DEF ReleaseOf

\* A cancellation (_cancel_active_locked).
LEMMA OrderedCancel ==
    ASSUME NEW p, NEW user, NEW revoked, NEW off, NEW rest, Ordered(rest),
           Cancel(p, user, revoked, off, rest)
    PROVE  Ordered(stack')
<1>1. CASE p.run = NoRun
  BY <1>1 DEF Cancel, Goto
<1>2. CASE p.run # NoRun
  <2>1. stack' = (IF revoked THEN <<>> ELSE ReleaseOf(p.run)) \o <<"cancelled">> \o rest
    BY <1>2 DEF Cancel, Goto
  <2>2. "cancelled" \in StageNames /\ "cancelled" # "decide" /\ rest \in Seq(StageNames)
    BY DEF StageNames, Ordered
  <2>3. Ordered(<<>> \o <<"cancelled">> \o rest)
    <3>1. <<>> \o <<"cancelled">> \o rest = <<"cancelled">> \o rest
      BY <2>2
    <3> QED  BY <2>2, <3>1, OrderedMore
  <2>4. Ordered(ReleaseOf(p.run) \o <<"cancelled">> \o rest)
    BY <2>2, OrderedTwo
  <2> QED  BY <2>1, <2>3, <2>4
<1> QED  BY <1>1, <1>2

\* A recovery that fails, is retried or is cancelled.
LEMMA OrderedFail ==
    ASSUME NEW r, NEW rest, Ordered(rest),
           FailRecovery(r, rest) \/ RetryOrFail(r, rest) \/ BlockedRecovery(r, rest)
    PROVE  Ordered(stack')
<1>1. FailRecovery(r, rest) => Ordered(stack')
  BY OrderedTwo DEF FailRecovery, Goto, StageNames
<1>2. RetryOrFail(r, rest) => Ordered(stack')
  BY <1>1 DEF RetryOrFail, NoCancel, Goto
<1> QED  BY <1>1, <1>2, OrderedCancel DEF BlockedRecovery

\* The loss of a leaf (_release_foreign_off_leaf_locked).
LEMMA OrderedLeaf ==
    ASSUME NEW l, NEW rest, Ordered(rest), ReleaseLeaf(l, rest)
    PROVE  Ordered(stack')
<1>1. Ordered(<<"acquire", "updated">> \o rest)
  BY OrderedTwo DEF StageNames
<1> QED  BY <1>1, OrderedCancel DEF ReleaseLeaf, NoCancel, Goto

\* What follows the stage a.
LEMMA OrderedAt ==
    ASSUME Inner, AfterDrain(stack), NEW a, a # "drain", At(a)
    PROVE  Ordered(Rest)
<1>1. stack \in Seq(StageNames)
  BY DEF Inner, Fits
<1> QED  BY <1>1, OrderedRest DEF At, Rest

-----------------------------------------------------------------------------
\* The drain is through: nothing that was noted concerns the run any more.
Emptied == /\ At("drain") /\ Drain /\ st' = st /\ stack' = Rest
           /\ Active => \A l \in run.targets : observed[l] # run.lease

\* What a stage leaves on the stack.
KeepsOrder == AfterDrain(stack') /\ (At("decide")' => Emptied)

\* An ordered stack is more than enough.
LEMMA OrderedKeeps == ASSUME Ordered(stack') PROVE KeepsOrder
BY DEF Ordered, KeepsOrder, At

\* The stages that do without a drain and a decision.
LEMMA PlainOrdered ==
    /\ Ordered(<<"finish">>) /\ Ordered(Pipeline) /\ Ordered(<<>>) /\ Ordered(<<"save">>)
    /\ Ordered(<<"reconcile">>) /\ Ordered(<<"recover", "reconcile">>)
    /\ Ordered(<<"settling", "reconcile">>) /\ Ordered(<<"persist">>)
    /\ Ordered(<<"persist", "unloaded">>)
BY EmptySeq DEF Ordered, AfterDrain, Pipeline, StageNames

\* The drain itself, and the decision that is put behind another one.
LEMMA OrderDrain ==
    ASSUME Inner, AfterDrain(stack), Drain \/ Dispatch PROVE KeepsOrder
<1>0. stack \in Seq(StageNames)
  BY DEF Inner, Fits
<1>1. ASSUME stack # <<>>
      PROVE  AfterDrain(Rest)
  <2>1. /\ Len(Rest) = Len(stack) - 1 /\ Len(stack) \in Nat
        /\ \A i \in 1 .. Len(Rest) : Rest[i] = stack[i + 1]
    BY <1>0, <1>1, HeadTailProperties, LenProperties DEF Rest
  <2> SUFFICES ASSUME NEW i \in 2 .. Len(Rest), Rest[i] = "decide" PROVE Rest[i - 1] = "drain"
    BY DEF AfterDrain
  <2>2. i + 1 \in 2 .. Len(stack) /\ i \in 1 .. Len(Rest) /\ i - 1 \in 1 .. Len(Rest)
    BY <2>1
  <2>3. stack[(i + 1) - 1] = "drain"
    BY <2>1, <2>2 DEF AfterDrain
  <2> QED  BY <2>1, <2>2, <2>3
<1>2. CASE Drain
  <2>1. At("drain") /\ stack # <<>> /\ Head(stack) = "drain"
    BY <1>2 DEF Drain, At
  <2>2. Ordered(stack)
    BY <1>0, <2>1 DEF Ordered
  <2> DEFINE mine == {l \in Leaf : /\ Active /\ observed[l] = run.lease
                                   /\ l \in run.targets}
  <2>3. CASE mine = {} /\ NoCancel(st, Rest)
    <3>1. st' = st /\ stack' = Rest
      BY <2>3 DEF NoCancel, Goto
    <3>2. Active => \A l \in run.targets : observed[l] # run.lease
      BY <2>3, ActiveRun DEF Run
    <3> QED  BY <1>1, <1>2, <2>1, <3>1, <3>2 DEF KeepsOrder, Emptied
  <2>4. CASE \E l \in mine : IF lights[l] = 0 THEN ReleaseLeaf(l, stack)
                             ELSE NoCancel(st, stack)
    BY <2>2, <2>4, OrderedLeaf, OrderedKeeps DEF NoCancel, Goto
  <2> QED  BY <1>2, <2>3, <2>4 DEF Drain
<1>3. CASE Dispatch
  <2>1. Ordered(Rest)
    BY <1>3, OrderedAt DEF Dispatch
  <2>2. CASE stack' = Rest
    BY <2>1, <2>2, OrderedKeeps
  <2>3. CASE stack' = <<"drain", "decide">> \o Rest
    <3> DEFINE t == <<"drain", "decide">> \o Rest
    <3>1. Rest \in Seq(StageNames) /\ Len(Rest) \in Nat
      BY <2>1, LenProperties DEF Ordered
    <3>2. <<"drain", "decide">> \in Seq(StageNames)
      BY DEF StageNames
    <3>3. /\ Len(t) = 2 + Len(Rest) /\ t \in Seq(StageNames)
          /\ t[1] = "drain" /\ t[2] = "decide"
          /\ \A i \in 3 .. Len(t) : t[i] = Rest[i - 2]
      BY <3>1, <3>2, ConcatProperties
    <3> HIDE DEF t
    <3>4. ASSUME NEW i \in 2 .. Len(t), t[i] = "decide" PROVE t[i - 1] = "drain"
      <4>1. CASE i = 2
        BY <3>3, <4>1
      <4>2. CASE i # 2
        <5>1. i \in 3 .. Len(t) /\ i - 2 \in 1 .. Len(Rest) /\ Rest[i - 2] = "decide"
          BY <3>1, <3>3, <3>4, <4>2
        <5>2. i - 2 # 1
          <6>1. Rest # <<>> /\ Head(Rest) = Rest[1]
            BY <3>1, <5>1, EmptySeq
          <6> QED  BY <2>1, <5>1, <6>1 DEF Ordered
        <5>3. i - 2 \in 2 .. Len(Rest)
          BY <3>1, <5>1, <5>2
        <5>4. Rest[(i - 2) - 1] = "drain"
          BY <2>1, <5>1, <5>3 DEF Ordered, AfterDrain
        <5>5. i - 1 \in 3 .. Len(t) /\ (i - 1) - 2 = (i - 2) - 1
          BY <3>1, <3>3, <5>3
        <5> QED  BY <3>3, <5>4, <5>5
      <4> QED  BY <4>1, <4>2
    <3>5. Head(t) = "drain"
      BY <3>1, <3>3, EmptySeq
    <3>6. stack' = t
      BY <2>3 DEF t
    <3> QED  BY <3>4, <3>5, <3>6 DEF KeepsOrder, AfterDrain, At
  <2> QED  BY <1>3, <2>2, <2>3 DEF Dispatch, NoCancel, Goto
<1> QED  BY <1>2, <1>3

\* Every stage of a handler, but the end of the entry.
LEMMA OrderStages ==
    ASSUME Inner, AfterDrain(stack), Stages, ~Unloaded PROVE KeepsOrder
<1> USE DEF Goto, NoCancel
<1>1. CASE Reconcile \/ Finish
  BY <1>1, PlainOrdered, OrderedKeeps DEF Reconcile, Finish
<1>2. CASE Drain \/ Dispatch
  BY <1>2, OrderDrain
<1>3. CASE Pending
  <2>1. Ordered(Rest)
    BY <1>3, OrderedAt DEF Pending
  <2>2. Ordered(<<"acquire", "reacquired">> \o Rest)
    BY <2>1, OrderedTwo DEF StageNames
  <2> QED  BY <1>3, <2>1, <2>2, PlainOrdered, OrderedFail, OrderedKeeps DEF Pending
<1>4. CASE Reacquired \/ Recovered
  <2>1. Ordered(Rest)
    BY <1>4, OrderedAt DEF Reacquired, Recovered
  <2> QED  BY <1>4, <2>1, PlainOrdered, OrderedFail, OrderedKeeps
              DEF Reacquired, Recovered, NotRecovered
<1>5. CASE JoinDue
  <2>1. Ordered(Rest)
    BY <1>5, OrderedAt DEF JoinDue
  <2>2. Ordered(<<"acquire", "merged">> \o Rest)
    BY <2>1, OrderedTwo DEF StageNames
  <2> QED  BY <1>5, <2>1, <2>2, OrderedCancel, OrderedKeeps DEF JoinDue
<1>6. CASE Complete
  <2>1. Ordered(Rest)
    BY <1>6, OrderedAt DEF Complete
  <2>2. /\ Ordered(<<"acquire", "merged">> \o Rest)
        /\ Ordered(ReleaseOf(run) \o <<"completed">> \o Rest)
    BY <2>1, OrderedTwo DEF StageNames
  <2> QED  BY <1>6, <2>1, <2>2, OrderedKeeps DEF Complete
<1>7. CASE Begin
  <2>1. Ordered(Rest)
    BY <1>7, OrderedAt DEF Begin
  <2>2. Ordered(<<"acquire", "started">> \o Rest)
    BY <2>1, OrderedTwo DEF StageNames
  <2> QED  BY <1>7, <2>1, <2>2, OrderedKeeps DEF Begin
<1>8. CASE Decide
  <2>1. Ordered(Rest)
    BY <1>8, OrderedAt DEF Decide
  <2>2. Ordered(<<"send">> \o Rest)
    BY <2>1, OrderedMore DEF StageNames
  <2> QED  BY <1>8, <2>1, <2>2, OrderedKeeps DEF Decide
<1>9. CASE Cancelled
  <2>1. Ordered(Rest)
    BY <1>9, OrderedAt DEF Cancelled
  <2>2. Ordered(<<"safeOff">> \o Rest)
    BY <2>1, OrderedMore DEF StageNames
  <2> QED  BY <1>9, <2>1, <2>2, OrderedKeeps DEF Cancelled
<1>10. CASE Ended
  <2>1. Ordered(Rest)
    BY <1>10, OrderedAt DEF Ended
  <2>2. Ordered(<<"safeOff", "fence">> \o Rest) /\ Ordered(<<"fence">> \o Rest)
    BY <2>1, OrderedTwo, OrderedMore DEF StageNames
  <2>3. /\ <<>> \o <<"fence">> \o Rest = <<"fence">> \o Rest
        /\ <<"safeOff">> \o <<"fence">> \o Rest = <<"safeOff", "fence">> \o Rest
    BY <2>1 DEF Ordered
  <2> QED  BY <1>10, <2>2, <2>3, OrderedKeeps DEF Ended
<1>11. CASE RecoverNothing \/ RecoverRootOff \/ RecoverNoTargets \/ RecoverRun
  <2>1. Ordered(Rest)
    BY <1>11, OrderedAt DEF RecoverNothing, RecoverRootOff, RecoverNoTargets, RecoverRun
  <2>2. /\ Ordered(<<"acquire", "recovered">> \o Rest)
        /\ Ordered(ReleaseOf(run) \o <<"abandoned">> \o Rest)
    BY <2>1, OrderedTwo DEF StageNames
  <2>3. CASE RecoverNothing \/ RecoverRootOff \/ RecoverNoTargets
    BY <2>1, <2>2, <2>3, OrderedCancel, OrderedKeeps
       DEF RecoverNothing, RecoverRootOff, RecoverNoTargets
  <2>4. CASE RecoverRun
    BY <2>1, <2>2, <2>4, OrderedFail, OrderedKeeps DEF RecoverRun
  <2> QED  BY <1>11, <2>3, <2>4
<1>12. CASE Updated
  <2>1. Ordered(Rest)
    BY <1>12, OrderedAt DEF Updated
  <2> QED  BY <1>12, <2>1, OrderedCancel, OrderedKeeps DEF Updated
<1>13. CASE Merged \/ CompletedRun \/ Started \/ Failed \/ Abandoned \/ Fence
  <2>1. Ordered(Rest)
    BY <1>13, OrderedAt DEF Merged, CompletedRun, Started, Failed, Abandoned, Fence
  <2> QED  BY <1>13, <2>1, OrderedKeeps
              DEF Merged, CompletedRun, Started, Failed, Abandoned, Fence
<1> QED  BY <1>1, <1>2, <1>3, <1>4, <1>5, <1>6, <1>7, <1>8, <1>9, <1>10, <1>11,
            <1>12, <1>13 DEF Stages

\* Every answer.
LEMMA OrderAnswers ==
    ASSUME Inner, AfterDrain(stack), Answers PROVE KeepsOrder
<1> USE DEF Goto, NoCancel
<1>1. CASE Granted \/ Refused \/ Released \/ NotReleased \/ SafeOff \/ NotSafeOff \/ Persist
  <2>1. Ordered(Rest)
    BY <1>1, OrderedAt DEF Granted, Refused, Released, NotReleased, SafeOff, NotSafeOff, Persist
  <2> QED  BY <1>1, <2>1, OrderedKeeps
              DEF Granted, Refused, Released, NotReleased, SafeOff, NotSafeOff, Persist
<1>2. ASSUME NEW T \in SUBSET Leaf, Dispatched(T) PROVE KeepsOrder
  <2>1. Ordered(Rest)
    BY <1>2, OrderedAt DEF Dispatched
  <2> QED  BY <1>2, <2>1, OrderedCancel, OrderedKeeps DEF Dispatched
<1>3. CASE NotDispatched(TRUE) \/ NotDispatched(FALSE) \/ DispatchFailed
  <2>1. Ordered(Rest)
    BY <1>3, OrderedAt DEF NotDispatched, DispatchFailed
  <2> QED  BY <1>3, <2>1, OrderedCancel, OrderedKeeps DEF NotDispatched, DispatchFailed
<1>4. CASE Settling
  <2>1. Ordered(Rest)
    BY <1>4, OrderedAt DEF Settling
  <2> QED  BY <1>4, <2>1, OrderedCancel, OrderedLeaf, OrderedKeeps DEF Settling
<1>5. CASE Save
  BY <1>5, PlainOrdered, OrderedKeeps DEF Save
<1> QED  BY <1>1, <1>2, <1>3, <1>4, <1>5 DEF Answers

\* Every handler that gets the lock.
LEMMA OrderHandlers ==
    ASSUME Inner, Handlers PROVE KeepsOrder
<1> USE DEF Begins, Goto, ThenReconcile
<1>1. Ordered(<<"cancelled">> \o <<"reconcile">>) /\ Ordered(<<"cancelled">> \o <<"finish">>)
  BY PlainOrdered, OrderedMore DEF StageNames
<1>2. ASSUME NEW u, NEW v, NEW w, NEW rest, Ordered(rest), CancelOn(u, v, w, rest)
      PROVE  Ordered(stack')
  <2>1. Ordered(ReleaseOf(run) \o <<"cancelled">> \o rest)
    BY <1>2, OrderedTwo DEF StageNames
  <2>2. Ordered(<<>> \o <<"cancelled">> \o rest)
    <3>1. <<>> \o <<"cancelled">> \o rest = <<"cancelled">> \o rest
      BY <1>2 DEF Ordered
    <3> QED  BY <1>2, <3>1, OrderedMore DEF StageNames
  <2> QED  BY <1>2, <2>1, <2>2 DEF CancelOn
<1>3. CASE OnStart \/ OnTimer \/ OnPoke \/ OnLeafOff \/ OnStop \/ OnAdd \/ OnDelete
  <2>1. CASE stack' = stack
    <3>1. stack = <<>>
      BY <1>3 DEF OnStart, OnTimer, OnPoke, OnLeafOff, OnStop, OnAdd, OnDelete, Take
    <3> QED  BY <2>1, <3>1, PlainOrdered, OrderedKeeps
  <2>2. CASE stack' \in {<<"reconcile">>, <<"recover", "reconcile">>,
                         <<"settling", "reconcile">>, <<"persist">>}
    BY <2>2, PlainOrdered, OrderedKeeps
  <2> QED  BY <1>3, <2>1, <2>2 DEF OnStart, OnTimer, OnPoke, OnLeafOff, OnStop, OnAdd, OnDelete
<1>4. CASE OnRootOff \/ OnRevoke \/ OnVacation \/ OnHazard
  <2>1. CASE stack' = stack
    <3>1. stack = <<>>
      BY <1>4 DEF OnRootOff, OnRevoke, OnVacation, OnHazard, Take
    <3> QED  BY <2>1, <3>1, PlainOrdered, OrderedKeeps
  <2>2. CASE stack' = <<"reconcile">>
    BY <2>2, PlainOrdered, OrderedKeeps
  <2>3. CASE \E u, v, w : CancelOn(u, v, w, <<"reconcile">>) \/ CancelOn(u, v, w, <<"finish">>)
    BY <1>2, <2>3, PlainOrdered, OrderedKeeps
  <2> QED  BY <1>4, <2>1, <2>2, <2>3 DEF OnRootOff, OnRevoke, OnVacation, OnHazard
<1>5. CASE OnEnd \/ OnUnload \/ OnDismiss
  <2>1. /\ Ordered(ReleaseOf(run) \o <<"ended", "reconcile">>)
        /\ Ordered(ReleaseOf(run) \o <<"abandoned", "persist", "unloaded">>)
        /\ Ordered(ReleaseOf(run) \o <<"reconcile">>)
        /\ Ordered(<<"acquire", "updated">> \o <<"reconcile">>)
    <3>1. /\ Ordered(<<"ended", "reconcile">>) /\ Ordered(<<"release", "ended">> \o <<"reconcile">>)
          /\ Ordered(<<"abandoned">> \o <<"persist", "unloaded">>)
          /\ Ordered(<<"release", "abandoned">> \o <<"persist", "unloaded">>)
          /\ Ordered(<<"release">> \o <<"reconcile">>)
          /\ Ordered(<<"acquire", "updated">> \o <<"reconcile">>)
      <4>1. Ordered(<<"ended">> \o <<"reconcile">>)
        BY PlainOrdered, OrderedMore DEF StageNames
      <4> QED  BY <4>1, PlainOrdered, OrderedMore, OrderedTwo, Joined DEF StageNames
    <3>2. /\ <<>> \o <<"ended", "reconcile">> = <<"ended", "reconcile">>
          /\ <<"release">> \o <<"ended", "reconcile">> = <<"release", "ended">> \o <<"reconcile">>
          /\ <<>> \o <<"abandoned", "persist", "unloaded">>
               = <<"abandoned">> \o <<"persist", "unloaded">>
          /\ <<"release">> \o <<"abandoned", "persist", "unloaded">>
               = <<"release", "abandoned">> \o <<"persist", "unloaded">>
          /\ <<>> \o <<"reconcile">> = <<"reconcile">>
      OBVIOUS
    <3> QED  BY <3>1, <3>2, PlainOrdered DEF ReleaseOf
  <2> QED  BY <1>5, <2>1, PlainOrdered, OrderedKeeps DEF OnEnd, OnUnload, OnDismiss
<1> QED  BY <1>3, <1>4, <1>5 DEF Handlers

-----------------------------------------------------------------------------
(***************************************************************************)
(* What the room tells.  An off by hand during the lease is noted and its  *)
(* event waits, or is being handled; so is the off of a light that the     *)
(* wake light owns and that is no longer as it left it.                    *)
(***************************************************************************)
LeafOffs == {t \in Queued : t.kind = "leafOff"}
Coming(l) == \E t \in LeafOffs : t.leaf = l
Heard(l) == \/ \E t \in LeafOffs : t.leaf = l /\ t.occ = run.lease
            \/ "settling" \in Special /\ job.leaf = l

Lit(l) == touch[l].by = "wake" /\ lights[l] > 0
Accounted(l) == Lit(l) \/ Coming(l)

\* A leaf is remembered with a lease that is over or that the run still holds.
TouchedInRun ==
    \A l \in Leaf : touch[l].by = "user" /\ touch[l].lease # NoOcc =>
        \/ touch[l].lease \in st.terminal
        \/ Active /\ run.lease = touch[l].lease /\ run.gen # 0

OwnTargets == Active => run.owned \subseteq run.targets

OffNoticed ==
    Active /\ "cancelled" \notin Special =>
        \A l \in run.targets : TurnedOff(l) => observed[l] = run.lease /\ Heard(l)

OwnedLit ==
    Active /\ "cancelled" \notin Special => \A l \in OwnedLights(run) : Lit(l) \/ Heard(l)

\* A cancellation that turns lights off knows them.
CutLit ==
    Active /\ "cancelled" \in Special /\ job.off => \A l \in OwnedLights(run) : Accounted(l)
PrevLit ==
    Special \cap {"safeOff", "ended"} # {} => \A l \in OwnedLights(job.prev) : Accounted(l)

LightFacts == /\ TouchedInRun /\ OwnTargets /\ OffNoticed /\ OwnedLit
              /\ CutLit /\ PrevLit

\* The leading alarm of a run leaves it only by ending.
LeaderOf(r, over) == r # NoRun /\ r.lease \in r.occs \cup over
SameLights(q, r) == q.targets = r.targets /\ q.owned = r.owned /\ q.released = r.released

StageFacts ==
    /\ Active => LeaderOf(run, st.terminal)
    /\ "completed" \in Special => run.lease \in st.terminal
    /\ "merged" \in Special => LeaderOf(job.prev, st.terminal) /\ SameLights(job.prev, run)
    /\ "started" \in Special /\ ("acquire" \in Special \/ ~job.ok) => run.gen = 0
    /\ Special \cap {"failed", "abandoned"} # {} => job.prev = run
    /\ "send" \in Special => job.level > 0
    /\ Special \cap {"safeOff", "ended", "fence"} # {} => ~Active

\* Between the drain and the decision nobody gets the loop.
Drained == At("decide") /\ Active => \A l \in run.targets : ~TurnedOff(l)

HandInv == StageFacts /\ LightFacts /\ AfterDrain(stack) /\ Drained

(***************************************************************************)
(* What the stages do to the run.                                          *)
(***************************************************************************)
\* The same run with no more targets and lights.
Trim(q, r) ==
    \/ q = r
    \/ /\ q \in Run /\ r \in Run
       /\ q.lease = r.lease /\ (r.gen # 0 => q.gen # 0)
       /\ q.targets \subseteq r.targets
       /\ r.owned \subseteq r.targets => q.owned \subseteq q.targets
       /\ OwnedLights(q) \subseteq OwnedLights(r)

\* The run goes on, or is about to be given up.
Lessens ==
    /\ Active /\ Trim(run', run) /\ LeaderOf(run', st'.terminal)
    /\ "cancelled" \notin Special
    /\ "settling" \in Special => /\ "cancelled" \in Special' \/ job.leaf \notin run'.targets
                                 /\ "cancelled" \in Special' => ~job'.off
    /\ Special' \cap {"started", "safeOff", "ended", "fence"} = {}
    /\ "completed" \in Special' => run'.occs \subseteq st'.terminal
    /\ "merged" \in Special' => LeaderOf(job'.prev, st'.terminal) /\ SameLights(job'.prev, run')
    /\ Special' \cap {"failed", "abandoned"} # {} => job'.prev = run'
    /\ "send" \in Special' => job'.level > 0

\* A call is answered, and the stages behind it find what they have left.
Passes ==
    /\ Active' <=> Active
    /\ Active => Trim(run', run) /\ LeaderOf(run', st'.terminal)
    /\ "settling" \notin Special /\ Special' \subseteq Special
    /\ "cancelled" \in Special => "cancelled" \in Special'
    /\ job'.prev = job.prev /\ job'.off = job.off /\ job'.level = job.level
    /\ "started" \in Special' => run'.gen = 0 \/ ("acquire" \notin Special' /\ job'.ok)
    /\ "merged" \in Special' => SameLights(run', run)
    /\ Special' \cap {"failed", "abandoned"} # {} => run' = run

\* There is no run any more.
Leaves ==
    /\ run' = NoRun
    /\ Active => run.gen = 0 \/ run.lease \in st'.terminal
    /\ Special' \cap {"started", "merged", "completed", "failed", "abandoned", "send"} = {}
    /\ Special' \cap {"safeOff", "ended"} # {} =>
          \/ Special \cap {"safeOff", "ended"} # {} /\ job'.prev = job.prev
          \/ "cancelled" \in Special /\ job.off /\ Active /\ job'.prev = run
          \/ Special = {} /\ Active /\ job'.prev = run

\* A new one.
Ignites ==
    /\ ~Active /\ Active' /\ Special = {} /\ Special' = {"acquire", "started"}
    /\ run' \in Run /\ run'.lease \in run'.occs \ st.terminal
    /\ run'.owned = {} /\ run'.gen = 0

\* What was noted about the leaves that remain stays noted.
StillNoted ==
    Active /\ Active' /\ "cancelled" \notin Special' => \A l \in run'.targets :
        observed[l] = run.lease /\ lights[l] = 0 => observed'[l] = run.lease

Unlit == /\ lights' = lights /\ touch' = touch
         /\ LeafOffs \subseteq LeafOffs' /\ st.terminal \subseteq st'.terminal
         /\ StillNoted

\* Every one of these moves keeps what the stages rely on.
LEMMA StageFactsKept ==
    ASSUME StageFacts, st.terminal \subseteq st'.terminal,
           Lessens \/ Passes \/ Leaves \/ Ignites
    PROVE  StageFacts'
<1>1. CASE Lessens
  <2>1. Active => Active'
    BY <1>1, NoRunAssumption DEF Lessens, Trim, Active, run
  <2> QED  BY <1>1, <2>1 DEF Lessens, StageFacts, LeaderOf, SameLights, run
<1>2. CASE Passes
  <2>1. Active => run'.lease = run.lease
    BY <1>2 DEF Passes, Trim
  <2>2. ~Active => run' = run
    BY <1>2 DEF Passes, Active, run
  <2>3. "completed" \in Special' => run'.lease \in st'.terminal
    BY <1>2, <2>1, <2>2 DEF Passes, StageFacts
  <2>4. Active' => LeaderOf(run', st'.terminal)
    BY <1>2 DEF Passes
  <2>5. "merged" \in Special' => LeaderOf(job'.prev, st'.terminal) /\ SameLights(job'.prev, run')
    BY <1>2, <2>1, <2>2 DEF Passes, StageFacts, LeaderOf, SameLights
  <2>6. Special' \cap {"failed", "abandoned"} # {} => job'.prev = run'
    BY <1>2 DEF Passes, StageFacts
  <2>7. "send" \in Special' => job'.level > 0
    BY <1>2 DEF Passes, StageFacts
  <2>8. Special' \cap {"safeOff", "ended", "fence"} # {} => ~Active'
    BY <1>2 DEF Passes, StageFacts
  <2> QED  BY <1>2, <2>3, <2>4, <2>5, <2>6, <2>7, <2>8 DEF Passes, StageFacts, run
<1>3. CASE Leaves
  BY <1>3 DEF Leaves, StageFacts, Active, run
<1>4. CASE Ignites
  BY <1>4, NoRunAssumption DEF Ignites, StageFacts, LeaderOf, run
<1> QED  BY <1>1, <1>2, <1>3, <1>4

\* And what they know of the lights.
LEMMA LightFactsKept ==
    ASSUME Inner, Outer, LightFacts, StageFacts, Unlit,
           Lessens \/ Passes \/ Leaves \/ Ignites
    PROVE  LightFacts'
<1>1. /\ \A l : Lit(l)' = Lit(l) /\ (Coming(l) => Coming(l)')
      /\ \A l : Accounted(l) => Accounted(l)'
  BY DEF Unlit, Lit, Coming, Accounted
<1>2. CASE Lessens \/ (Passes /\ Active)
  <2>1. /\ Active' /\ Active /\ run' # NoRun /\ run # NoRun /\ Trim(run', run)
        /\ run'.lease = run.lease /\ run'.targets \subseteq run.targets
        /\ OwnedLights(run') \subseteq OwnedLights(run)
        /\ run.gen # 0 => run'.gen # 0
        /\ run'.owned \subseteq run'.targets
    BY <1>2, NoRunAssumption DEF Lessens, Passes, Trim, Active, run, LightFacts, OwnTargets
  <2>2. TouchedInRun' /\ OwnTargets'
    BY <2>1 DEF LightFacts, TouchedInRun, OwnTargets, Unlit, run
  <2>3. ASSUME NEW l \in run'.targets, Heard(l), "cancelled" \notin Special' PROVE Heard(l)'
    <3>1. ~("settling" \in Special /\ job.leaf = l)
      BY <1>2, <2>3 DEF Lessens, Passes
    <3> QED  BY <2>1, <2>3, <3>1 DEF Heard, Unlit, run
  <2>4. OffNoticed'
    <3> SUFFICES ASSUME "cancelled" \notin Special', NEW l \in run'.targets, TurnedOff(l)'
                 PROVE  observed'[l] = run'.lease /\ Heard(l)'
      BY DEF OffNoticed, run
    <3>1. "cancelled" \notin Special
      BY <1>2 DEF Lessens, Passes
    <3>2. TurnedOff(l) /\ lights[l] = 0
      BY <2>1 DEF TurnedOff, Unlit, run
    <3>3. observed[l] = run.lease /\ Heard(l)
      BY <2>1, <3>1, <3>2 DEF LightFacts, OffNoticed
    <3> QED  BY <2>1, <2>3, <3>2, <3>3 DEF Unlit, StillNoted
  <2>5. ASSUME NEW l \in OwnedLights(run') PROVE l \in run'.targets /\ l \in OwnedLights(run)
    BY <2>1, <2>5 DEF OwnedLights
  <2>6. OwnedLit'
    <3> SUFFICES ASSUME "cancelled" \notin Special', NEW l \in OwnedLights(run')
                 PROVE  Lit(l)' \/ Heard(l)'
      BY DEF OwnedLit, run
    <3>1. "cancelled" \notin Special
      BY <1>2 DEF Lessens, Passes
    <3> QED  BY <1>1, <2>1, <2>3, <2>5, <3>1 DEF LightFacts, OwnedLit
  <2>7. CutLit'
    <3> SUFFICES ASSUME "cancelled" \in Special', job'.off, NEW l \in OwnedLights(run')
                 PROVE  Accounted(l)'
      BY DEF CutLit, run
    <3>1. CASE "cancelled" \in Special
      <4>1. job.off
        BY <1>2, <3>1 DEF Lessens, Passes
      <4> QED  BY <1>1, <2>1, <2>5, <3>1, <4>1 DEF LightFacts, CutLit
    <3>2. CASE "cancelled" \notin Special
      <4>1. Lit(l) \/ Heard(l)
        BY <2>1, <2>5, <3>2 DEF LightFacts, OwnedLit
      <4>2. "settling" \notin Special
        BY <1>2, <3>2 DEF Lessens, Passes
      <4>3. Lit(l) \/ Coming(l)
        BY <4>1, <4>2 DEF Heard, Coming
      <4> QED  BY <1>1, <4>3 DEF Accounted
    <3> QED  BY <3>1, <3>2
  <2>8. PrevLit'
    BY <1>1, <1>2 DEF Lessens, Passes, LightFacts, PrevLit
  <2> QED  BY <2>2, <2>4, <2>6, <2>7, <2>8 DEF LightFacts
<1>3. CASE Passes /\ ~Active
  BY <1>1, <1>3 DEF Passes, LightFacts, TouchedInRun, OwnTargets, OffNoticed, OwnedLit, CutLit,
     PrevLit, Unlit
<1>4. CASE Leaves
  <2>1. ~Active' /\ OwnTargets' /\ OffNoticed' /\ OwnedLit' /\ CutLit'
    BY <1>4 DEF Leaves, Active, run, OwnTargets, OffNoticed, OwnedLit, CutLit
  <2>2. TouchedInRun'
    BY <1>4 DEF Leaves, LightFacts, TouchedInRun, Unlit
  <2>3. PrevLit'
    <3> SUFFICES ASSUME Special' \cap {"safeOff", "ended"} # {}, NEW l \in OwnedLights(job'.prev)
                 PROVE  Accounted(l)'
      BY DEF PrevLit
    <3>1. CASE Special \cap {"safeOff", "ended"} # {} /\ job'.prev = job.prev
      BY <1>1, <3>1 DEF LightFacts, PrevLit
    <3>2. CASE "cancelled" \in Special /\ job.off /\ Active /\ job'.prev = run
      BY <1>1, <3>2 DEF LightFacts, CutLit
    <3>3. CASE Special = {} /\ Active /\ job'.prev = run
      <4>1. Lit(l) \/ Heard(l)
        BY <3>3 DEF LightFacts, OwnedLit
      <4> QED  BY <1>1, <3>3, <4>1 DEF Heard, Coming, Accounted
    <3> QED  BY <1>4, <3>1, <3>2, <3>3 DEF Leaves
  <2> QED  BY <2>1, <2>2, <2>3 DEF LightFacts
<1>5. CASE Ignites
  <2>1. TouchedInRun'
    BY <1>5 DEF Ignites, LightFacts, TouchedInRun, Unlit
  <2>2. \A l \in Leaf : ~TurnedOff(l)'
    BY <1>5, OccAssumption DEF Ignites, Run, LightFacts, TouchedInRun, TurnedOff, Unlit, run
  <2>3. OffNoticed'
    BY <1>5, <2>2 DEF Ignites, Run, OffNoticed, run
  <2>4. OwnTargets' /\ OwnedLit' /\ CutLit' /\ PrevLit'
    BY <1>5 DEF Ignites, OwnTargets, OwnedLit, CutLit, PrevLit, OwnedLights, run
  <2> QED  BY <2>1, <2>2, <2>3, <2>4 DEF LightFacts
<1> QED  BY <1>2, <1>3, <1>4, <1>5

-----------------------------------------------------------------------------
\* The moves of a step that forgets no occurrence that is over.
HandMoves == /\ st.terminal \subseteq st'.terminal
             /\ Lessens \/ Passes \/ Leaves \/ Ignites

\* No stage is under way that waits for a light.
Unhurried == Special \cap {"cancelled", "settling"} = {}

\* Runs with the same lease, occurrences and lights.
SameRoom(q, r) == /\ q \in Run /\ r \in Run
                  /\ q.lease = r.lease /\ q.gen = r.gen /\ q.occs = r.occs
                  /\ SameLights(q, r)

\* A run with the same lights is trimmed as the other one is.
LEMMA TrimSame ==
    ASSUME NEW q, NEW r, NEW u, SameRoom(q, r), Trim(r, u)
    PROVE  Trim(q, u) /\ \A t : LeaderOf(r, t) => LeaderOf(q, t)
<1>1. q # NoRun /\ OwnedLights(q) = OwnedLights(r)
  BY NoRunAssumption DEF SameRoom, SameLights, OwnedLights
<1>2. CASE r = u
  BY <1>1, <1>2 DEF SameRoom, SameLights, Trim, LeaderOf
<1>3. CASE r # u
  BY <1>1, <1>3 DEF SameRoom, SameLights, Trim, LeaderOf
<1> QED  BY <1>2, <1>3

\* A run that observes the brightness, and one that has lost leaves.
LEMMA TrimWatched ==
    ASSUME Outer, NEW r \in Run, NEW now
    PROVE  SameRoom(Watched(r, now), r)
<1> DEFINE q == Watched(r, now)
<1>1. /\ q \in Run /\ q.occs = r.occs /\ q.lease = r.lease /\ q.gen = r.gen
      /\ q.targets = r.targets /\ q.owned = r.owned /\ q.released = r.released
  BY WatchedKeeps DEF Outer
<1> HIDE DEF q
<1> QED  BY <1>1 DEF SameRoom, SameLights, q

\* A run that loses leaves is trimmed.
LEMMA TrimReleased ==
    ASSUME NEW r \in Run, NEW gone, ReleaseLeaves(r, gone) \in Run
    PROVE  /\ Trim(ReleaseLeaves(r, gone), r)
           /\ ReleaseLeaves(r, gone).targets = r.targets \ gone
           /\ \A t : LeaderOf(r, t) => LeaderOf(ReleaseLeaves(r, gone), t)
<1> DEFINE q == ReleaseLeaves(r, gone)
<1>1. /\ q.occs = r.occs /\ q.lease = r.lease /\ q.gen = r.gen
      /\ q.targets = r.targets \ gone
      /\ q.owned = IF gone \cap r.targets = {} THEN r.owned ELSE r.owned \ gone
      /\ q.released = r.released \cup (gone \cap r.targets)
  BY ReleaseLeavesKeeps
<1>2. q \in Run /\ q # NoRun
  BY NoRunAssumption
<1> HIDE DEF q
<1>3. q.targets \subseteq r.targets /\ OwnedLights(q) \subseteq OwnedLights(r)
  BY <1>1 DEF OwnedLights
<1>4. r.owned \subseteq r.targets => q.owned \subseteq q.targets
  BY <1>1
<1>5. Trim(q, r) /\ \A t : LeaderOf(r, t) => LeaderOf(q, t)
  BY <1>1, <1>2, <1>3, <1>4 DEF Trim, LeaderOf
<1> QED  BY <1>1, <1>5 DEF q

\* Every run lessens to itself.
LEMMA TrimSelf == ASSUME NEW r PROVE Trim(r, r)
BY DEF Trim

\* Keeping the run, or what is left of it, before plain stages.
LEMMA KeepHands ==
    ASSUME Inner, StageFacts, NEW p, NEW rest \in Seq(Plain), NoCancel(p, rest),
           st.terminal \subseteq p.terminal, Trim(p.run, run),
           Active => LeaderOf(p.run, p.terminal),
           "cancelled" \notin Special,
           Active /\ "settling" \in Special => job.leaf \notin p.run.targets
    PROVE  HandMoves
<1>1. st' = p /\ job' = job /\ Special' = {} /\ run' = p.run
  BY NoCancelDoes DEF run
<1>2. CASE Active
  BY <1>1, <1>2 DEF HandMoves, Lessens
<1>3. CASE ~Active
  <2>1. run' = NoRun
    BY <1>1, <1>3, NoRunAssumption DEF Active, Trim
  <2> QED  BY <1>1, <1>3, <2>1 DEF HandMoves, Leaves
<1> QED  BY <1>2, <1>3

\* Giving it up.
LEMMA CancelHands ==
    ASSUME Inner, Outer, StageFacts, NEW p \in Profile, NEW u \in BOOLEAN, NEW v \in BOOLEAN,
           NEW w \in BOOLEAN, NEW rest \in Seq(Plain), Cancel(p, u, v, w, rest),
           st.terminal \subseteq p.terminal, Trim(p.run, run),
           Active => LeaderOf(p.run, p.terminal),
           "cancelled" \notin Special, "settling" \in Special => ~w
    PROVE  HandMoves
<1>0. clock \in Nat
  BY DEF Outer
<1>1. /\ run' = p.run /\ st'.terminal = p.terminal
      /\ p.run = NoRun => Special' = {}
      /\ p.run # NoRun => /\ "cancelled" \in Special' /\ Special' \subseteq {"release", "cancelled"}
                          /\ job'.off = w
  BY <1>0, CancelDoes DEF run
<1>2. CASE Active
  <2>1. p.run # NoRun
    BY <1>2 DEF LeaderOf
  <2> QED  BY <1>1, <1>2, <2>1 DEF HandMoves, Lessens
<1>3. CASE ~Active
  <2>1. run' = NoRun
    BY <1>1, <1>3, NoRunAssumption DEF Active, Trim
  <2> QED  BY <1>1, <1>3, <2>1 DEF HandMoves, Leaves
<1> QED  BY <1>2, <1>3

\* Losing a leaf.
LEMMA LeafHands ==
    ASSUME Inner, Outer, StageFacts, NEW l, NEW rest \in Seq(Plain), ReleaseLeaf(l, rest),
           "cancelled" \notin Special, "settling" \in Special => job.leaf = l
    PROVE  HandMoves
<1>0. st \in Profile /\ (Active => LeaderOf(run, st.terminal)) /\ st.run = run
  BY DEF Inner, StageFacts, run
<1>1. CASE \E revoked \in BOOLEAN : Cancel(st, TRUE, revoked, FALSE, rest)
  BY <1>0, <1>1, CancelHands, TrimSelf
<1>2. CASE st' = st /\ job' = job /\ Special' = {} /\ (~Active \/ l \notin run.targets)
  <2>1. run' = run
    BY <1>2 DEF run
  <2>2. CASE Active
    BY <1>0, <1>2, <2>1, <2>2, TrimSelf DEF HandMoves, Lessens
  <2>3. CASE ~Active
    BY <1>2, <2>1, <2>3 DEF HandMoves, Leaves, Active
  <2> QED  BY <2>2, <2>3
<1>3. CASE /\ Active /\ run \in Run /\ ReleaseLeaves(run, {l}) \in Run
           /\ st' = [st EXCEPT !.run = ReleaseLeaves(run, {l})]
           /\ Special' = {"acquire"}
  <2> DEFINE q == ReleaseLeaves(run, {l})
  <2>1. /\ Trim(q, run) /\ q.targets = run.targets \ {l}
        /\ LeaderOf(q, st.terminal)
    BY <1>0, <1>3, TrimReleased
  <2> HIDE DEF q
  <2>2. run' = q /\ st'.terminal = st.terminal
    BY <1>0, <1>3 DEF Profile, run, q
  <2> QED  BY <1>3, <2>1, <2>2 DEF HandMoves, Lessens
<1> QED  BY <1>1, <1>2, <1>3, ReleaseLeafDoes

\* Giving a recovery up, or trying again later.
LEMMA FailHands ==
    ASSUME Inner, Outer, StageFacts, Unhurried, Active, NEW r \in Run, NEW rest \in Seq(Plain),
           Trim(r, run), LeaderOf(r, st.terminal),
           \/ FailRecovery(r, rest) \/ RetryOrFail(r, rest) \/ BlockedRecovery(r, rest)
    PROVE  HandMoves
<1>0. st \in Profile /\ job \in Jobs
  BY DEF Inner
<1>1. CASE /\ st' = [st EXCEPT !.run = r] /\ job' = [job EXCEPT !.prev = r]
           /\ Special' = {"failed"} \cup (IF r.gen = 0 THEN {} ELSE {"release"})
  <2>1. run' = r /\ job'.prev = r /\ st'.terminal = st.terminal
    BY <1>0, <1>1 DEF Profile, Jobs, run
  <2>2. Special' \subseteq {"failed", "release"}
    BY <1>1
  <2> QED  BY <2>1, <2>2 DEF HandMoves, Lessens, Unhurried
<1>2. CASE st' = [st EXCEPT !.run = [r EXCEPT !.pending = TRUE]] /\ Special' = {}
  <2> DEFINE q == [r EXCEPT !.pending = TRUE]
  <2>1. SameRoom(q, r)
    BY DEF SameRoom, SameLights, Run
  <2> HIDE DEF q
  <2>2. run' = q /\ st'.terminal = st.terminal
    BY <1>0, <1>2 DEF Profile, run, q
  <2>3. Trim(q, run) /\ LeaderOf(q, st.terminal)
    BY <2>1, TrimSame
  <2> QED  BY <1>2, <2>2, <2>3 DEF HandMoves, Lessens, Unhurried
<1>3. CASE Cancel([st EXCEPT !.run = r], FALSE, FALSE, VacationBlocks, rest)
  <2> DEFINE p == [st EXCEPT !.run = r]
  <2>1. p \in Profile /\ p.run = r /\ p.terminal = st.terminal /\ VacationBlocks \in BOOLEAN
    BY <1>0 DEF Profile, VacationBlocks, Available
  <2> HIDE DEF p
  <2>2. Cancel(p, FALSE, FALSE, VacationBlocks, rest)
    BY <1>3 DEF p
  <2> QED  BY <2>1, <2>2, CancelHands DEF Unhurried
<1> QED  BY <1>1, <1>2, <1>3, FailRecoveryDoes, RetryOrFailDoes DEF BlockedRecovery

-----------------------------------------------------------------------------
\* Refreshing a profile forgets nothing that is over.
LEMMA RefreshedGrows ==
    ASSUME NEW p \in Profile, NEW now \in Int
    PROVE  /\ p.terminal \subseteq Refreshed(p, now).terminal
           /\ Refreshed(p, now).run = p.run
<1> DEFINE e == ExpandFence(p, now)
           q == ClearExpiredFence(e, now)
<1>1. e \in Profile /\ e.run = p.run
  BY ExpandFenceType
<1>2. p.terminal \subseteq e.terminal
  BY DEF ExpandFence, Profile
<1> HIDE DEF e
<1>3. q \in Profile /\ q.run = e.run /\ q.terminal = e.terminal
  BY <1>1 DEF ClearExpiredFence, Profile, Interval, NoInterval, NoTime
<1>4. Refreshed(p, now) = [q EXCEPT !.alarms = @ \ (q.terminal \cup StaleAlarms(q, now)),
                                    !.missed = @ \cup StaleAlarms(q, now)]
  BY DEF Refreshed, e
<1> HIDE DEF q
<1>5. Refreshed(p, now).terminal = q.terminal /\ Refreshed(p, now).run = q.run
  BY <1>3, <1>4 DEF Profile
<1> QED  BY <1>1, <1>2, <1>3, <1>5

\* At a plain stage nothing that waits for a light is under way.
LEMMA PlainUnhurried ==
    ASSUME Inner, StageFacts, NEW a \in PlainNames, At(a)
    PROVE  /\ Special = {} /\ Unhurried /\ Rest \in Seq(Plain) /\ stack \in Seq(Plain)
           /\ st \in Profile /\ st.run = run /\ (Active => LeaderOf(run, st.terminal))
<1>1. stack \in Seq(Plain)
  BY PlainNamesPlain, AtAllPlain DEF PlainNames, NeedRun, NeedPrev
<1>2. Special = {} /\ Rest \in Seq(Plain)
  BY PlainNamesPlain, PlainAt, AtPlain DEF PlainNames
<1> QED  BY <1>1, <1>2 DEF Unhurried, Inner, StageFacts, run

\* The plain stages that go on with the run there is.
LEMMA EasyHands ==
    ASSUME Inner, Outer, StageFacts, Reconcile \/ Drain \/ Dispatch \/ Updated \/ Finish
    PROVE  HandMoves
<1>0. PICK a \in PlainNames : At(a)
  BY DEF Reconcile, Drain, Dispatch, Updated, Finish, PlainNames
<1>1. /\ Special = {} /\ Unhurried /\ Rest \in Seq(Plain) /\ stack \in Seq(Plain)
      /\ st \in Profile /\ st.run = run /\ (Active => LeaderOf(run, st.terminal))
  BY <1>0, PlainUnhurried
<1>2. CASE Reconcile \/ Finish
  <2>1. job.now \in Int
    BY DEF Inner, Jobs
  <2>2. run' = run /\ st.terminal \subseteq st'.terminal
    BY <1>1, <1>2, <2>1, RefreshedGrows DEF Reconcile, Finish, run
  <2>3. stack' = Pipeline \/ stack' = <<"save">> \/ stack' = <<>>
    BY <1>2 DEF Reconcile, Finish, Goto
  <2>4. stack' \in Seq(Plain)
    <3>1. <<"save">> \in Seq(Plain) /\ <<>> \in Seq(Plain)
      BY DEF Plain, StageNames, NeedRun, NeedPrev, FirstOnly
    <3> QED  BY <2>3, <3>1, PipelinePlain
  <2>5. Special' = {}
    BY <2>4, SpecialPlain
  <2>6. CASE Active
    BY <1>1, <2>2, <2>5, <2>6, TrimSelf DEF HandMoves, Lessens, LeaderOf
  <2>7. CASE ~Active
    BY <1>1, <2>2, <2>5, <2>7 DEF HandMoves, Leaves, Active
  <2> QED  BY <2>6, <2>7
<1>3. CASE Drain
  <2>1. \/ NoCancel(st, Rest) \/ NoCancel(st, stack) \/ \E l \in Leaf : ReleaseLeaf(l, stack)
    BY <1>3 DEF Drain
  <2> QED  BY <1>1, <2>1, KeepHands, LeafHands, TrimSelf
<1>4. CASE Dispatch
  <2>1. <<"drain", "decide">> \in Seq(Plain)
    BY DEF Plain, StageNames, NeedRun, NeedPrev, FirstOnly
  <2>2. <<"drain", "decide">> \o Rest \in Seq(Plain)
    BY <1>1, <2>1, ConcatProperties
  <2>3. NoCancel(st, <<"drain", "decide">> \o Rest) \/ NoCancel(st, Rest)
    BY <1>4 DEF Dispatch
  <2> QED  BY <1>1, <2>2, <2>3, KeepHands, TrimSelf
<1>5. CASE Updated
  BY <1>1, <1>5, KeepHands, CancelHands, TrimSelf DEF Updated
<1> QED  BY <1>2, <1>3, <1>4, <1>5

\* Taking a recovery up.
LEMMA RecoveryHands ==
    ASSUME Inner, Outer, StageFacts, Pending \/ Reacquired \/ Recovered PROVE HandMoves
<1>0. st \in Profile /\ st.run = run /\ (Active => LeaderOf(run, st.terminal))
  BY DEF Inner, StageFacts, run
<1>1. Rest \in Seq(Plain) /\ <<"finish">> \in Seq(Plain)
  BY AtPlain, PipelinePlain DEF Pending, Reacquired, Recovered
<1>2. CASE Pending
  <2>1. Special = {} /\ Unhurried
    <3>1. At("pending") /\ "pending" \in PlainNames
      BY <1>2 DEF Pending, PlainNames
    <3> QED  BY <3>1, PlainUnhurried
  <2>2. CASE NoCancel(st, Rest) \/ NoCancel(st, <<"finish">>)
    BY <1>0, <1>1, <2>1, <2>2, KeepHands, TrimSelf
  <2>3. CASE Active /\ (FailRecovery(run, <<"finish">>) \/ BlockedRecovery(run, <<"finish">>))
    <3>1. run \in Run
      BY <2>3, ActiveRun
    <3> QED  BY <1>0, <1>1, <2>1, <2>3, <3>1, FailHands, TrimSelf
  <2>4. CASE Active /\ NoCancel(st, <<"acquire", "reacquired">> \o Rest)
    <3>1. Special' = {"acquire", "reacquired"} /\ run' = run /\ st' = st
      BY <1>1, <2>4, CallSpecial DEF NoCancel, Goto, run
    <3> QED  BY <1>0, <2>1, <2>4, <3>1, TrimSelf DEF HandMoves, Lessens
  <2> QED  BY <1>2, <2>2, <2>3, <2>4 DEF Pending
<1>3. CASE Reacquired \/ Recovered
  <2>1. run \in Run /\ Active
    BY <1>3, AtNeeds, NoRunAssumption DEF Reacquired, Recovered, NeedRun, Active
  <2>2. Unhurried
    <3>1. {"recovered", "reacquired"} \cap Plain = {}
      BY DEF Plain, NeedRun
    <3>2. Special = {"recovered"} \/ Special = {"reacquired"}
      BY <1>3, <3>1, SpecialAt DEF Recovered, Reacquired
    <3> QED  BY <3>2 DEF Unhurried
  <2>3. CASE job.ok /\ NoCancel([st EXCEPT !.run = Resumed], Rest)
    <3> DEFINE p == [st EXCEPT !.run = Resumed]
    <3>1. SameRoom(Resumed, run)
      <4>1. Resumed \in Run
        <5>1. RefreshHolds(run, job.now) \in Run
          BY <2>1, RefreshHoldsType DEF Inner, Jobs
        <5> QED  BY <5>1 DEF Resumed, Run
      <4>2. /\ Resumed.lease = run.lease /\ Resumed.gen = run.gen /\ Resumed.occs = run.occs
            /\ SameLights(Resumed, run)
        BY <2>1 DEF Resumed, RefreshHolds, Run, SameLights
      <4> QED  BY <2>1, <4>1, <4>2 DEF SameRoom
    <3>2. Trim(Resumed, run) /\ LeaderOf(Resumed, st.terminal)
      BY <1>0, <2>1, <3>1, TrimSame, TrimSelf
    <3>3. p.run = Resumed /\ p.terminal = st.terminal
      BY <1>0 DEF Profile
    <3> HIDE DEF p
    <3>4. NoCancel(p, Rest)
      BY <2>3 DEF p
    <3> QED  BY <1>1, <2>2, <3>2, <3>3, <3>4, KeepHands DEF Unhurried
  <2>4. CASE NotRecovered(Rest) \/ NotRecovered(<<"finish">>)
    BY <1>0, <1>1, <2>1, <2>2, <2>4, FailHands, TrimSelf DEF NotRecovered
  <2> QED  BY <1>3, <2>3, <2>4 DEF Reacquired, Recovered
<1> QED  BY <1>2, <1>3

\* Joining the run.
LEMMA JoinHands ==
    ASSUME Inner, Outer, StageFacts, JoinDue PROVE HandMoves
<1>0. /\ st \in Profile /\ clock \in Nat /\ job \in Jobs /\ st.run = run
      /\ (Active => LeaderOf(run, st.terminal))
  BY DEF Inner, Outer, StageFacts, run
<1>1. Rest \in Seq(Plain) /\ Special = {} /\ Unhurried
  <2>1. At("active") /\ "active" \in PlainNames
    BY DEF JoinDue, PlainNames
  <2> QED  BY <2>1, PlainUnhurried
<1>2. CASE ~Active
  BY <1>0, <1>1, <1>2, KeepHands, TrimSelf DEF JoinDue
<1>3. CASE Active
  <2> DEFINE r == Watched(run, job.now)
             due == (Due \ r.occs) \cap ConnectedEpisode(r, Due, job.now).ids
             over == OverBudget(r, due)
             c == [st EXCEPT !.run = r]
             p == [st EXCEPT !.run = r, !.terminal = @ \cup over]
             m == MergeOccurrences(r, due \ over, job.now)
             s == [p EXCEPT !.run = m]
             on == vacation = "on"
  <2>1. run \in Run /\ SameRoom(r, run)
    BY <1>3, ActiveRun, TrimWatched
  <2>2. r \in Run
    BY <2>1 DEF SameRoom
  <2>3. m \in Run
    <3>2. due \ over \in SUBSET Occ
      BY DEF Due, Inner
    <3> HIDE DEF r, due, over
    <3> QED  BY <2>2, <3>2, MergeType, <1>0 DEF Jobs
  <2>4. /\ m.lease = r.lease /\ m.gen = r.gen /\ r.occs \subseteq m.occs /\ SameLights(r, m)
    <3> HIDE DEF r, due, over
    <3> QED  BY <2>2 DEF MergeOccurrences, Run, SameLights
  <2>5. /\ p.run = r /\ s.run = m /\ st.terminal \subseteq p.terminal /\ s.terminal = p.terminal
        /\ c \in Profile /\ c.run = r /\ c.terminal = st.terminal
    <3> HIDE DEF r, over, m
    <3> QED  BY <1>0, <2>2 DEF Profile
  <2>6. \/ Cancel(c, FALSE, FALSE, on, Rest)
        \/ NoCancel(p, Rest)
        \/ /\ st' = s /\ job' = [job EXCEPT !.prev = r]
           /\ stack' = <<"acquire", "merged">> \o Rest
    BY <1>3 DEF JoinDue, Goto
  <2>7. on \in BOOLEAN
    OBVIOUS
  <2> HIDE DEF r, due, over, c, p, m, s, on
  <2>8. Trim(r, run) /\ LeaderOf(r, st.terminal)
    BY <1>0, <1>3, <2>1, TrimSame, TrimSelf
  <2>9. LeaderOf(r, p.terminal)
    BY <2>5, <2>8 DEF LeaderOf
  <2>10. CASE Cancel(c, FALSE, FALSE, on, Rest)
    BY <1>1, <2>5, <2>7, <2>8, <2>10, CancelHands DEF Unhurried
  <2>11. CASE NoCancel(p, Rest)
    BY <1>1, <2>5, <2>8, <2>9, <2>11, KeepHands DEF Unhurried
  <2>12. CASE /\ st' = s /\ job' = [job EXCEPT !.prev = r]
              /\ stack' = <<"acquire", "merged">> \o Rest
    <3>1. Special' = {"acquire", "merged"}
      BY <1>1, <2>12, CallSpecial
    <3>2. run' = m /\ job'.prev = r /\ st'.terminal = p.terminal
      BY <1>0, <2>5, <2>12 DEF Jobs, run
    <3>3. Trim(m, run)
      <4>1. OwnedLights(m) = OwnedLights(run) /\ m.targets = run.targets /\ m.owned = run.owned
            /\ m.lease = run.lease /\ m.gen = run.gen
        BY <2>1, <2>4 DEF SameRoom, SameLights, OwnedLights
      <4> QED  BY <2>1, <2>3, <4>1 DEF Trim
    <3>4. LeaderOf(m, p.terminal)
      BY <2>3, <2>4, <2>9, NoRunAssumption DEF LeaderOf
    <3> QED  BY <1>1, <1>3, <2>4, <2>5, <2>9, <3>1, <3>2, <3>3, <3>4 DEF HandMoves, Lessens
  <2> QED  BY <2>6, <2>10, <2>11, <2>12
<1> QED  BY <1>2, <1>3

\* Occurrences that leave the run, the last one with its release.
LEMMA CompleteHands ==
    ASSUME Inner, Outer, StageFacts, Complete PROVE HandMoves
<1>0. /\ st \in Profile /\ job \in Jobs /\ st.run = run
      /\ (Active => LeaderOf(run, st.terminal))
  BY DEF Inner, StageFacts, run
<1>1. Rest \in Seq(Plain) /\ Special = {} /\ Unhurried
  <2>1. At("complete") /\ "complete" \in PlainNames
    BY DEF Complete, PlainNames
  <2> QED  BY <2>1, PlainUnhurried
<1> DEFINE done == IF Active THEN Completed(run, job.now) ELSE {}
           p == [st EXCEPT !.alarms = @ \ done,
                           !.terminal = @ \cup done,
                           !.missed = @ \cup (done \ run.final)]
<1>2. CASE NoCancel(st, Rest)
  BY <1>0, <1>1, <1>2, KeepHands, TrimSelf
<1>3. CASE done # {}
  <2>1. run \in Run /\ Active
    BY <1>3, ActiveRun
  <2>2. /\ job' = [job EXCEPT !.prev = run]
        /\ \/ /\ run.occs = done /\ st' = p
              /\ stack' = ReleaseOf(run) \o <<"completed">> \o Rest
           \/ /\ run.occs # done /\ st' = [p EXCEPT !.run = Without(run, done)]
              /\ stack' = <<"acquire", "merged">> \o Rest
    BY <1>3 DEF Complete, Goto
  <2>3. done \subseteq run.occs
    BY <2>1 DEF Completed
  <2> HIDE DEF done
  <2>4. /\ p.run = run /\ p.terminal = st.terminal \cup done
        /\ \A r : [p EXCEPT !.run = r].run = r /\ [p EXCEPT !.run = r].terminal = p.terminal
    BY <1>0 DEF Profile, run
  <2>5. job'.prev = run
    BY <1>0, <2>2 DEF Jobs
  <2> HIDE DEF p
  <2>6. CASE /\ run.occs = done /\ st' = p
             /\ stack' = ReleaseOf(run) \o <<"completed">> \o Rest
    <3>1. "completed" \in StageNames \ Plain
      BY DEF StageNames, Plain, NeedRun
    <3>2. Special' = {"completed"} \cup (IF run.gen = 0 THEN {} ELSE {"release"})
      BY <1>1, <2>6, <3>1, SpecialRelease
    <3>3. Special' \subseteq {"completed", "release"}
      BY <3>2
    <3>4. run' = run /\ LeaderOf(run, st'.terminal)
      BY <1>0, <2>1, <2>4, <2>6 DEF LeaderOf, run
    <3> QED  BY <1>1, <2>1, <2>4, <2>6, <3>3, <3>4, TrimSelf DEF HandMoves, Lessens
  <2>7. CASE /\ run.occs # done /\ st' = [p EXCEPT !.run = Without(run, done)]
             /\ stack' = <<"acquire", "merged">> \o Rest
    <3> DEFINE q == Without(run, done)
    <3>1. Special' = {"acquire", "merged"}
      BY <1>1, <2>7, CallSpecial
    <3>2. run' = q /\ st'.terminal = st.terminal \cup done
      BY <1>0, <2>4, <2>7 DEF run
    <3>3. q \in Run /\ q.lease = run.lease /\ q.gen = run.gen /\ SameLights(run, q)
          /\ q.occs = run.occs \ done
      <4>1. ~(run.occs \subseteq done)
        BY <2>3, <2>7
      <4> QED  BY <2>1, <4>1 DEF Without, Run, SameLights
    <3> HIDE DEF q
    <3>4. Trim(q, run)
      BY <2>1, <3>3 DEF Trim, SameLights, OwnedLights
    <3>5. LeaderOf(q, st'.terminal) /\ LeaderOf(run, st'.terminal)
      BY <1>0, <2>1, <3>2, <3>3, NoRunAssumption DEF LeaderOf
    <3> QED  BY <1>1, <2>1, <2>5, <3>1, <3>2, <3>3, <3>4, <3>5 DEF HandMoves, Lessens
  <2> QED  BY <2>2, <2>6, <2>7
<1> QED  BY <1>2, <1>3 DEF Complete

-----------------------------------------------------------------------------
\* The answers that end the run.
LEMMA EndHands ==
    ASSUME Inner, Outer, StageFacts,
           CompletedRun \/ Failed \/ Abandoned \/ Cancelled \/ Ended \/ Fence
    PROVE  HandMoves
<1>0. /\ st \in Profile /\ job \in Jobs /\ st.run = run
      /\ (Active => LeaderOf(run, st.terminal))
  BY DEF Inner, StageFacts, run
<1>1. Rest \in Seq(Plain)
  BY AtPlain DEF CompletedRun, Failed, Abandoned, Cancelled, Ended, Fence
<1>2. PICK a \in {"completed", "failed", "abandoned", "cancelled", "ended", "fence"} :
         At(a) /\ Special = {a}
  <2>1. PICK a \in {"completed", "failed", "abandoned", "cancelled", "ended", "fence"} : At(a)
    BY DEF CompletedRun, Failed, Abandoned, Cancelled, Ended, Fence
  <2>2. a \notin Plain
    BY DEF Plain, NeedRun, NeedPrev
  <2> QED  BY <2>1, <2>2, SpecialAt
<1>3. CASE CompletedRun \/ Failed \/ Abandoned
  <2>1. run' = NoRun /\ stack' = Rest /\ st.terminal \subseteq st'.terminal
    BY <1>0, <1>3 DEF CompletedRun, Failed, Abandoned, Profile, Goto, run
  <2>2. Special' = {}
    BY <1>1, <2>1, SpecialPlain
  <2>3. Active => run.lease \in st'.terminal
    <3>1. CASE CompletedRun
      <4>1. "completed" \in Special
        <5>1. At("completed") /\ "completed" \notin Plain
          BY <3>1 DEF CompletedRun, Plain, NeedRun
        <5> QED  BY <5>1, SpecialAt
      <4> QED  BY <2>1, <4>1 DEF StageFacts
    <3>2. CASE Failed \/ Abandoned
      <4>1. Special \cap {"failed", "abandoned"} # {}
        <5>1. \E b \in {"failed", "abandoned"} : At(b) /\ b \notin Plain
          BY <3>2 DEF Failed, Abandoned, Plain, NeedPrev
        <5> QED  BY <5>1, SpecialAt
      <4>2. job.prev = run
        BY <4>1 DEF StageFacts
      <4>3. st'.terminal = st.terminal \cup run.occs
        BY <1>0, <3>2, <4>2 DEF Failed, Abandoned, Profile
      <4> QED  BY <1>0, <4>3 DEF LeaderOf
    <3> QED  BY <1>3, <3>1, <3>2
  <2> QED  BY <2>1, <2>2, <2>3 DEF HandMoves, Leaves
<1>4. CASE Cancelled
  <2>1. At("cancelled") /\ "cancelled" \notin Plain /\ run \in Run /\ Active
    <3>1. At("cancelled") /\ "cancelled" \in NeedRun
      BY <1>4 DEF Cancelled, NeedRun
    <3> QED  BY <3>1, AtNeeds, NoRunAssumption DEF Active, Plain
  <2>2. Special = {"cancelled"}
    BY <2>1, SpecialAt
  <2>3. run' = NoRun
    BY <1>0, <1>4 DEF Cancelled, RememberUserCancellation, Profile, run
  <2>4. st.terminal \cup run.occs \subseteq st'.terminal
    <3>1. CASE job.user
      <4> DEFINE e == ConnectedEpisode(run, scheduled, job.at)
      <4>1. run.occs \subseteq e.ids
        BY DEF ConnectedEpisode, Connected
      <4>2. st' = RememberUserCancellation(st, e, job.at)
        BY <1>4, <3>1 DEF Cancelled
      <4> HIDE DEF e
      <4>3. st'.terminal = st.terminal \cup e.ids
        BY <1>0, <4>2 DEF RememberUserCancellation, Profile
      <4> QED  BY <4>1, <4>3
    <3>2. CASE ~job.user
      BY <1>0, <1>4, <3>2 DEF Cancelled, Profile
    <3> QED  BY <3>1, <3>2
  <2>5. \/ stack' = <<"safeOff">> \o Rest /\ job.off /\ job'.prev = run
        \/ stack' = Rest
    <3>1. \/ /\ job.off /\ stack' = <<"safeOff">> \o Rest
             /\ job' = [job EXCEPT !.prev = run]
          \/ stack' = Rest
      BY <1>4 DEF Cancelled, Goto
    <3> QED  BY <1>0, <3>1 DEF Jobs
  <2>6. CASE stack' = <<"safeOff">> \o Rest /\ job.off /\ job'.prev = run
    <3>1. Special' \subseteq {"safeOff"}
      BY <1>1, <2>6, SpecialOne DEF StageNames
    <3> QED  BY <1>0, <2>1, <2>2, <2>3, <2>4, <2>6, <3>1 DEF HandMoves, Leaves, LeaderOf
  <2>7. CASE stack' = Rest
    <3>1. Special' = {}
      BY <1>1, <2>7, SpecialPlain
    <3> QED  BY <1>0, <2>1, <2>3, <2>4, <3>1 DEF HandMoves, Leaves, LeaderOf
  <2> QED  BY <2>5, <2>6, <2>7
<1>5. CASE Ended \/ Fence
  <2>1. \E b \in {"ended", "fence"} : At(b) /\ b \notin Plain
    BY <1>5 DEF Ended, Fence, Plain, NeedPrev
  <2>2. Special = {"ended"} \/ Special = {"fence"}
    BY <2>1, SpecialAt
  <2>3. ~Active /\ job' = job
    BY <1>5, <2>2 DEF StageFacts, Ended, Fence
  <2>4. CASE Ended
    <3>1. run' = NoRun /\ st' = st
      BY <2>3, <2>4 DEF Ended, Active, run
    <3>2. stack' = (IF OwnedLights(job.prev) = {} THEN <<>> ELSE <<"safeOff">>)
                      \o <<"fence">> \o Rest
      BY <2>4 DEF Ended, Goto
    <3>3. stack' = <<"fence">> \o Rest \/ stack' = <<"safeOff", "fence">> \o Rest
      BY <3>2, Joined
    <3>4. Special' \subseteq {"safeOff", "fence"}
      <4>1. Special' = {"fence"} \ Plain \/ Special' = {"safeOff", "fence"} \ Plain
        <5>1. CASE stack' = <<"fence">> \o Rest
          <6>1. "fence" \in StageNames
            BY DEF StageNames
          <6> QED  BY <1>1, <5>1, <6>1, SpecialOne
        <5>2. CASE stack' = <<"safeOff", "fence">> \o Rest
          <6>1. "safeOff" \in StageNames /\ "fence" \in StageNames
            BY DEF StageNames
          <6> QED  BY <1>1, <5>2, <6>1, SpecialCall
        <5> QED  BY <3>3, <5>1, <5>2
      <4> QED  BY <4>1
    <3>5. Special = {"ended"}
      <4>1. At("ended") /\ "ended" \notin Plain
        BY <2>4 DEF Ended, Plain, NeedPrev
      <4> QED  BY <4>1, SpecialAt
    <3> QED  BY <2>3, <3>1, <3>4, <3>5 DEF HandMoves, Leaves
  <2>5. CASE Fence
    <3>1. run' = NoRun /\ stack' = Rest /\ st.terminal \subseteq st'.terminal
      BY <1>0, <2>5 DEF Fence, RememberUserCancellation, Profile, Goto, run
    <3>2. Special' = {}
      BY <1>1, <3>1, SpecialPlain
    <3> QED  BY <2>3, <3>1, <3>2 DEF HandMoves, Leaves
  <2> QED  BY <1>5, <2>4, <2>5
<1> QED  BY <1>3, <1>4, <1>5

\* The answers that open, join or refuse.
LEMMA AnswerHands ==
    ASSUME Inner, Outer, StageFacts, SamePrev, Merged \/ Started PROVE HandMoves
<1>0. /\ st \in Profile /\ job \in Jobs /\ st.run = run
      /\ (Active => LeaderOf(run, st.terminal)) /\ {"merged", "started"} \cap Plain = {}
  BY DEF Inner, StageFacts, run, Plain, NeedRun
<1>1. Rest \in Seq(Plain) /\ run \in Run /\ Active
  BY AtPlain, AtNeeds, NoRunAssumption DEF Merged, Started, NeedRun, Active
<1>2. stack' = Rest
  BY DEF Merged, Started, NoCancel, Goto
<1>3. Special' = {}
  BY <1>1, <1>2, SpecialPlain
<1>4. CASE Merged
  <2>1. Special = {"merged"}
    BY <1>0, <1>4, SpecialAt DEF Merged
  <2>2. (job.ok /\ st' = st) \/ (~job.ok /\ st' = [st EXCEPT !.run = job.prev])
    BY <1>4 DEF Merged
  <2>3. CASE st' = st
    BY <1>0, <1>1, <1>3, <2>1, <2>3, TrimSelf DEF HandMoves, Lessens, run
  <2>4. CASE ~job.ok /\ st' = [st EXCEPT !.run = job.prev]
    <3>1. run' = job.prev /\ st'.terminal = st.terminal
      BY <1>0, <2>4 DEF Profile, run
    <3>2. /\ LeaderOf(job.prev, st.terminal) /\ SameLights(job.prev, run)
          /\ job.prev.lease = run.lease /\ job.prev.gen = run.gen
      BY <2>1, <2>4 DEF StageFacts, SamePrev
    <3>3. job.prev \in Run
      BY <1>0, <3>2 DEF Jobs, LeaderOf
    <3>4. Trim(job.prev, run)
      BY <1>1, <3>2, <3>3 DEF Trim, SameLights, OwnedLights
    <3> QED  BY <1>1, <1>3, <2>1, <3>1, <3>2, <3>4 DEF HandMoves, Lessens
  <2> QED  BY <2>2, <2>3, <2>4
<1>5. CASE Started
  <2>1. Special = {"started"}
    BY <1>0, <1>5, SpecialAt DEF Started
  <2>2. (job.ok /\ st' = st) \/ (~job.ok /\ st' = [st EXCEPT !.run = NoRun])
    BY <1>5 DEF Started, NoCancel
  <2>3. CASE st' = st
    BY <1>0, <1>1, <1>3, <2>1, <2>3, TrimSelf DEF HandMoves, Lessens, run
  <2>4. CASE ~job.ok /\ st' = [st EXCEPT !.run = NoRun]
    <3>1. run' = NoRun /\ st'.terminal = st.terminal
      BY <1>0, <2>4 DEF Profile, run
    <3>2. run.gen = 0
      BY <2>1, <2>4 DEF StageFacts
    <3> QED  BY <1>3, <3>1, <3>2 DEF HandMoves, Leaves
  <2> QED  BY <2>2, <2>3, <2>4
<1> QED  BY <1>4, <1>5

\* Starting a run.
LEMMA BeginHands ==
    ASSUME Inner, Outer, StageFacts, Begin PROVE HandMoves
<1>0. PICK a \in PlainNames : At(a)
  BY DEF Begin, PlainNames
<1>1. /\ Special = {} /\ Unhurried /\ Rest \in Seq(Plain)
      /\ st \in Profile /\ st.run = run /\ (Active => LeaderOf(run, st.terminal))
  BY <1>0, PlainUnhurried
<1>2. CASE NoCancel(st, Rest)
  BY <1>1, <1>2, KeepHands, TrimSelf
<1>3. CASE /\ ~Active /\ Due # {}
           /\ NoCancel([st EXCEPT !.run = StartRun(Due, job.now, TargetFloor(Leaf))],
                       <<"acquire", "started">> \o Rest)
  <2> DEFINE q == StartRun(Due, job.now, TargetFloor(Leaf))
  <2>1. Due \in (SUBSET Occ) \ {{}} /\ Due \cap st.terminal = {}
    BY <1>3 DEF Due, Inner
  <2>2. FirstOf(Due) \in Due
    BY <2>1, FirstOfIn
  <2>3. q \in Run
    BY <2>1, StartRunType, TargetFloorType DEF Inner, Outer, Jobs
  <2>4. /\ q.lease = FirstOf(Due) /\ q.occs = Due /\ q.owned = {} /\ q.gen = 0
    BY DEF StartRun
  <2>5. run' = q /\ st'.terminal = st.terminal
    BY <1>1, <1>3 DEF NoCancel, Profile, run
  <2> HIDE DEF q
  <2>6. Special' = {"acquire", "started"}
    BY <1>1, <1>3, CallSpecial DEF NoCancel, Goto
  <2>7. Active'
    BY <2>3, <2>5, NoRunAssumption DEF Active, run
  <2> QED  BY <1>1, <1>3, <2>1, <2>2, <2>3, <2>4, <2>5, <2>6, <2>7 DEF HandMoves, Ignites
<1> QED  BY <1>2, <1>3 DEF Begin

\* Deciding on a command.
LEMMA DecideHands ==
    ASSUME Inner, Outer, StageFacts, Decide PROVE HandMoves
<1>0. PICK a \in PlainNames : At(a)
  BY DEF Decide, PlainNames
<1>1. /\ Special = {} /\ Unhurried /\ Rest \in Seq(Plain) /\ job \in Jobs
      /\ st \in Profile /\ st.run = run /\ (Active => LeaderOf(run, st.terminal))
  BY <1>0, PlainUnhurried DEF Inner
<1>2. CASE NoCancel(st, Rest)
  BY <1>1, <1>2, KeepHands, TrimSelf
<1>3. CASE /\ Active
           /\ NoCancel([st EXCEPT !.run.next =
                          IF revokeBy # NoTime /\ @ # NoTime THEN @
                          ELSE NextDeadline(run, job.now)], Rest)
  <2> DEFINE n == IF revokeBy # NoTime /\ run.next # NoTime THEN run.next
                  ELSE NextDeadline(run, job.now)
             q == [run EXCEPT !.next = n]
             p == [st EXCEPT !.run = q]
  <2>1. run \in Run
    BY <1>3, ActiveRun
  <2>2. NoCancel(p, Rest)
    BY <1>1, <1>3, <2>1 DEF run, Profile, Run
  <2>3. n \in Int
    BY <2>1, NextDeadlineType DEF Run, Inner, Jobs
  <2> HIDE DEF n
  <2>4. SameRoom(q, run)
    BY <2>1, <2>3 DEF Run, SameRoom, SameLights
  <2> HIDE DEF q
  <2>5. p.run = q /\ p.terminal = st.terminal
    BY <1>1 DEF Profile
  <2> HIDE DEF p
  <2>6. Trim(q, run) /\ LeaderOf(q, st.terminal)
    BY <1>1, <1>3, <2>4, TrimSame, TrimSelf
  <2> QED  BY <1>1, <2>2, <2>5, <2>6, KeepHands DEF Unhurried
<1>4. CASE /\ Active /\ stack' = <<"send">> \o Rest /\ UNCHANGED st
           /\ \E f : job' = [job EXCEPT !.force = f,
                                !.level = IF f THEN Full ELSE DesiredLevel(run, job.now)]
  <2>1. Special' \subseteq {"send"}
    BY <1>1, <1>4, SpecialOne DEF StageNames
  <2>2. run \in Run /\ job.now \in Int
    BY <1>1, <1>4, ActiveRun DEF Jobs
  <2>3. DesiredLevel(run, job.now) > 0 /\ Full > 0
    <3>1. DesiredLevel(run, job.now) \in 1 .. Full
      BY <2>2, DesiredLevelType
    <3> QED  BY <3>1, TimeAssumption
  <2>4. job'.level > 0
    BY <1>1, <1>4, <2>3 DEF Jobs
  <2>5. run' = run
    BY <1>4 DEF run
  <2> QED  BY <1>1, <1>4, <2>1, <2>4, <2>5, TrimSelf DEF HandMoves, Lessens
<1> QED  BY <1>2, <1>3, <1>4 DEF Decide, Goto

\* Recovering after a restart.
LEMMA RecoverHands ==
    ASSUME Inner, Outer, StageFacts,
           RecoverNothing \/ RecoverRootOff \/ RecoverNoTargets \/ RecoverRun
    PROVE  HandMoves
<1>0. /\ st \in Profile /\ job \in Jobs /\ st.run = run
      /\ (Active => LeaderOf(run, st.terminal))
  BY DEF Inner, StageFacts, run
<1>1. Rest \in Seq(Plain) /\ Unhurried
  <2>1. At("recover") /\ "recover" \notin Plain
    BY DEF RecoverNothing, RecoverRootOff, RecoverNoTargets, RecoverRun, Plain, FirstOnly
  <2>2. Special = {"recover"}
    BY <2>1, SpecialAt
  <2> QED  BY <2>1, <2>2, AtPlain DEF Unhurried
<1>2. CASE RecoverNothing
  BY <1>0, <1>1, <1>2, KeepHands, TrimSelf DEF RecoverNothing, Unhurried
<1>3. CASE RecoverRootOff
  BY <1>0, <1>1, <1>3, CancelHands, TrimSelf DEF RecoverRootOff, Unhurried
<1>4. CASE RecoverNoTargets
  <2>1. stack' = ReleaseOf(run) \o <<"abandoned">> \o Rest /\ run' = run /\ st' = st
    BY <1>4 DEF RecoverNoTargets, Goto, run
  <2>2. "abandoned" \in StageNames \ Plain
    BY DEF StageNames, Plain, NeedPrev
  <2>3. Special' = {"abandoned"} \cup (IF run.gen = 0 THEN {} ELSE {"release"})
    BY <1>1, <2>1, <2>2, SpecialRelease
  <2>4. Special' \subseteq {"abandoned", "release"}
    BY <2>3
  <2>5. job'.prev = run /\ Active
    BY <1>0, <1>4 DEF RecoverNoTargets, Jobs
  <2> QED  BY <1>0, <1>1, <2>1, <2>4, <2>5, TrimSelf DEF HandMoves, Lessens, Unhurried
<1>5. CASE RecoverRun
  <2> DEFINE less == ReleaseLeaves(run, GoneLeaves)
             kept == Watched(less, job.now)
             q == [kept EXCEPT !.pending = TRUE]
             p == [st EXCEPT !.run = q]
  <2>1. run \in Run /\ Active
    BY <1>5, ActiveRun DEF RecoverRun
  <2>2. less \in Run
    <3>1. GoneLeaves = {} \/ ~(run.targets \subseteq GoneLeaves)
      BY <1>5 DEF RecoverRun, NoTargetLeft
    <3> QED  BY <2>1, <3>1, ReleaseLeavesType
  <2>3. Trim(less, run) /\ LeaderOf(less, st.terminal)
    BY <1>0, <2>1, <2>2, TrimReleased
  <2> HIDE DEF less
  <2>4. SameRoom(kept, less)
    BY <2>2, TrimWatched
  <2>5. \/ BlockedRecovery(kept, Rest) \/ FailRecovery(kept, Rest)
        \/ NoCancel(p, <<"acquire", "recovered">> \o Rest)
    BY <1>5 DEF RecoverRun, less
  <2> HIDE DEF kept
  <2>6. Trim(kept, run) /\ LeaderOf(kept, st.terminal) /\ kept \in Run
    BY <2>3, <2>4, TrimSame DEF SameRoom
  <2>7. SameRoom(q, kept)
    BY <2>6 DEF SameRoom, SameLights, Run
  <2>8. Trim(q, run) /\ LeaderOf(q, st.terminal)
    BY <2>6, <2>7, TrimSame
  <2> HIDE DEF q
  <2>9. p.run = q /\ p.terminal = st.terminal
    BY <1>0 DEF Profile
  <2> HIDE DEF p
  <2>10. CASE BlockedRecovery(kept, Rest) \/ FailRecovery(kept, Rest)
    BY <1>1, <2>1, <2>6, <2>10, FailHands
  <2>11. CASE NoCancel(p, <<"acquire", "recovered">> \o Rest)
    <3>1. run' = q /\ st'.terminal = st.terminal
      BY <2>9, <2>11 DEF NoCancel, run
    <3>2. Special' = {"acquire", "recovered"}
      BY <1>1, <2>11, CallSpecial DEF NoCancel, Goto
    <3> QED  BY <1>1, <2>1, <2>8, <3>1, <3>2 DEF HandMoves, Lessens, Unhurried
  <2> QED  BY <2>5, <2>10, <2>11
<1> QED  BY <1>2, <1>3, <1>4, <1>5

\* Every stage that does not unload the coordinator.
LEMMA StageHands ==
    ASSUME Inner, Outer, StageFacts, SamePrev, Stages, ~Unloaded
    PROVE  HandMoves
BY EasyHands, RecoveryHands, JoinHands, CompleteHands, EndHands, AnswerHands, BeginHands,
   DecideHands, RecoverHands DEF Stages

-----------------------------------------------------------------------------
\* What is noted stays noted while nobody drains it.
LEMMA NotedKept == ASSUME observed' = observed PROVE StillNoted
BY DEF StillNoted

\* The queue that stays as it is, or that only grows, loses no off.
LEMMA OffsKept == ASSUME Queued \subseteq Queued' PROVE LeafOffs \subseteq LeafOffs'
BY DEF LeafOffs

\* The drain forgets only what it has dealt with.
LEMMA DrainNoted ==
    ASSUME Inner, Outer, StageFacts, Drain PROVE StillNoted
<1>0. HandMoves
  BY EasyHands
<1>1. stack \in Seq(Plain) /\ Rest \in Seq(Plain) /\ st \in Profile /\ clock \in Nat
  BY PlainUnhurried DEF Drain, PlainNames, Outer
<1> SUFFICES ASSUME Active, Active', "cancelled" \notin Special', NEW k \in run'.targets,
                    observed[k] = run.lease, lights[k] = 0
             PROVE  observed'[k] = run.lease
  BY DEF StillNoted
<1>2. run \in Run /\ run'.targets \subseteq run.targets
  <2>1. Trim(run', run)
    BY <1>0 DEF HandMoves, Lessens, Passes, Leaves, Ignites, Active, run
  <2> QED  BY <2>1, ActiveRun DEF Trim
<1>3. k \in Leaf /\ k \in run.targets
  BY <1>2 DEF Run
<1> DEFINE mine == {l \in Leaf : Active /\ observed[l] = run.lease /\ l \in run.targets}
<1>4. k \in mine
  BY <1>3
<1>5. PICK l \in mine :
         /\ observed' = [x \in Leaf |-> IF x \in mine \ {l} THEN observed[x] ELSE NoOcc]
         /\ IF lights[l] = 0 THEN ReleaseLeaf(l, stack) ELSE NoCancel(st, stack)
  BY <1>4 DEF Drain
<1>6. k # l
  <2> SUFFICES ASSUME k = l PROVE FALSE
    OBVIOUS
  <2>1. ReleaseLeaf(l, stack)
    BY <1>5
  <2>2. l \in run.targets
    BY <1>3
  <2>3. CASE \E revoked \in BOOLEAN : Cancel(st, TRUE, revoked, FALSE, stack)
    <3>1. st.run # NoRun
      BY DEF Active, run
    <3> QED  BY <1>1, <2>3, <3>1, CancelDoes
  <2>4. CASE /\ ReleaseLeaves(run, {l}) \in Run
             /\ st' = [st EXCEPT !.run = ReleaseLeaves(run, {l})]
    <3>1. run' = ReleaseLeaves(run, {l})
      BY <1>1, <2>4 DEF Profile, run
    <3>2. ReleaseLeaves(run, {l}).targets = run.targets \ {l}
      BY <1>2, <2>4, TrimReleased
    <3> QED  BY <3>1, <3>2
  <2> QED  BY <1>1, <2>1, <2>2, <2>3, <2>4, ReleaseLeafDoes
<1>7. k \in mine \ {l}
  BY <1>4, <1>6
<1> QED  BY <1>3, <1>5, <1>7

\* The stages touch no light.
LEMMA StageUnlit ==
    ASSUME Inner, Outer, StageFacts, SamePrev, Stages, ~Unloaded PROVE HandMoves /\ Unlit
<1>1. HandMoves
  BY StageHands
<1>2. Quiet
  BY DEF Stages, Reconcile, Drain, Pending, Reacquired, JoinDue, Merged,
     Complete, CompletedRun, Begin, Started, Dispatch, Decide, Finish, Cancelled,
     Updated, Failed, Ended, Fence, RecoverNothing, RecoverRootOff,
     RecoverNoTargets, RecoverRun, Recovered, Abandoned
<1>3. ~Drain => observed' = observed
  BY DEF Stages, Reconcile, Pending, Reacquired, JoinDue, Merged,
     Complete, CompletedRun, Begin, Started, Dispatch, Decide, Finish, Cancelled,
     Updated, Failed, Ended, Fence, RecoverNothing, RecoverRootOff,
     RecoverNoTargets, RecoverRun, Recovered, Abandoned
<1>4. StillNoted
  BY <1>3, DrainNoted, NotedKept
<1>5. lights' = lights /\ touch' = touch /\ queue' = queue
  BY <1>2 DEF Quiet, world
<1>6. LeafOffs' = LeafOffs
  BY <1>5 DEF LeafOffs, Queued
<1> QED  BY <1>1, <1>4, <1>5, <1>6 DEF Unlit, HandMoves

\* A call of PBL or of the light service that changes nothing of the run.
LEMMA ReturnHands ==
    ASSUME Inner, StageFacts, NEW a \in {"release", "safeOff"}, At(a), stack' = Rest,
           st' = st, job' = job
    PROVE  HandMoves
<1>1. a \notin Plain
  BY DEF Plain, NeedPrev
<1>2. /\ Special = {a} \cup Special' /\ a \notin Special'
      /\ \A x \in Special' : <<a, x>> \in Pairs
  BY <1>1, SpecialRest
<1>3. Special' \subseteq {"cancelled", "completed", "failed", "abandoned", "ended", "fence"}
  BY <1>2 DEF Pairs
<1>4. run' = run
  BY DEF run
<1> QED  BY <1>2, <1>3, <1>4, TrimSelf DEF HandMoves, Passes, StageFacts, Active, SameLights

\* A lease that is granted or refused.
LEMMA AcquireHands ==
    ASSUME Inner, Outer, CanInv, StageFacts, Granted \/ Refused PROVE HandMoves
<1>0. st \in Profile /\ job \in Jobs
  BY DEF Inner
<1>1. /\ run \in Run /\ Special = {"acquire"} \cup Special' /\ "acquire" \notin Special'
      /\ Special' \subseteq {"recovered", "reacquired", "merged", "started"}
  <2>1. At("acquire") /\ "acquire" \notin Plain /\ "acquire" \in NeedRun /\ stack' = Rest
    BY DEF Granted, Refused, NeedRun, Plain, Goto
  <2>2. \A x \in Special' : <<"acquire", x>> \in Pairs
    BY <2>1, SpecialRest
  <2> QED  BY <2>1, <2>2, SpecialRest, AtNeeds DEF Pairs
<1>2. Active /\ LeaderOf(run, st.terminal)
  BY <1>1, NoRunAssumption DEF Active, StageFacts
<1>3. job'.prev = job.prev /\ job'.off = job.off /\ job'.level = job.level
  BY <1>0 DEF Granted, Refused, Jobs
<1>4. CASE Granted
  <2>1. PICK g \in Nat, e \in Int : g > 0 /\ st' = [st EXCEPT !.run = MarkAcquired(run, g, e)]
    <3> DEFINE same == /\ pbl.status = "active"
                       /\ pbl.occs = run.occs /\ pbl.targets = run.targets
               ttl == IF run.exp = NoTime THEN TTL
                      ELSE Later(1, Sooner(TTL, run.exp - clock))
               g == IF same THEN pbl.gen ELSE pblGen + 1
               e == IF pbl.status = "none" THEN clock + ttl ELSE pbl.exp
    <3>1. g > 0 /\ g \in Nat
      <4>1. pblGen \in Nat /\ pbl.gen \in Nat
        BY DEF Outer, Leases
      <4> QED  BY <4>1 DEF CanInv
    <3>2. e \in Int
      <4>1. TTL \in Int /\ run.exp \in Int
        BY <1>1, CoordinatorAssumption DEF Run
      <4>2. clock \in Nat /\ pbl.exp \in Int
        BY DEF Outer, Leases
      <4>3. ttl \in Int
        BY <4>1, <4>2 DEF Later, Sooner
      <4> HIDE DEF ttl
      <4> QED  BY <4>2, <4>3
    <3>3. st' = [st EXCEPT !.run = MarkAcquired(run, g, e)]
      BY <1>4 DEF Granted
    <3> HIDE DEF g, e
    <3> QED  BY <3>1, <3>2, <3>3
  <2> DEFINE q == MarkAcquired(run, g, e)
  <2>2. q \in Run
    BY <1>1, MarkAcquiredType
  <2>3. /\ q.lease = run.lease /\ q.gen # 0 /\ q.occs = run.occs
        /\ q.targets = run.targets /\ q.owned = run.owned /\ q.released = run.released
    BY <1>1, <2>1 DEF MarkAcquired, Run
  <2> HIDE DEF q
  <2>4. run' = q /\ st'.terminal = st.terminal
    BY <1>0, <2>1 DEF Profile, run, q
  <2>5. Trim(q, run) /\ LeaderOf(q, st.terminal) /\ SameLights(q, run)
    BY <1>1, <1>2, <2>2, <2>3, NoRunAssumption DEF Trim, LeaderOf, SameLights, OwnedLights
  <2>6. Active'
    BY <2>2, <2>4, NoRunAssumption DEF Active, run
  <2>7. job'.ok
    BY <1>0, <1>4 DEF Granted, Jobs
  <2> QED  BY <1>1, <1>2, <1>3, <2>4, <2>5, <2>6, <2>7 DEF HandMoves, Passes
<1>5. CASE Refused
  <2>1. run' = run /\ st' = st
    BY <1>5 DEF Refused, run
  <2>2. "started" \in Special' => run.gen = 0
    BY <1>1 DEF StageFacts
  <2> QED  BY <1>1, <1>2, <1>3, <2>1, <2>2, TrimSelf DEF HandMoves, Passes, SameLights, Active
<1> QED  BY <1>4, <1>5

-----------------------------------------------------------------------------
\* The run as it is, with a next command that is put off.
LEMMA PutOffHands ==
    ASSUME Inner, StageFacts, Active, Special = {"send"}, NEW n \in Int,
           st' = [st EXCEPT !.run.next = n], Special' = {}
    PROVE  HandMoves
<1>0. st \in Profile /\ run \in Run
  BY ActiveRun DEF Inner
<1> DEFINE q == [run EXCEPT !.next = n]
<1>1. /\ q \in Run /\ q.lease = run.lease /\ q.gen = run.gen /\ q.occs = run.occs
      /\ q.targets = run.targets /\ q.owned = run.owned /\ q.released = run.released
  BY <1>0 DEF Run
<1>2. st' = [st EXCEPT !.run = q]
  BY <1>0 DEF Profile, run
<1> HIDE DEF q
<1>3. run' = q /\ st'.terminal = st.terminal
  BY <1>0, <1>2 DEF Profile, run
<1>4. Trim(q, run) /\ LeaderOf(q, st.terminal)
  BY <1>0, <1>1, NoRunAssumption DEF Trim, LeaderOf, OwnedLights, StageFacts
<1> QED  BY <1>3, <1>4 DEF HandMoves, Lessens

\* A command that waits for PBL's revoke event, or gives up.
LEMMA WaitHands ==
    ASSUME Inner, Outer, StageFacts, NEW b \in BOOLEAN, NotDispatched(b) PROVE HandMoves
<1>0. st \in Profile /\ job.now \in Int /\ revokeBy \in Int /\ st.run = run
  BY DEF Inner, Jobs, run
<1>1. Rest \in Seq(Plain) /\ run \in Run /\ Special = {"send"}
  <2>1. At("send") /\ "send" \notin Plain /\ "send" \in NeedRun
    BY DEF NotDispatched, NeedRun, Plain
  <2> QED  BY <2>1, AtPlain, AtNeeds, SpecialAt
<1>2. Active /\ LeaderOf(run, st.terminal)
  BY <1>1, NoRunAssumption DEF Active, StageFacts
<1>3. CASE Cancel(st, FALSE, b, FALSE, Rest)
  BY <1>0, <1>1, <1>2, <1>3, CancelHands, TrimSelf
<1>4. CASE \E n \in Int : st' = [st EXCEPT !.run.next = n] /\ stack' = Rest
  BY <1>1, <1>2, <1>4, PutOffHands, SpecialPlain
<1>5. \A by \in Int : Sooner(by, job.now + Step) \in Int
  BY <1>0, TimeAssumption DEF Sooner
<1>6. job.now + 2 * Step \in Int
  BY <1>0, TimeAssumption
<1> QED  BY <1>0, <1>3, <1>4, <1>5, <1>6 DEF NotDispatched, Goto

\* A group that has settled, and what is stored.
LEMMA SettledHands ==
    ASSUME Inner, Outer, StageFacts, Settling \/ Save \/ Persist PROVE HandMoves
<1>0. st \in Profile /\ st.run = run /\ (Active => LeaderOf(run, st.terminal))
  BY DEF Inner, StageFacts, run
<1>1. Rest \in Seq(Plain) /\ <<>> \in Seq(Plain) /\ Special \subseteq {"settling"}
      /\ (Save \/ Persist => Special = {})
  <2>1. PICK a \in {"settling", "save", "persist"} : At(a) /\ (Save \/ Persist => a # "settling")
    BY DEF Settling, Save, Persist
  <2> QED  BY <2>1, AtPlain, EmptySeq, SpecialAt DEF Plain, StageNames, NeedRun, NeedPrev, FirstOnly
<1>2. CASE Settling
  <2>1. CASE Cancel(st, TRUE, TRUE, FALSE, Rest)
    BY <1>0, <1>1, <2>1, CancelHands, TrimSelf
  <2>2. CASE ReleaseLeaf(job.leaf, Rest)
    BY <1>1, <2>2, LeafHands
  <2> QED  BY <1>2, <2>1, <2>2 DEF Settling
<1>3. CASE Save \/ Persist
  <2>1. run' = run /\ st' = st /\ stack' \in Seq(Plain)
    BY <1>1, <1>3 DEF Save, Persist, Goto, run
  <2>2. Special = {} /\ Special' = {}
    BY <1>1, <1>3, <2>1, SpecialPlain
  <2>3. CASE Active
    BY <1>0, <2>1, <2>2, <2>3, TrimSelf DEF HandMoves, Lessens
  <2>4. CASE ~Active
    BY <2>1, <2>2, <2>4 DEF HandMoves, Leaves, Active
  <2> QED  BY <2>3, <2>4
<1> QED  BY <1>2, <1>3

\* The answers that touch no light.
LEMMA AnswerUnlit ==
    ASSUME Inner, Outer, CanInv, StageFacts,
           \/ Granted \/ Refused \/ Released \/ NotReleased \/ NotSafeOff
           \/ NotDispatched(TRUE) \/ NotDispatched(FALSE)
           \/ Settling \/ Save \/ Persist
    PROVE  HandMoves /\ Unlit
<1>1. HandMoves
  <2>1. CASE Released \/ NotReleased \/ NotSafeOff
    <3>1. \E a \in {"release", "safeOff"} : At(a) /\ stack' = Rest /\ st' = st /\ job' = job
      BY <2>1 DEF Released, NotReleased, NotSafeOff, Goto
    <3> QED  BY <3>1, ReturnHands
  <2>2. ASSUME NEW b \in BOOLEAN, NotDispatched(b) PROVE HandMoves
    BY <2>2, WaitHands
  <2>3. CASE Settling \/ Save \/ Persist
    BY <2>3, SettledHands
  <2>4. CASE Granted \/ Refused
    BY <2>4, AcquireHands
  <2> QED  BY <2>1, <2>2, <2>3, <2>4
<1>2. lights' = lights /\ touch' = touch /\ queue' = queue /\ observed' = observed
  BY DEF Granted, Refused, Released, NotReleased, NotSafeOff, NotDispatched, Settling, Save,
     Persist, Calm, Quiet, world
<1>3. LeafOffs' = LeafOffs
  BY <1>2 DEF LeafOffs, Queued
<1> QED  BY <1>1, <1>2, <1>3, NotedKept DEF Unlit, HandMoves

\* Lights that the wake light turns off belong to a run that is over.
LEMMA SafeOffHands ==
    ASSUME Inner, Outer, StageFacts, LightFacts, SafeOff PROVE StageFacts' /\ LightFacts'
<1>1. At("safeOff") /\ stack' = Rest /\ st' = st /\ job' = job /\ touch' = touch
  BY DEF SafeOff, Goto
<1>2. HandMoves
  BY <1>1, ReturnHands
<1>3. StageFacts'
  BY <1>2, StageFactsKept DEF HandMoves
<1>4. "safeOff" \notin Plain /\ Special' \subseteq {"fence"} /\ "safeOff" \in Special
  <2>1. "safeOff" \notin Plain
    BY DEF Plain, NeedPrev
  <2>2. Special = {"safeOff"} \cup Special' /\ \A x \in Special' : <<"safeOff", x>> \in Pairs
    BY <1>1, <2>1, SpecialRest
  <2> QED  BY <2>1, <2>2 DEF Pairs
<1>5. ~Active /\ run' = run
  BY <1>1, <1>4 DEF StageFacts, run
<1> QED  BY <1>1, <1>3, <1>4, <1>5 DEF LightFacts, TouchedInRun, OwnTargets, OffNoticed, OwnedLit,
            CutLit, PrevLit, Active

\* The lights of the run that come on.
LEMMA LitTouch ==
    ASSUME Outer, NEW T \in SUBSET Leaf, job.level > 0, Light(T)
    PROVE  /\ \A l \in T : Lit(l)' /\ touch'[l].by = "wake"
           /\ \A l \in Leaf : touch'[l].by = "user" => touch'[l] = touch[l]
BY DEF Light, Lit

\* A call that fails, whether or not the lights came on.
LEMMA FailedHands ==
    ASSUME Inner, Outer, StageFacts, LightFacts, DispatchFailed
    PROVE  StageFacts' /\ LightFacts'
<1>0. st \in Profile /\ st.run = run /\ job \in Jobs /\ clock \in Nat
  BY DEF Inner, Outer, run
<1>1. Rest \in Seq(Plain) /\ run \in Run /\ Special = {"send"}
  <2>1. At("send") /\ "send" \notin Plain /\ "send" \in NeedRun
    BY DEF DispatchFailed, NeedRun, Plain
  <2> QED  BY <2>1, AtPlain, AtNeeds, SpecialAt
<1>2. Active /\ LeaderOf(run, st.terminal) /\ job.level > 0 /\ run.targets \in SUBSET Leaf
  BY <1>1, NoRunAssumption DEF Active, StageFacts, Run
<1>3. Cancel(st, FALSE, FALSE, FALSE, Rest)
  BY DEF DispatchFailed
<1>4. /\ run' = run /\ st'.terminal = st.terminal /\ ~job'.off /\ "cancelled" \in Special'
      /\ Special' \subseteq {"release", "cancelled"}
  <2>1. st.run # NoRun
    BY <1>0, <1>2 DEF Active
  <2> QED  BY <1>0, <1>1, <1>3, <2>1, CancelDoes DEF run
<1>5. StageFacts'
  <2>1. HandMoves
    BY <1>0, <1>1, <1>2, <1>3, CancelHands, TrimSelf
  <2> QED  BY <2>1, StageFactsKept DEF HandMoves
<1>6. \A l \in Leaf : touch'[l].by = "user" => touch'[l] = touch[l]
  BY <1>2, LitTouch DEF DispatchFailed
<1>7. TouchedInRun' /\ OwnTargets'
  BY <1>4, <1>6 DEF LightFacts, TouchedInRun, OwnTargets, Active, run
<1>8. OffNoticed' /\ OwnedLit' /\ CutLit' /\ PrevLit'
  BY <1>4 DEF OffNoticed, OwnedLit, CutLit, PrevLit
<1> QED  BY <1>5, <1>7, <1>8 DEF LightFacts

\* A command that is executed: the leaves that PBL left out are let go.
LEMMA DispatchedHands ==
    ASSUME Inner, Outer, StageFacts, LightFacts, NEW T \in SUBSET Leaf, Dispatched(T)
    PROVE  StageFacts' /\ LightFacts'
<1>0. st \in Profile /\ st.run = run /\ job \in Jobs /\ clock \in Nat
  BY DEF Inner, Outer, run
<1>1. Rest \in Seq(Plain) /\ run \in Run /\ Special = {"send"}
  <2>1. At("send") /\ "send" \notin Plain /\ "send" \in NeedRun
    BY DEF Dispatched, NeedRun, Plain
  <2> QED  BY <2>1, AtPlain, AtNeeds, SpecialAt
<1>2. Active /\ LeaderOf(run, st.terminal) /\ job.level > 0 /\ T \subseteq run.targets
  BY <1>1, NoRunAssumption DEF Active, StageFacts, Dispatched
<1>3. /\ \A l \in T : Lit(l)' /\ touch'[l].by = "wake"
      /\ \A l \in Leaf : touch'[l].by = "user" => touch'[l] = touch[l]
  BY <1>2, LitTouch DEF Dispatched
<1>4. CASE T = {}
  <2>1. Cancel(st, FALSE, FALSE, FALSE, Rest)
    BY <1>4 DEF Dispatched
  <2>2. /\ run' = run /\ st'.terminal = st.terminal /\ ~job'.off /\ "cancelled" \in Special'
        /\ Special' \subseteq {"release", "cancelled"}
    <3>1. st.run # NoRun
      BY <1>0, <1>2 DEF Active
    <3> QED  BY <1>0, <1>1, <2>1, <3>1, CancelDoes DEF run
  <2>3. StageFacts'
    <3>1. HandMoves
      BY <1>0, <1>1, <1>2, <2>1, CancelHands, TrimSelf
    <3> QED  BY <3>1, StageFactsKept DEF HandMoves
  <2>4. TouchedInRun' /\ OwnTargets'
    BY <1>3, <2>2 DEF LightFacts, TouchedInRun, OwnTargets, Active, run
  <2>5. OffNoticed' /\ OwnedLit' /\ CutLit' /\ PrevLit'
    BY <2>2 DEF OffNoticed, OwnedLit, CutLit, PrevLit
  <2> QED  BY <2>3, <2>4, <2>5 DEF LightFacts
<1>5. CASE T # {}
  <2> DEFINE less == ReleaseLeaves(run, run.targets \ T)
             r == MarkDispatched(less, job.now, job.level, T, job.force)
             q == [r EXCEPT !.next = NextDeadline(r, job.now)]
  <2>1. job.now \in Int /\ job.level \in 0 .. Full /\ job.force \in BOOLEAN
    BY <1>0 DEF Jobs
  <2>2. less \in Run
    <3>1. ~(run.targets \subseteq run.targets \ T)
      BY <1>2, <1>5
    <3> QED  BY <1>1, <3>1, ReleaseLeavesType
  <2>3. /\ less.lease = run.lease /\ less.gen = run.gen /\ less.occs = run.occs
        /\ less.targets = T /\ (run.owned \subseteq run.targets => less.owned \subseteq T)
    <3>1. PICK gone : gone = run.targets \ T
      OBVIOUS
    <3>2. less = ReleaseLeaves(run, gone) /\ run.targets \ gone = T
      BY <1>2, <3>1
    <3> HIDE DEF less
    <3>3. less.lease = run.lease /\ less.gen = run.gen /\ less.occs = run.occs
      <4> DEFINE kept == ReleaseLeaves(run, gone)
      <4>1. kept \in Run
        BY <2>2, <3>2
      <4>2. kept.lease = run.lease /\ kept.gen = run.gen /\ kept.occs = run.occs
        BY <1>1, <4>1, ReleaseLeavesKeeps
      <4> HIDE DEF kept
      <4> QED  BY <3>2, <4>2 DEF kept
    <3>4. less.targets = T /\ (run.owned \subseteq run.targets => less.owned \subseteq T)
      <4>1. less.targets = run.targets \ gone /\ Trim(less, run)
        BY <1>1, <2>2, <3>2, TrimReleased
      <4>2. less = run \/ (run.owned \subseteq run.targets => less.owned \subseteq less.targets)
        BY <4>1 DEF Trim
      <4> QED  BY <3>2, <4>1, <4>2
    <3> QED  BY <3>3, <3>4
  <2>4. st' = [st EXCEPT !.run = q] /\ stack' = Rest
    BY <1>5 DEF Dispatched, Goto
  <2> HIDE DEF less
  <2>5. /\ r \in Run /\ r.lease = less.lease /\ r.gen = less.gen /\ r.occs = less.occs
        /\ r.targets = less.targets /\ r.owned = less.owned \cup T
    <3>1. r \in Run
      BY <2>1, <2>2, MarkDispatchedType
    <3>2. /\ r.lease = less.lease /\ r.gen = less.gen /\ r.occs = less.occs
          /\ r.targets = less.targets /\ r.owned = less.owned \cup T
      BY <2>2 DEF MarkDispatched, Run
    <3> QED  BY <3>1, <3>2
  <2> HIDE DEF r
  <2>6. /\ q \in Run /\ q.lease = r.lease /\ q.gen = r.gen /\ q.occs = r.occs
        /\ q.targets = r.targets /\ q.owned = r.owned
    <3>1. NextDeadline(r, job.now) \in Int
      BY <2>1, <2>5, NextDeadlineType
    <3> QED  BY <2>5, <3>1 DEF Run
  <2> HIDE DEF q
  <2>7. run' = q /\ st'.terminal = st.terminal /\ Special' = {}
    BY <1>0, <1>1, <2>4, SpecialPlain DEF Profile, run
  <2>8. /\ run' # NoRun /\ run'.lease = run.lease /\ run'.gen = run.gen /\ run'.occs = run.occs
        /\ run'.targets = T /\ run'.owned \subseteq T
    BY <2>3, <2>5, <2>6, <2>7, <1>2, NoRunAssumption DEF LightFacts, OwnTargets
  <2>9. StageFacts'
    BY <1>2, <2>7, <2>8 DEF StageFacts, LeaderOf, run
  <2>10. TouchedInRun' /\ OwnTargets'
    BY <1>2, <1>3, <2>7, <2>8 DEF LightFacts, TouchedInRun, OwnTargets, Active, run
  <2>11. OffNoticed'
    BY <1>3, <2>8 DEF OffNoticed, TurnedOff, run
  <2>12. OwnedLit'
    BY <1>3, <2>8 DEF OwnedLit, OwnedLights, run
  <2>13. CutLit' /\ PrevLit'
    BY <2>7 DEF CutLit, PrevLit
  <2> QED  BY <2>9, <2>10, <2>11, <2>12, <2>13 DEF LightFacts
<1> QED  BY <1>4, <1>5

\* Every answer.
LEMMA AnswersHandKept ==
    ASSUME Inner, Outer, CanInv, StageFacts, LightFacts, Answers PROVE StageFacts' /\ LightFacts'
<1>1. CASE \/ Granted \/ Refused \/ Released \/ NotReleased \/ NotSafeOff
           \/ NotDispatched(TRUE) \/ NotDispatched(FALSE)
           \/ Settling \/ Save \/ Persist
  BY <1>1, AnswerUnlit, StageFactsKept, LightFactsKept DEF HandMoves
<1> QED  BY <1>1, SafeOffHands, FailedHands, DispatchedHands DEF Answers

-----------------------------------------------------------------------------
\* A handler that goes on with the run as it is, or with what is left of it.
LEMMA BeginHandsOn ==
    ASSUME Inner, StageFacts, Special = {}, st.terminal \subseteq st'.terminal,
           Trim(run', run), Active => LeaderOf(run', st'.terminal),
           Special' \subseteq {"recover", "settling", "acquire"}
    PROVE  HandMoves
<1>1. CASE Active
  BY <1>1 DEF HandMoves, Lessens
<1>2. CASE ~Active
  <2>1. run' = NoRun
    BY <1>2, NoRunAssumption DEF Active, Trim
  <2> QED  BY <1>2, <2>1 DEF HandMoves, Leaves
<1> QED  BY <1>1, <1>2

\* One that cancels it.
LEMMA CancelOnHands ==
    ASSUME Inner, Outer, StageFacts, Special = {}, NEW user \in BOOLEAN,
           NEW revoked \in BOOLEAN, NEW off \in BOOLEAN, NEW rest \in Seq(Plain),
           CancelOn(user, revoked, off, rest)
    PROVE  HandMoves
<1>1. run' = run /\ st'.terminal = st.terminal
  BY CancelOnDoes
<1>2. CASE Active
  <2>1. Special' \subseteq {"release", "cancelled"}
    BY <1>2, CancelOnDoes
  <2> QED  BY <1>1, <1>2, <2>1, TrimSelf DEF HandMoves, Lessens, StageFacts
<1>3. CASE ~Active
  <2>1. Special' = {}
    BY <1>3, CancelOnDoes
  <2> QED  BY <1>1, <1>3, <2>1, TrimSelf, BeginHandsOn
<1> QED  BY <1>2, <1>3

\* Starting and the handlers that only reconcile.
LEMMA PlainHandlersHands ==
    ASSUME Inner, Outer, StageFacts, Special = {},
           OnStart \/ OnTimer \/ OnPoke \/ OnLeafOff \/ OnStop
    PROVE  HandMoves
<1>0. /\ st \in Profile /\ st.run = run /\ (Active => LeaderOf(run, st.terminal))
  BY DEF Inner, StageFacts, run
<1>1. clock \in Int
  BY DEF Outer
<1>2. CASE OnStart
  <2>1. CASE stopping
    <3>1. st' = st /\ stack' = stack
      BY <1>2, <2>1 DEF OnStart
    <3> QED  BY <1>0, <3>1, TrimSelf, BeginHandsOn DEF Special, StagesOf, run
  <2>2. CASE ~stopping
    <3>1. stack' = <<"recover", "reconcile">> /\ st' = Refreshed(st, clock)
      BY <1>2, <2>2 DEF OnStart, Begins, Goto
    <3>2. Special' = {"recover"}
      <4>1. <<"recover", "reconcile">> = <<"recover">> \o <<"reconcile">>
        BY Joined
      <4>2. "recover" \in StageNames \ Plain
        BY DEF StageNames, Plain, FirstOnly
      <4> QED  BY <3>1, <4>1, <4>2, FirstStages, SpecialOne
    <3>3. st.terminal \subseteq st'.terminal /\ run' = run
      BY <1>0, <1>1, <3>1, RefreshedGrows DEF run
    <3> QED  BY <1>0, <3>2, <3>3, TrimSelf, BeginHandsOn DEF LeaderOf
  <2> QED  BY <2>1, <2>2
<1>3. CASE OnTimer \/ OnStop \/ (OnLeafOff /\ ThenReconcile)
  <2>1. run' = run /\ st' = st
    BY <1>3 DEF OnTimer, OnStop, OnLeafOff, run
  <2>2. \E j : Begins(j, <<"reconcile">>) \/ Begins(j, <<"persist">>)
    BY <1>3 DEF OnTimer, OnStop, ThenReconcile
  <2>3. Special' = {}
    BY <2>2, FirstStages, SpecialPlain DEF Begins, Goto
  <2> QED  BY <1>0, <2>1, <2>3, TrimSelf, BeginHandsOn
<1>4. CASE OnPoke
  <2>1. Special' = {}
    BY <1>4, FirstStages, SpecialPlain DEF OnPoke, ThenReconcile, Begins, Goto
  <2>2. CASE Active /\ Event.user
    <3> DEFINE q == Watched(run, clock)
    <3>1. SameRoom(q, run)
      BY <2>2, ActiveRun, TrimWatched
    <3> HIDE DEF q
    <3>2. st' = [st EXCEPT !.run = q]
      BY <1>4, <2>2 DEF OnPoke, q
    <3>3. run' = q /\ st'.terminal = st.terminal
      BY <1>0, <3>2 DEF Profile, run
    <3>4. Trim(q, run) /\ LeaderOf(q, st.terminal)
      BY <1>0, <2>2, <3>1, TrimSelf, TrimSame
    <3> QED  BY <2>1, <3>3, <3>4, BeginHandsOn
  <2>3. CASE ~(Active /\ Event.user)
    <3>1. st' = st
      BY <1>4, <2>3 DEF OnPoke
    <3> QED  BY <1>0, <2>1, <3>1, TrimSelf, BeginHandsOn DEF run
  <2> QED  BY <2>2, <2>3
<1>5. CASE OnLeafOff /\ ~ThenReconcile
  <2>1. st' = st /\ stack' = <<"settling", "reconcile">>
    BY <1>5 DEF OnLeafOff, Begins, Goto
  <2>2. Special' = {"settling"}
    <3>1. <<"settling", "reconcile">> = <<"settling">> \o <<"reconcile">>
      BY Joined
    <3>2. "settling" \in StageNames \ Plain
      BY DEF StageNames, Plain, FirstOnly
    <3> QED  BY <2>1, <3>1, <3>2, FirstStages, SpecialOne
  <2> QED  BY <1>0, <2>1, <2>2, TrimSelf, BeginHandsOn DEF run
<1> QED  BY <1>2, <1>3, <1>4, <1>5

\* The handlers of what forbids the run.
LEMMA CancelHandlersHands ==
    ASSUME Inner, Outer, StageFacts, Special = {}, OnRootOff \/ OnRevoke \/ OnVacation \/ OnHazard
    PROVE  HandMoves
<1>1. Event.user \in BOOLEAN
  <2>1. Event \in Tasks
    BY TakeType DEF OnRootOff, OnRevoke, OnVacation, OnHazard
  <2> QED  BY <2>1 DEF Tasks
<1>2. CASE \E u, v, w \in BOOLEAN, s \in Seq(Plain) : CancelOn(u, v, w, s)
  BY <1>2, CancelOnHands
<1>3. CASE st' = st /\ Special' = {}
  BY <1>3, TrimSelf, BeginHandsOn DEF StageFacts, run
<1>4. OnRevoke => \/ CancelOn(Event.user, TRUE, FALSE, <<"finish">>)
                  \/ st' = st /\ stack' = stack
  BY DEF OnRevoke
<1>5. /\ OnRootOff => CancelOn(TRUE, TRUE, FALSE, <<"reconcile">>)
      /\ OnVacation => CancelOn(FALSE, FALSE, Event.user, <<"reconcile">>)
      /\ OnHazard => \/ CancelOn(FALSE, FALSE, FALSE, <<"reconcile">>)
                     \/ st' = st /\ stack' = <<"reconcile">>
  BY DEF OnRootOff, OnVacation, OnHazard, ThenReconcile, Begins, Goto
<1>6. stack' = stack \/ stack' = <<"reconcile">> => Special' = {}
  BY FirstStages, SpecialPlain DEF Special, StagesOf
<1> QED  BY <1>1, <1>2, <1>3, <1>4, <1>5, <1>6, FirstStages

\* end_episode and the unloading of the config entry.
LEMMA EndHandlersHands ==
    ASSUME Inner, Outer, StageFacts, Special = {}, OnEnd \/ OnUnload PROVE HandMoves
<1>0. st \in Profile /\ clock \in Int /\ (Active => LeaderOf(run, st.terminal))
  BY DEF Inner, Outer, StageFacts
<1>1. CASE OnEnd /\ Active
  <2>1. /\ st' = [st EXCEPT !.run = NoRun, !.terminal = @ \cup run.occs,
                            !.alarms = @ \ FiredAlarms(run)]
        /\ stack' = ReleaseOf(run) \o <<"ended", "reconcile">>
        /\ job' = [Now(clock) EXCEPT !.prev = run]
    BY <1>1 DEF OnEnd, Begins, Goto
  <2>2. run' = NoRun /\ st'.terminal = st.terminal \cup run.occs
    BY <1>0, <2>1 DEF Profile, run
  <2>3. stack' = ReleaseOf(run) \o <<"ended">> \o <<"reconcile">>
    <3>1. /\ <<"ended", "reconcile">> = <<"ended">> \o <<"reconcile">>
          /\ ReleaseOf(run) \in Seq(StageNames) /\ <<"ended">> \in Seq(StageNames)
          /\ <<"reconcile">> \in Seq(StageNames)
      BY Joined DEF ReleaseOf, StageNames
    <3> QED  BY <2>1, <3>1, ConcatAssociative
  <2>4. Special' \subseteq {"ended", "release"}
    <3>1. "ended" \in StageNames \ Plain
      BY DEF StageNames, Plain, NeedPrev
    <3>2. Special' = {"ended"} \cup (IF run.gen = 0 THEN {} ELSE {"release"})
      BY <2>3, <3>1, FirstStages, SpecialRelease
    <3> QED  BY <3>2
  <2>5. job'.prev = run
    BY <2>1 DEF Now, NoJob
  <2>6. run.lease \in st'.terminal
    BY <1>0, <1>1, <2>2 DEF LeaderOf
  <2> QED  BY <1>1, <2>2, <2>4, <2>5, <2>6 DEF HandMoves, Leaves
<1>2. CASE OnUnload /\ Active /\ ~stopping
  <2>1. /\ stack' = ReleaseOf(run) \o <<"abandoned", "persist", "unloaded">>
        /\ st' = st /\ job' = [Now(clock) EXCEPT !.prev = run]
    BY <1>2 DEF OnUnload, Begins, Goto
  <2>2. stack' = ReleaseOf(run) \o <<"abandoned">> \o <<"persist", "unloaded">>
    <3>1. ReleaseOf(run) \in Seq(StageNames)
      <4>1. ReleaseOf(run) = <<>> \/ ReleaseOf(run) = <<"release">>
        BY DEF ReleaseOf
      <4>2. <<>> \in Seq(StageNames) /\ <<"release">> \in Seq(StageNames)
        BY DEF StageNames
      <4> QED  BY <4>1, <4>2
    <3>2. <<"abandoned">> \in Seq(StageNames) /\ <<"persist", "unloaded">> \in Seq(StageNames)
      BY DEF StageNames
    <3> QED  BY <2>1, <3>1, <3>2, ThreeJoined, ConcatAssociative
  <2>3. Special' \subseteq {"abandoned", "release"}
    <3>1. "abandoned" \in StageNames \ Plain
      BY DEF StageNames, Plain, NeedPrev
    <3>2. Special' = {"abandoned"} \cup (IF run.gen = 0 THEN {} ELSE {"release"})
      BY <2>2, <3>1, FirstStages, SpecialRelease
    <3> QED  BY <3>2
  <2>4. job'.prev = run /\ run' = run
    BY <2>1 DEF Now, NoJob, run
  <2> QED  BY <1>0, <1>2, <2>1, <2>3, <2>4, TrimSelf DEF HandMoves, Lessens
<1>3. CASE \E s \in Seq(Plain) : Begins(Now(clock), s) /\ st' = st
  <2>1. Special' = {} /\ run' = run
    BY <1>3, SpecialPlain DEF Begins, Goto, run
  <2> QED  BY <1>0, <1>3, <2>1, TrimSelf, BeginHandsOn
<1> QED  BY <1>1, <1>2, <1>3, FirstStages DEF OnEnd, OnUnload, ThenReconcile

\* dismiss, upsert_alarm and delete_alarm.
LEMMA AlarmHandlersHands ==
    ASSUME Inner, Outer, StageFacts, Special = {}, OnDismiss \/ OnAdd \/ OnDelete PROVE HandMoves
<1>0. st \in Profile /\ (Active => LeaderOf(run, st.terminal))
  BY DEF Inner, StageFacts
<1>1. CASE OnDelete \/ OnAdd \/ (OnDismiss /\ ~(Active /\ Event.occ \in run.occs))
  <2>1. /\ Begins(Now(clock), <<"reconcile">>) /\ run' = run /\ st'.terminal = st.terminal
    BY <1>0, <1>1 DEF OnDelete, OnAdd, OnDismiss, ThenReconcile, Profile, run
  <2>2. Special' = {}
    BY <2>1, FirstStages, SpecialPlain DEF Begins, Goto
  <2> QED  BY <1>0, <2>1, <2>2, TrimSelf, BeginHandsOn
<1>2. CASE OnDismiss /\ Active /\ Event.occ \in run.occs
  <2> DEFINE r == Without(run, {Event.occ})
  <2>1. run \in Run /\ r \in Run \cup {NoRun}
    BY <1>2, ActiveRun, WithoutType
  <2>2. r # NoRun => r.lease = run.lease /\ r.gen = run.gen /\ SameLights(run, r)
                     /\ r.occs = run.occs \ {Event.occ}
    BY <2>1 DEF Without, Run, SameLights
  <2>3. r = NoRun => run.occs \subseteq {Event.occ}
    <3>1. CASE ~(run.occs \subseteq {Event.occ})
      <4>1. r \in Run
        BY <2>1, <3>1, WithoutType
      <4> QED  BY <4>1, NoRunAssumption
    <3> QED  BY <3>1
  <2>4. /\ st' = [st EXCEPT !.run = r, !.terminal = @ \cup {Event.occ},
                            !.alarms = @ \ (FiredAlarms(run) \cap {Event.occ})]
        /\ stack' = (IF r = NoRun THEN ReleaseOf(run)
                     ELSE <<"acquire", "updated">>) \o <<"reconcile">>
    BY <1>2 DEF OnDismiss, Begins, Goto
  <2> HIDE DEF r
  <2>5. run' = r /\ st'.terminal = st.terminal \cup {Event.occ}
    BY <1>0, <2>4 DEF Profile, run
  <2>6. <<>> \o <<"reconcile">> = <<"reconcile">>
    BY Joined
  <2>7. CASE r = NoRun
    <3>1. stack' = <<"reconcile">> \/ stack' = <<"release">> \o <<"reconcile">>
      BY <2>4, <2>6, <2>7 DEF ReleaseOf
    <3>2. Special' \subseteq {"release"}
      BY <3>1, FirstStages, SpecialPlain, SpecialOne DEF StageNames
    <3>3. run.lease \in st'.terminal
      BY <1>0, <1>2, <2>3, <2>5, <2>7 DEF LeaderOf
    <3> QED  BY <2>5, <2>7, <3>2, <3>3 DEF HandMoves, Leaves
  <2>8. CASE r # NoRun
    <3>1. stack' = <<"acquire", "updated">> \o <<"reconcile">>
      BY <2>4, <2>8
    <3>2. Special' = {"acquire", "updated"} \ Plain
      BY <3>1, FirstStages, SpecialCall DEF StageNames
    <3>3. "updated" \in Plain
      BY DEF Plain, StageNames, NeedRun, NeedPrev, FirstOnly
    <3>4. Trim(r, run)
      BY <2>1, <2>2, <2>8 DEF Trim, SameLights, OwnedLights
    <3>5. LeaderOf(r, st'.terminal)
      BY <1>0, <1>2, <2>2, <2>5, <2>8 DEF LeaderOf
    <3>6. Special' \subseteq {"acquire"}
      BY <3>2, <3>3
    <3> QED  BY <2>5, <3>4, <3>5, <3>6, BeginHandsOn
  <2> QED  BY <2>7, <2>8
<1> QED  BY <1>1, <1>2

\* The event of an off that concerns the run is being handled from here on.
LEMMA LeafOffHeard ==
    ASSUME Inner, Outer, StageFacts, LightFacts, Special = {}, OnLeafOff,
           Queued \subseteq Queued' \cup {Event}
    PROVE  StageFacts' /\ LightFacts'
<1>1. HandMoves
  BY PlainHandlersHands
<1>2. StageFacts'
  BY <1>1, StageFactsKept DEF HandMoves
<1>3. /\ st' = st /\ run' = run /\ lights' = lights /\ touch' = touch /\ observed' = observed
      /\ \A t \in LeafOffs : t \in LeafOffs' \/ t = Event
  BY DEF OnLeafOff, Take, world, run, LeafOffs
<1>4. CASE Active /\ Event.occ = run.lease /\ Event.leaf \in run.targets
  <2>1. /\ stack' = <<"settling", "reconcile">>
        /\ job' = [Now(clock) EXCEPT !.leaf = Event.leaf]
    BY <1>4 DEF OnLeafOff, Begins, Goto
  <2>2. Special' = {"settling"}
    <3>1. <<"settling", "reconcile">> = <<"settling">> \o <<"reconcile">>
      BY Joined
    <3>2. "settling" \in StageNames \ Plain
      BY DEF StageNames, Plain, FirstOnly
    <3> QED  BY <2>1, <3>1, <3>2, FirstStages, SpecialOne
  <2>3. job'.leaf = Event.leaf
    BY <2>1 DEF Now, NoJob
  <2>4. \A l : Heard(l) => Heard(l)'
    BY <1>3, <2>2, <2>3 DEF Heard, run
  <2> QED  BY <1>2, <1>3, <2>2, <2>4 DEF LightFacts, TouchedInRun, OwnTargets, OffNoticed,
              OwnedLit, CutLit, PrevLit, TurnedOff, Lit, Active, run
<1>5. CASE ~(Active /\ Event.occ = run.lease /\ Event.leaf \in run.targets)
  <2>1. Special' = {}
    <3>1. stack' = <<"reconcile">>
      BY <1>5 DEF OnLeafOff, ThenReconcile, Begins, Goto
    <3> QED  BY <3>1, FirstStages, SpecialPlain
  <2>2. Active => \A l \in run.targets : Heard(l) => Heard(l)'
    BY <1>3, <1>5 DEF Heard, run
  <2>3. Active => OwnedLights(run) \subseteq run.targets
    BY DEF LightFacts, OwnTargets, OwnedLights
  <2> QED  BY <1>2, <1>3, <2>1, <2>2, <2>3 DEF LightFacts, TouchedInRun, OwnTargets, OffNoticed,
              OwnedLit, CutLit, PrevLit, TurnedOff, Lit, Active, run
<1> QED  BY <1>4, <1>5

\* Every handler.
LEMMA HandlersHandKept ==
    ASSUME Inner, Outer, StageFacts, LightFacts, Handlers PROVE StageFacts' /\ LightFacts'
<1>1. \E kind : Take(kind)
  BY DEF Handlers, OnStart, OnTimer, OnPoke, OnLeafOff, OnRootOff, OnRevoke,
     OnVacation, OnHazard, OnEnd, OnDismiss, OnAdd, OnDelete, OnStop, OnUnload
<1>2. Special = {}
  BY <1>1, StagesOfOne, FirstStages DEF Take, Special, StagesOf
<1>3. /\ Queued \subseteq Queued' \cup {Event} /\ lights' = lights /\ touch' = touch
      /\ observed' = observed
  BY <1>1, QueuedTail DEF Take, world
<1>4. CASE OnLeafOff
  BY <1>2, <1>3, <1>4, LeafOffHeard
<1>5. CASE ~OnLeafOff
  <2>1. HandMoves
    BY <1>2, <1>5, PlainHandlersHands, CancelHandlersHands, EndHandlersHands, AlarmHandlersHands
       DEF Handlers
  <2>2. Event.kind # "leafOff"
    BY <1>5 DEF Handlers, OnStart, OnTimer, OnPoke, OnRootOff, OnRevoke,
       OnVacation, OnHazard, OnEnd, OnDismiss, OnAdd, OnDelete, OnStop, OnUnload, Take, Event
  <2>3. LeafOffs \subseteq LeafOffs'
    BY <1>3, <2>2 DEF LeafOffs
  <2>4. Unlit
    BY <1>3, <2>1, <2>3, NotedKept DEF Unlit, HandMoves
  <2> QED  BY <2>1, <2>4, StageFactsKept, LightFactsKept DEF HandMoves
<1> QED  BY <1>4, <1>5

-----------------------------------------------------------------------------
(***************************************************************************)
(* What happens around the handler at work.                                *)
(***************************************************************************)
\* What is posted before the events of the root light waits too.
LEMMA LightsPosted ==
    ASSUME Inner, Outer, Listening, NEW now, NEW t \in Tasks, LightsBecome(now, <<t>>)
    PROVE  t \in Queued' /\ Queued \subseteq Queued'
<1> DEFINE drop == RootOn(lights) /\ ~RootOn(now)
           gone == drop /\ pbl.status = "active"
           lease == IF Active THEN run.lease ELSE NoOcc
           root == [Task("rootOff") EXCEPT !.occ = lease]
           revoke == [Task("revoke") EXCEPT !.gen = pbl.gen, !.user = TRUE]
           a == IF drop THEN <<root>> ELSE <<>>
           b == IF gone THEN <<revoke>> ELSE <<>>
<1>1. root \in Tasks
  <2>1. lease \in Occ \cup {NoOcc}
    BY ActiveRun DEF Run
  <2> HIDE DEF lease
  <2>2. "rootOff" \in Kinds
    BY DEF Kinds
  <2> QED  BY <2>1, <2>2, OccTaskType
<1>2. revoke \in Tasks
  <2>1. pbl.gen \in Nat
    BY DEF Outer, Leases
  <2> QED  BY <2>1, EnvTasks
<1>3. Post(<<t>> \o a \o b)
  BY DEF LightsBecome
<1> HIDE DEF root, revoke, gone, drop
<1>4. a \in Seq(Tasks) /\ b \in Seq(Tasks) /\ <<t>> \in Seq(Tasks) /\ Len(<<t>>) = 1 /\ <<t>>[1] = t
  BY <1>1, <1>2
<1> HIDE DEF a, b
<1> DEFINE c == a \o b
           s == <<t>> \o c
<1>5. c \in Seq(Tasks) /\ <<t>> \o a \o b = s
  BY <1>4, ConcatProperties, ConcatAssociative
<1> HIDE DEF c
<1>6. s \in Seq(Tasks) /\ Len(s) = 1 + Len(c) /\ Len(c) \in Nat /\ s[1] = t
  BY <1>4, <1>5, ConcatProperties, LenProperties
<1>7. Post(s)
  BY <1>3, <1>5
<1> HIDE DEF s
<1>8. /\ Queued \subseteq Queued' /\ \A i \in 1 .. Len(s) : s[i] \in Queued'
  BY <1>6, <1>7, QueuedPost
<1>9. 1 \in 1 .. Len(s)
  BY <1>6
<1> QED  BY <1>6, <1>8, <1>9

\* Around the handler its stages and the run stay as they are.
LEMMA StillSame ==
    ASSUME Still PROVE run' = run /\ st' = st /\ job' = job /\ stack' = stack /\ Special' = Special
BY DEF Still, run, Special, StagesOf

\* What leaves the lights alone.
LEMMA StillHands ==
    ASSUME StageFacts, LightFacts, Still, lights' = lights, touch' = touch,
           observed' = observed, Queued \subseteq Queued'
    PROVE  StageFacts' /\ LightFacts'
<1>1. run' = run /\ st' = st /\ job' = job /\ Special' = Special
  BY StillSame
<1>2. /\ \A l : Heard(l) => Heard(l)'
      /\ \A l : Coming(l) => Coming(l)'
      /\ \A l : Lit(l)' = Lit(l)
      /\ \A l : TurnedOff(l)' = TurnedOff(l)
  BY <1>1 DEF Heard, Coming, Lit, LeafOffs, TurnedOff, run
<1>3. StageFacts'
  BY <1>1 DEF StageFacts, Active
<1>4. TouchedInRun' /\ OwnTargets'
  BY <1>1 DEF LightFacts, TouchedInRun, OwnTargets, Active
<1>5. OffNoticed' /\ OwnedLit'
  BY <1>1, <1>2 DEF LightFacts, OffNoticed, OwnedLit, Active
<1>6. CutLit' /\ PrevLit'
  BY <1>1, <1>2 DEF LightFacts, CutLit, PrevLit, Accounted, Active
<1> QED  BY <1>3, <1>4, <1>5, <1>6 DEF LightFacts

\* Somebody turns a leaf off: it is noted and its event waits.
LEMMA LeafOffHands ==
    ASSUME Inner, Outer, StageFacts, LightFacts, Listening, NEW l \in Leaf, LeafOff(l)
    PROVE  StageFacts' /\ LightFacts'
<1>1. run' = run /\ st' = st /\ job' = job /\ Special' = Special
  BY StillSame DEF LeafOff
<1> DEFINE lease == IF Active THEN run.lease ELSE NoOcc
           off == [Task("leafOff") EXCEPT !.leaf = l, !.occ = lease]
           now == [lights EXCEPT ![l] = 0]
<1>2. LightsBecome(now, <<off>>)
  BY DEF LeafOff
<1>3. lights' = now
  BY <1>2 DEF LightsBecome
<1>4. off \in Tasks /\ off.kind = "leafOff" /\ off.leaf = l /\ off.occ = lease
  <2>1. lease \in Occ \cup {NoOcc}
    BY ActiveRun DEF Run
  <2> HIDE DEF lease
  <2>2. off \in Tasks
    BY <2>1, EnvTasks
  <2>3. off.kind = "leafOff" /\ off.leaf = l /\ off.occ = lease
    BY DEF Task
  <2> QED  BY <2>2, <2>3
<1> HIDE DEF off
<1>5. off \in LeafOffs' /\ LeafOffs \subseteq LeafOffs'
  <2> HIDE DEF now
  <2> QED  BY <1>2, <1>4, LightsPosted DEF LeafOffs
<1>6. Coming(l)' /\ (Active => Heard(l)')
  BY <1>1, <1>4, <1>5 DEF Coming, Heard, run
<1>7. /\ \A k : Heard(k) => Heard(k)'
      /\ \A k : Coming(k) => Coming(k)'
  BY <1>1, <1>5 DEF Heard, Coming, run
<1>8. /\ touch' = [touch EXCEPT ![l] =
                      [by |-> "user", lease |-> IF Active /\ run.gen # 0 THEN run.lease ELSE NoOcc]]
      /\ IF Noted(l) THEN observed' = [observed EXCEPT ![l] = run.lease] ELSE UNCHANGED observed
  BY DEF LeafOff
<1>9. /\ \A k \in Leaf : k # l => lights'[k] = lights[k] /\ touch'[k] = touch[k]
                                  /\ observed'[k] = observed[k]
      /\ touch'[l] = [by |-> "user", lease |-> IF Active /\ run.gen # 0 THEN run.lease ELSE NoOcc]
      /\ Noted(l) => observed'[l] = run.lease
  BY <1>3, <1>8 DEF Inner, Outer
<1>10. \A k \in Leaf : k # l => Lit(k)' = Lit(k) /\ TurnedOff(k)' = TurnedOff(k)
  BY <1>1, <1>9 DEF Lit, TurnedOff, run
<1>11. Active => run.targets \subseteq Leaf /\ OwnedLights(run) \subseteq run.targets
  <2>1. Active => run \in Run
    BY ActiveRun
  <2> QED  BY <2>1 DEF Run, LightFacts, OwnTargets, OwnedLights
<1>12. Active /\ l \in run.targets => Noted(l)
  BY DEF Noted, Listening
<1>13. StageFacts'
  BY <1>1 DEF StageFacts, Active
<1>14. TouchedInRun' /\ OwnTargets'
  BY <1>1, <1>9 DEF LightFacts, TouchedInRun, OwnTargets, Active
<1>15. OffNoticed'
  BY <1>1, <1>6, <1>7, <1>9, <1>10, <1>11, <1>12 DEF LightFacts, OffNoticed, Active
<1>16. OwnedLit'
  BY <1>1, <1>6, <1>7, <1>10, <1>11 DEF LightFacts, OwnedLit, Active
<1>17. CutLit'
  BY <1>1, <1>6, <1>7, <1>10, <1>11 DEF LightFacts, CutLit, Accounted, Active
<1>18. PrevLit'
  <2> SUFFICES ASSUME Special \cap {"safeOff", "ended"} # {}, NEW k \in OwnedLights(job.prev)
               PROVE  Accounted(k)'
    BY <1>1 DEF PrevLit
  <2>1. Accounted(k)
    BY DEF LightFacts, PrevLit
  <2>2. CASE k = l
    BY <1>6, <2>2 DEF Accounted
  <2>3. CASE k # l
    <3>1. k \in Leaf \/ ~(k \in Leaf)
      OBVIOUS
    <3>2. k \in Leaf
      <4>1. job.prev \in Run
        <5>1. Special \cap {"safeOff", "ended"} # {} => \E x \in NeedPrev : Soon(x)
          BY DEF Special, Soon, NeedPrev
        <5> QED  BY <5>1, SoonNeeds
      <4> QED  BY <4>1 DEF Run, OwnedLights
    <3> QED  BY <1>7, <1>10, <2>1, <2>3, <3>2 DEF Accounted
  <2> QED  BY <2>2, <2>3
<1> QED  BY <1>13, <1>14, <1>15, <1>16, <1>17, <1>18 DEF LightFacts

\* Somebody turns a leaf on, or brightens it.
LEMMA LeafOnHands ==
    ASSUME Inner, Outer, StageFacts, LightFacts, NEW l \in Leaf, NEW level \in 1 .. Full,
           LeafOn(l, level)
    PROVE  StageFacts' /\ LightFacts'
<1>1. run' = run /\ st' = st /\ job' = job /\ Special' = Special
  BY StillSame DEF LeafOn
<1> DEFINE t == [Task("poke") EXCEPT !.user = TRUE]
<1>2. /\ Post(<<t>>) /\ lights' = [lights EXCEPT ![l] = level] /\ observed' = observed
      /\ touch' = IF lights[l] > 0 THEN touch
                  ELSE [touch EXCEPT ![l] = [by |-> "user", lease |-> NoOcc]]
  BY DEF LeafOn
<1>3. t \in Tasks
  BY EnvTasks
<1> HIDE DEF t
<1>4. LeafOffs \subseteq LeafOffs'
  <2>1. Queued \subseteq Queued'
    BY <1>2, <1>3, QueuedOne
  <2> QED  BY <2>1, OffsKept
<1>5. /\ \A k : Heard(k) => Heard(k)'
      /\ \A k : Coming(k) => Coming(k)'
  BY <1>1, <1>4 DEF Heard, Coming, run
<1>6. /\ \A k \in Leaf : k # l => lights'[k] = lights[k] /\ touch'[k] = touch[k]
      /\ lights'[l] = level /\ level > 0 /\ lights[l] \in Nat
      /\ lights[l] > 0 => touch'[l] = touch[l]
      /\ ~(lights[l] > 0) => touch'[l] = [by |-> "user", lease |-> NoOcc]
  BY <1>2 DEF Outer
<1>7. \A k : k \in Leaf => (Lit(k) => Lit(k)')
  BY <1>6 DEF Lit
<1>8. \A k \in Leaf : TurnedOff(k)' => TurnedOff(k)
  BY <1>1, <1>6 DEF TurnedOff, run
<1>9. Active => run.targets \subseteq Leaf /\ OwnedLights(run) \subseteq run.targets
  <2>1. Active => run \in Run
    BY ActiveRun
  <2> QED  BY <2>1 DEF Run, LightFacts, OwnTargets, OwnedLights
<1>10. Special \cap {"safeOff", "ended"} # {} => OwnedLights(job.prev) \subseteq Leaf
  <2>1. Special \cap {"safeOff", "ended"} # {} => \E x \in NeedPrev : Soon(x)
    BY DEF Special, Soon, NeedPrev
  <2>2. Special \cap {"safeOff", "ended"} # {} => job.prev \in Run
    BY <2>1, SoonNeeds
  <2> QED  BY <2>2 DEF Run, OwnedLights
<1>11. StageFacts'
  BY <1>1 DEF StageFacts, Active
<1>12. TouchedInRun' /\ OwnTargets'
  BY <1>1, <1>6 DEF LightFacts, TouchedInRun, OwnTargets, Active
<1>13. OffNoticed' /\ OwnedLit'
  BY <1>1, <1>2, <1>5, <1>7, <1>8, <1>9 DEF LightFacts, OffNoticed, OwnedLit, Active
<1>14. CutLit' /\ PrevLit'
  BY <1>1, <1>5, <1>7, <1>9, <1>10 DEF LightFacts, CutLit, PrevLit, Accounted, Active
<1> QED  BY <1>11, <1>12, <1>13, <1>14 DEF LightFacts

-----------------------------------------------------------------------------
\* The acts of users.
LEMMA UsersHandKept ==
    ASSUME Inner, Outer, StageFacts, LightFacts, Listening, Users PROVE StageFacts' /\ LightFacts'
<1>1. ASSUME NEW t \in Tasks, Post(<<t>>) \/ queue' = Append(queue, t), Still,
             lights' = lights, touch' = touch, observed' = observed
      PROVE  StageFacts' /\ LightFacts'
  BY <1>1, QueuedOne, StillHands
<1>2. CASE \E v \in {"off", "on", "unknown"} : SetVacation(v)
  <2>1. PICK v \in {"off", "on", "unknown"} : SetVacation(v)
    BY <1>2
  <2> DEFINE t == IF v = "off" THEN Task("poke")
                  ELSE [Task("vacation") EXCEPT !.user = (v = "on")]
  <2>2. Post(<<t>>) /\ Still /\ lights' = lights /\ touch' = touch /\ observed' = observed
    BY <2>1 DEF SetVacation
  <2>3. t \in Tasks
    BY EnvTasks
  <2> HIDE DEF t
  <2> QED  BY <1>1, <2>2, <2>3
<1>3. CASE \E r \in {"ready", "unknown", "blocked"} : SetRoom(r)
  <2>1. PICK r \in {"ready", "unknown", "blocked"} : SetRoom(r)
    BY <1>3
  <2> DEFINE t == Task(IF r = "ready" THEN "poke" ELSE "hazard")
  <2>2. Post(<<t>>) /\ Still /\ lights' = lights /\ touch' = touch /\ observed' = observed
    BY <2>1 DEF SetRoom
  <2>3. t \in Tasks
    BY EnvTasks
  <2> HIDE DEF t
  <2> QED  BY <1>1, <2>2, <2>3
<1>4. CASE \E u \in BOOLEAN : PblRevoke(u)
  <2>1. PICK u \in BOOLEAN : PblRevoke(u)
    BY <1>4
  <2> DEFINE t == [Task("revoke") EXCEPT !.gen = pbl.gen, !.user = u]
  <2>2. Post(<<t>>) /\ Still /\ lights' = lights /\ touch' = touch /\ observed' = observed
    BY <2>1 DEF PblRevoke
  <2>3. t \in Tasks
    <3>1. pbl.gen \in Nat
      BY DEF Outer, Leases
    <3> QED  BY <3>1, EnvTasks
  <2> HIDE DEF t
  <2> QED  BY <1>1, <2>2, <2>3
<1>5. CASE \/ \E o \in Occ : \/ Command("dismiss", o) \/ Command("add", o)
                             \/ Command("delete", o)
           \/ Command("end", NoOcc)
  <2>1. PICK kind \in {"dismiss", "add", "delete", "end"}, o \in Occ \cup {NoOcc} :
            Command(kind, o) /\ (kind = "add" => o \in Occ)
    BY <1>5
  <2> DEFINE t == [Task(kind) EXCEPT !.occ = o]
  <2>2. /\ queue' = Append(queue, t) /\ Still /\ lights' = lights /\ touch' = touch
        /\ observed' = observed
    BY <2>1 DEF Command
  <2>3. t \in Tasks
    BY <2>1, CommandTask
  <2> HIDE DEF t
  <2> QED  BY <1>1, <2>2, <2>3
<1> QED  BY <1>2, <1>3, <1>4, <1>5, LeafOffHands, LeafOnHands DEF Users

\* Time, timers and PBL's expiry; the coordinator is neither stopped nor unloaded.
LEMMA MachineHandKept ==
    ASSUME Inner, Outer, StageFacts, LightFacts, Listening, Listening', Machine
    PROVE  /\ StageFacts' /\ LightFacts'
           /\ stack' = stack /\ (Yielded \/ stack = <<>>)
<1>1. Tick \/ FireTimer \/ Poke \/ PblExpire
  BY DEF Machine, Stop, Unload, Die, Forget, Boot, CoreRunning, Listening, proc
<1>2. /\ Still /\ lights' = lights /\ touch' = touch /\ observed' = observed
      /\ stack' = stack /\ (Yielded \/ stack = <<>>)
  BY <1>1 DEF Tick, FireTimer, Poke, PblExpire, Still, world
<1>3. Queued \subseteq Queued'
  <2>1. CASE Tick
    BY <2>1 DEF Tick, Queued
  <2>2. CASE FireTimer
    <3> DEFINE t == [Task("timer") EXCEPT !.now = clock]
    <3>1. queue' = Append(queue, t)
      BY <2>2 DEF FireTimer
    <3>2. t \in Tasks
      <4>1. clock \in Int
        BY DEF Outer
      <4> QED  BY <4>1, EnvTasks
    <3> HIDE DEF t
    <3> QED  BY <3>1, <3>2, QueuedOne
  <2>3. CASE Poke
    <3>1. Post(<<Task("poke")>>) /\ Task("poke") \in Tasks
      BY <2>3, EnvTasks DEF Poke
    <3> QED  BY <3>1, QueuedOne
  <2>4. CASE PblExpire
    <3> DEFINE t == [Task("revoke") EXCEPT !.gen = pbl.gen]
    <3>1. Post(<<t>>)
      BY <2>4 DEF PblExpire
    <3>2. t \in Tasks
      <4>1. Task("revoke") \in Tasks /\ Task("revoke").kind = "revoke" /\ pbl.gen \in Nat
        <5>1. "revoke" \in Kinds \ {"add"}
          BY DEF Kinds
        <5> QED  BY <5>1, TaskType DEF Task, Outer, Leases
      <4> QED  BY <4>1 DEF Tasks
    <3> HIDE DEF t
    <3> QED  BY <3>1, <3>2, QueuedOne
  <2> QED  BY <1>1, <2>1, <2>2, <2>3, <2>4
<1> QED  BY <1>2, <1>3, StillHands

\* The drain that is through leaves no target that was turned off.
LEMMA DrainedKept ==
    ASSUME Inner, LightFacts, StageFacts, KeepsOrder PROVE AfterDrain(stack') /\ Drained'
<1>1. AfterDrain(stack')
  BY DEF KeepsOrder
<1>2. ASSUME At("decide")', Active' PROVE \A l \in run'.targets : ~TurnedOff(l)'
  <2>1. Emptied
    BY <1>2 DEF KeepsOrder
  <2>2. /\ run' = run /\ lights' = lights /\ touch' = touch /\ Active
        /\ \A l \in run.targets : observed[l] # run.lease
    BY <1>2, <2>1 DEF Emptied, Drain, Quiet, world, Active, run
  <2>3. Special = {}
    BY <2>1, PlainUnhurried DEF Emptied, PlainNames
  <2>4. \A l \in run.targets : ~TurnedOff(l)
    BY <2>2, <2>3 DEF LightFacts, OffNoticed
  <2> QED  BY <2>2, <2>4 DEF TurnedOff, run
<1> QED  BY <1>1, <1>2 DEF Drained, run

\* Nothing happens around a handler that is about to decide.
LEMMA AroundOrder ==
    ASSUME AfterDrain(stack), stack' = stack, Yielded \/ stack = <<>>
    PROVE  AfterDrain(stack') /\ Drained'
<1>1. ~At("decide")'
  BY DEF At, Yielded, Awaits
<1> QED  BY <1>1 DEF Drained

\* At first nothing is noted, turned off or under way.
LEMMA HandInit == Init => HandInv
<1> SUFFICES ASSUME Init PROVE HandInv
  OBVIOUS
<1>1. run = NoRun /\ stack = <<>> /\ touch = [l \in Leaf |-> [by |-> "nobody", lease |-> NoOcc]]
  BY DEF Init, run
<1>2. Special = {}
  BY <1>1, StagesOfOne, FirstStages DEF Special, StagesOf
<1>3. StageFacts /\ LightFacts
  BY <1>1, <1>2 DEF StageFacts, LightFacts, TouchedInRun, OwnTargets, OffNoticed, OwnedLit, CutLit,
     PrevLit, Active
<1>4. AfterDrain(stack)
  BY <1>1 DEF AfterDrain
<1>5. Drained
  BY <1>1 DEF Drained, Active
<1> QED  BY <1>3, <1>4, <1>5 DEF HandInv

\* Every step of a coordinator that keeps listening keeps it.
LEMMA HandNext ==
    TypeInv /\ CanInv /\ HandInv /\ Listening /\ Listening' /\ [Next]_vars => HandInv'
<1> SUFFICES ASSUME Inner, Outer, CanInv, HandInv, Listening, Listening', [Next]_vars
             PROVE  HandInv'
  BY TwoParts
<1>0. StageFacts /\ LightFacts /\ AfterDrain(stack) /\ Drained /\ SamePrev
  BY DEF HandInv, CanInv
<1>1. CASE UNCHANGED vars
  <2>1. /\ run' = run /\ Special' = Special /\ Queued' = Queued
        /\ UNCHANGED <<st, job, stack, lights, touch, observed>>
    BY <1>1 DEF vars, run, Special, StagesOf, Queued
  <2>2. StageFacts'
    BY <1>0, <2>1 DEF StageFacts, Active
  <2>3. LightFacts'
    BY <1>0, <2>1 DEF LightFacts, TouchedInRun, OwnTargets, OffNoticed, OwnedLit, CutLit, PrevLit,
       Accounted, Lit, Coming, Heard, LeafOffs, TurnedOff, Active
  <2>4. AfterDrain(stack') /\ Drained'
    BY <1>0, <2>1 DEF Drained, At, TurnedOff, Active
  <2> QED  BY <2>2, <2>3, <2>4 DEF HandInv
<1>2. CASE Stages
  <2>1. ~Unloaded
    BY DEF Unloaded, Forget, Listening
  <2>2. HandMoves /\ Unlit
    BY <1>0, <1>2, <2>1, StageUnlit
  <2>3. StageFacts' /\ LightFacts'
    BY <1>0, <2>2, StageFactsKept, LightFactsKept DEF HandMoves
  <2>4. AfterDrain(stack') /\ Drained'
    BY <1>0, <1>2, <2>1, OrderStages, DrainedKept
  <2> QED  BY <2>3, <2>4 DEF HandInv
<1>3. CASE Answers
  <2>1. StageFacts' /\ LightFacts'
    BY <1>0, <1>3, AnswersHandKept
  <2>2. AfterDrain(stack') /\ Drained'
    BY <1>0, <1>3, OrderAnswers, DrainedKept
  <2> QED  BY <2>1, <2>2 DEF HandInv
<1>4. CASE Handlers
  <2>1. StageFacts' /\ LightFacts'
    BY <1>0, <1>4, HandlersHandKept
  <2>2. AfterDrain(stack') /\ Drained'
    BY <1>0, <1>4, OrderHandlers, DrainedKept
  <2> QED  BY <2>1, <2>2 DEF HandInv
<1>5. CASE Users
  <2>1. StageFacts' /\ LightFacts'
    BY <1>0, <1>5, UsersHandKept
  <2>2. stack' = stack /\ Yielded
    BY <1>5 DEF Users, LeafOff, LeafOn, SetVacation, SetRoom, PblRevoke, Command, Still
  <2> QED  BY <1>0, <2>1, <2>2, AroundOrder DEF HandInv
<1>6. CASE Machine
  BY <1>0, <1>6, MachineHandKept, AroundOrder DEF HandInv
<1> QED  BY <1>1, <1>2, <1>3, <1>4, <1>5, <1>6 DEF Next

\* At a decision only the decision is made.
LEMMA DecisionNext ==
    ASSUME At("decide"), stack' # <<>>, Head(stack') = "send", [Next]_vars
    PROVE  Decide
<1>1. Head(stack) = "decide" /\ stack # <<>> /\ ~Yielded /\ stack' # stack
  BY DEF At, Yielded, Awaits
<1>2. ~Handlers
  <2>1. Handlers => \E kind : Take(kind)
    BY DEF Handlers, OnStart, OnTimer, OnPoke, OnLeafOff, OnRootOff, OnRevoke,
       OnVacation, OnHazard, OnEnd, OnDismiss, OnAdd, OnDelete, OnStop, OnUnload
  <2> QED  BY <1>1, <2>1 DEF Take
<1>3. ~Answers
  BY <1>1 DEF Answers, Granted, Refused, Released, NotReleased, SafeOff, NotSafeOff,
     NotDispatched, Dispatched, DispatchFailed, Settling, Save, Persist, At
<1>4. ~Users
  BY <1>1 DEF Users, LeafOff, LeafOn, SetVacation, SetRoom, PblRevoke, Command
<1>5. ~Machine
  BY <1>1 DEF Machine, Tick, FireTimer, Poke, PblExpire, Stop, Unload, Die, Boot, CoreRunning,
     Still
<1>6. Stages => Decide
  BY <1>1 DEF Stages, Reconcile, Drain, Pending, Reacquired, JoinDue, Merged,
     Complete, CompletedRun, Begin, Started, Dispatch, Finish, Cancelled,
     Updated, Failed, Ended, Fence, RecoverNothing, RecoverRootOff,
     RecoverNoTargets, RecoverRun, Recovered, Abandoned, Unloaded, At
<1> QED  BY <1>1, <1>2, <1>3, <1>4, <1>5, <1>6 DEF Next, vars

-----------------------------------------------------------------------------
\* Once the room is settled, no target has been turned off.
LEMMA SettledReleased == HandInv => OffReleased
<1> SUFFICES ASSUME HandInv, Settled, Active, NEW l \in run.targets PROVE ~TurnedOff(l)
  BY DEF OffReleased
<1>1. stack = <<>> /\ queue = <<>>
  BY DEF Settled, Idle
<1>2. Special = {}
  BY <1>1, StagesOfOne, FirstStages DEF Special, StagesOf
<1>3. Queued = {}
  BY <1>1 DEF Queued
<1>4. ~Heard(l)
  BY <1>2, <1>3 DEF Heard, LeafOffs
<1> QED  BY <1>2, <1>4 DEF HandInv, LightFacts, OffNoticed

\* No command is decided for a leaf that was turned off.
LEMMA RespectedStep ==
    ASSUME Inner, Inner', HandInv, [Next]_vars,
           At("decide"), stack' # <<>>, Head(stack') = "send", NEW l \in run.targets
    PROVE  ~TurnedOff(l)
<1>1. Decide
  BY DecisionNext
<1>2. run' \in Run
  <2>1. /\ stack' \in Seq(StageNames)
        /\ Len(stack') >= 1 /\ stack'[1] \in NeedRun => run' \in Run
    BY DEF Inner, Fits
  <2>2. Len(stack') \in Nat /\ Len(stack') # 0 /\ Head(stack') = stack'[1]
    BY <2>1, EmptySeq, LenProperties
  <2> QED  BY <2>1, <2>2 DEF NeedRun
<1>3. Active
  <2>1. ~Active => st' = st
    BY <1>1 DEF Decide, NoCancel
  <2> QED  BY <1>2, <2>1, NoRunAssumption DEF Active, run
<1> QED  BY <1>3 DEF HandInv, Drained

\* While the lights of an episode are turned off nothing else is.
LEMMA SafeOffNext ==
    ASSUME Inner, At("safeOff"), stack' = Rest, [Next]_vars
    PROVE  SafeOff \/ lights' = lights
<1>1. Head(stack) = "safeOff" /\ stack # <<>>
  BY DEF At
<1>2. stack' # stack
  <2>1. stack \in Seq(StageNames)
    BY DEF Inner, Fits
  <2>2. Len(stack) \in Nat /\ Len(Tail(stack)) = Len(stack) - 1
    BY <1>1, <2>1, HeadTailProperties, EmptySeq, LenProperties
  <2> QED  BY <2>2 DEF Rest
<1>3. ~Handlers
  <2>1. Handlers => \E kind : Take(kind)
    BY DEF Handlers, OnStart, OnTimer, OnPoke, OnLeafOff, OnRootOff, OnRevoke,
       OnVacation, OnHazard, OnEnd, OnDismiss, OnAdd, OnDelete, OnStop, OnUnload
  <2> QED  BY <1>1, <2>1 DEF Take
<1>4. Answers => SafeOff \/ NotSafeOff
  BY <1>1 DEF Answers, Granted, Refused, Released, NotReleased,
     NotDispatched, Dispatched, DispatchFailed, Settling, Save, Persist, At
<1>5. ~Users
  BY <1>2 DEF Users, LeafOff, LeafOn, SetVacation, SetRoom, PblRevoke, Command, Still
<1>6. Machine => lights' = lights
  BY DEF Machine, Tick, FireTimer, Poke, PblExpire, Stop, Unload, Die, Boot, CoreRunning, world
<1>7. ~Stages
  BY <1>1 DEF Stages, Reconcile, Drain, Pending, Reacquired, JoinDue, Merged,
     Complete, CompletedRun, Begin, Started, Dispatch, Decide, Finish, Cancelled,
     Updated, Failed, Ended, Fence, RecoverNothing, RecoverRootOff,
     RecoverNoTargets, RecoverRun, Recovered, Abandoned, Unloaded, At
<1>8. NotSafeOff => lights' = lights
  BY DEF NotSafeOff
<1> QED  BY <1>2, <1>3, <1>4, <1>5, <1>6, <1>7, <1>8 DEF Next, vars

\* What is turned off was lit by the wake light, or its off is still to come.
LEMMA SafeOffStep ==
    ASSUME Inner, Outer, HandInv, At("safeOff"), stack' = Rest, [Next]_vars,
           NEW l \in Leaf, lights[l] > 0, lights'[l] = 0
    PROVE  \/ touch[l].by = "wake"
           \/ \E i \in 1 .. Len(queue) : queue[i].kind = "leafOff" /\ queue[i].leaf = l
<1>1. lights[l] \in Nat /\ lights[l] # lights'[l]
  BY CoordinatorAssumption DEF Outer
<1>2. SafeOff
  BY <1>1, SafeOffNext
<1>3. l \in OwnedLights(job.prev)
  BY <1>1, <1>2 DEF SafeOff, LightsBecome
<1>4. "safeOff" \in Special
  <2>1. stack \in Seq(StageNames) /\ stack # <<>>
    BY DEF Inner, Fits, At
  <2>2. Len(stack) \in Nat /\ 1 \in 1 .. Len(stack) /\ stack[1] = "safeOff"
    BY <2>1, EmptySeq, LenProperties DEF At
  <2> QED  BY <2>2 DEF Special, StagesOf, Plain, NeedPrev
<1>5. Accounted(l)
  BY <1>3, <1>4 DEF HandInv, LightFacts, PrevLit
<1>6. CASE Lit(l)
  BY <1>6 DEF Lit
<1>7. CASE Coming(l)
  BY <1>7 DEF Coming, LeafOffs, Queued
<1> QED  BY <1>5, <1>6, <1>7 DEF Accounted

\* The invariants of a coordinator that keeps listening.
LEMMA HandAlways == Spec /\ []Listening => [](TypeInv /\ HandInv)
BY TypeInit, TypeNext, CanInit, CanNext, HandInit, HandNext, PTL DEF Spec

\* Whatever order the events of a leaf, of the root light and of PBL come in,
\* a coordinator that has handled them all keeps no target that a user turned
\* off during the lease (_release_foreign_off_leaf_locked).  It must not have
\* been restarted meanwhile: the offs it noted are only in memory.
THEOREM OffsReleased == Spec /\ []Listening => []OffReleased
BY HandAlways, SettledReleased, PTL

\* No command is decided for a leaf that a user turned off during the lease,
\* although the event of the off may still wait for the lock
\* (_apply_observed_foreign_off_locked, _dispatch_if_due_locked).
THEOREM OffsRespected == Spec /\ []Listening => OffRespected
<1>1. TypeInv /\ TypeInv' /\ HandInv /\ [Next]_vars
        => [At("decide") /\ stack' # <<>> /\ Head(stack') = "send"
              => \A l \in run.targets : ~TurnedOff(l)]_vars
  <2>1. TypeInv' => Inner'
    BY DEF TypeInv, TypeOK, Inner, Fits
  <2> QED  BY <2>1, RespectedStep, TwoParts
<1> QED  BY <1>1, HandAlways, PTL DEF Spec, OffRespected

\* The end of an episode turns off only lights of the wake light: one that a
\* user turned off and on again is among them only while the event of its off
\* still waits (_safe_off_wake_owned_locked, _release_foreign_off_leaf_locked).
THEOREM SafeOffsOwn == Spec /\ []Listening => SafeOffOwn
<1>1. TypeInv /\ HandInv /\ [Next]_vars
        => [At("safeOff") /\ stack' = Rest => \A l \in Leaf :
              lights[l] > 0 /\ lights'[l] = 0 =>
                 \/ touch[l].by = "wake"
                 \/ \E i \in 1 .. Len(queue) :
                       queue[i].kind = "leafOff" /\ queue[i].leaf = l]_vars
  BY SafeOffStep, TwoParts
<1> QED  BY <1>1, HandAlways, PTL DEF Spec, SafeOffOwn

=============================================================================
