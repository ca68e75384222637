------------------------ MODULE IssueControllerProofs ------------------------
(***************************************************************************)
(* Proofs about IssueController, for every bound on the owner, the faults, *)
(* the repairs and the retries.  The inductive invariant says, at every    *)
(* await of the three activities, what each of them may count on: who      *)
(* holds a claim of the issue (LaneInv), who waits for the intake and what *)
(* had been said when it asked (QueueInv), what the running call of the    *)
(* intake has read (ServingInv), and what the lane's intention to close    *)
(* the issue rests on (ClosingInv).  The lemmas first take the steps by    *)
(* what they do to the record, then by what they do to control, and then   *)
(* each part of the invariant is kept by the steps that can disturb it.    *)
(***************************************************************************)
EXTENDS IssueController, TLAPS
\* A record remembers no more input than it has, and the worker's claim is for some of it.
Held(r) == r \in Records /\ Accepted(r) /\ r.worker.input <= r.input

RecordInv ==
    /\ Held(rec) /\ Held(disk) /\ TypeOK
    /\ Len(hub.said) <= asked /\ intake.said <= Len(hub.said)
    /\ rel = "retry" => rec.retries < AutoRetryLimit

\* One activity at a time: the lane acts under its claim.
LaneInv ==
    /\ OneLane
    /\ rel \notin {"idle", "select"} => rec.release

\* Whoever is served by the intake, or has been, awaits it where it called.
Awaits(who) ==
    CASE who = "tick" -> sup = "intake"
      [] who = "worker" -> worker.pc = "refresh"
      [] who = "release" -> rel \in Waits
      [] OTHER -> TRUE

QueueInv ==
    /\ \A i \in 1..Len(queue) : /\ Awaits(queue[i].who) /\ queue[i].said <= Len(hub.said)
                                /\ queue[i].who # turn.who
                                /\ \A j \in 1..Len(queue) : queue[i].who = queue[j].who => i = j
    /\ Awaits(turn.who)
    /\ turn.who = "nobody" => Quiet
    /\ intake.pc # "idle" => Quiet /\ queue # <<>>

\* What the running call has read is as new as the call.
Caller == Head(queue).who
ServingInv ==
    /\ intake.pc \in {"comments", "reopened"} => intake.said >= Head(queue).said
    /\ intake.pc # "idle" /\ Caller \in {"worker", "release"} =>
          /\ intake.pc = "reopened" => rec.phase = "paused"
          /\ intake.pc = "comments" /\ ~intake.window => ~intake.open /\ ~rec.closed /\ ~rec.closing

\* What the lane's intention to close the issue rests on.
Releasing == {"deploy", "waited", "deployed", "finalize", "resolve", "close", "patch"}
Delivered == hub.marked /\ rec.merged /\ rec.verified
Resolved == hub.resolved = rec.proc /\ ~rec.candidate

Claiming ==
    /\ rec.phase # "paused" /\ (rec.closing \/ rec.closed) /\ intake.pc # "reopened"
    /\ intake.pc = "comments" => intake.marked

ClosingInv ==
    /\ rel \in Releasing => rec.trouble = "none"
    /\ rel = "close" => Delivered \/ Resolved \/ Pending(rec)
    /\ rel = "patch" => Resolved \/ (Delivered /\ Claiming)

ControllerInv == RecordInv /\ LaneInv /\ QueueInv /\ ServingInv /\ RefreshIsFresh /\ ClosingInv

-----------------------------------------------------------------------------
(* What happens to a record keeps it one that readState accepts, and leaves *)
(* the claim of the release lane alone.                                     *)
Follows(r, s) == Held(s) /\ s.release = r.release

LEMMA Append1Follows == ASSUME NEW r, Held(r) PROVE Follows(r, Append1(r))
  BY DEF Held, Follows, Append1, Records, Accepted

LEMMA RequeueFollows == ASSUME NEW r, Held(r) PROVE Follows(r, Requeue(r))
  BY DEF Held, Follows, Requeue, Records, Accepted, Phases

LEMMA NewGenerationFollows == ASSUME NEW r, Held(r) PROVE Follows(r, NewGeneration(r))
<1>1. NewGeneration(r) \in Records
  <2>1. PICK m \in 0..MaxRepairs, g \in Nat : m = 0 /\ g = r.gen + 1
    BY ControllerConstants DEF Held, Records
  <2>2. PICK s : s = [r EXCEPT !.gen = g, !.phase = "queued", !.outcome = "none", !.tree = FALSE,
                               !.candidate = FALSE, !.trouble = "none"]
    OBVIOUS
  <2>3. PICK t : t = [s EXCEPT !.pr = FALSE, !.checked = FALSE, !.merged = FALSE, !.verified = FALSE]
    OBVIOUS
  <2>4. PICK u : u = [t EXCEPT !.closing = FALSE, !.closed = FALSE, !.completing = FALSE, !.race = FALSE]
    OBVIOUS
  <2>5. s \in Records
    BY <2>2 DEF Held, Records, Phases
  <2>6. t \in Records
    BY <2>3, <2>5 DEF Records
  <2>7. u \in Records
    BY <2>4, <2>6 DEF Records
  <2>8. [u EXCEPT !.done = FALSE, !.drift = FALSE, !.repairs = m] \in Records
    BY <2>7 DEF Records
  <2>9. NewGeneration(r) = [u EXCEPT !.done = FALSE, !.drift = FALSE, !.repairs = m]
    BY <2>1, <2>2, <2>3, <2>4 DEF NewGeneration
  <2>10. QED
    BY <2>8, <2>9
<1>2. Accepted(NewGeneration(r)) /\ NewGeneration(r).worker = r.worker
  BY DEF Held, NewGeneration, Records, Accepted
<1>3. NewGeneration(r).input = r.input /\ NewGeneration(r).release = r.release
  BY DEF Held, NewGeneration, Records
<1>4. QED
  BY <1>1, <1>2, <1>3 DEF Held, Follows

LEMMA PhaseFollows == ASSUME NEW r, Held(r), NEW p \in Phases PROVE Follows(r, [r EXCEPT !.phase = p])
  BY DEF Held, Follows, Records, Accepted

LEMMA BlockedFollows == ASSUME NEW r, Held(r), NEW retry \in BOOLEAN PROVE Follows(r, Blocked(r, retry))
<1>1. ASSUME NEW b \in BOOLEAN
      PROVE  Follows(r, [r EXCEPT !.phase = "blocked", !.outcome = "blocked", !.eligible = b])
  BY DEF Held, Follows, Records, Accepted, Phases, Decisions
<1>2. QED
  BY <1>1, Zenon DEF Blocked

LEMMA RepairedFollows == ASSUME NEW r, Held(r) PROVE Follows(r, Repaired(r))
<1>1. CASE r.repairs >= MaxRepairs
  BY <1>1, BlockedFollows DEF Repaired
<1>2. CASE ~(r.repairs >= MaxRepairs)
  <2>1. Follows(Append1(r), [Append1(r) EXCEPT !.repairs = @ + 1, !.phase = "queued"])
    <3>1. Append1(r).repairs = r.repairs
      BY DEF Append1, Held, Records
    <3>2. ASSUME NEW s, Held(s), s.repairs < MaxRepairs
          PROVE  Follows(s, [s EXCEPT !.repairs = @ + 1, !.phase = "queued"])
      <4>1. PICK m \in 0..MaxRepairs : m = s.repairs + 1
        BY <3>2, ControllerConstants DEF Held, Records
      <4>2. [s EXCEPT !.repairs = m, !.phase = "queued"] \in Records
        BY <3>2 DEF Held, Records, Phases
      <4>3. QED
        BY <3>2, <4>1, <4>2 DEF Held, Follows, Records, Accepted
    <3>3. r.repairs < MaxRepairs
      BY <1>2, ControllerConstants DEF Held, Records
    <3>4. QED
      BY <3>1, <3>2, <3>3, Append1Follows DEF Follows
  <2>2. QED
    BY <1>2, <2>1, Append1Follows DEF Repaired, Follows
<1>3. QED
  BY <1>1, <1>2

LEMMA RetriedFollows ==
  ASSUME NEW r, Held(r), NEW owner \in BOOLEAN, ~owner => r.retries < AutoRetryLimit
  PROVE  Follows(r, Retried(r, owner))
<1>1. PICK n \in 0..AutoRetryLimit : n = IF owner THEN 0 ELSE r.retries + 1
  BY ControllerConstants DEF Held, Records
<1>2. PICK s : s = [r EXCEPT !.eligible = FALSE, !.repairs = 0, !.retries = n]
  OBVIOUS
<1>3. Follows(r, s)
  <2>1. PICK m \in 0..MaxRepairs : m = 0
    BY ControllerConstants
  <2>2. [r EXCEPT !.eligible = FALSE, !.repairs = m, !.retries = n] \in Records
    BY DEF Held, Records
  <2>3. s \in Records
    BY <1>2, <2>1, <2>2
  <2>4. Accepted(s) /\ s.worker.input <= s.input /\ s.release = r.release
    BY <1>2 DEF Held, Records, Accepted
  <2>5. QED
    BY <2>3, <2>4 DEF Held, Follows
<1>4. Follows(s, Append1(NewGeneration(s)))
  BY <1>3, NewGenerationFollows, Append1Follows DEF Follows
<1>5. Follows(s, [s EXCEPT !.phase = "deploying"]) /\ Follows(s, [s EXCEPT !.phase = "pull-request"])
  BY <1>3, PhaseFollows DEF Phases, Follows
<1>6. Follows(s, [Append1(s) EXCEPT !.phase = "queued"])
  BY <1>3, Append1Follows, PhaseFollows DEF Phases, Follows
<1>7. s = [r EXCEPT !.eligible = FALSE, !.repairs = 0, !.retries = IF owner THEN 0 ELSE @ + 1]
  BY <1>1, <1>2
<1>8. QED
  BY <1>3, <1>4, <1>5, <1>6, <1>7 DEF Retried, Follows

LEMMA EditedFollows == ASSUME NEW r, Held(r), NEW text \in Texts PROVE Follows(r, Edited(r, text))
<1> DEFINE s == [r EXCEPT !.text = text, !.texts = @ \cup {text}]
<1>1. Follows(r, s)
  BY DEF Held, Follows, Records, Accepted
<1>2. QED
  BY <1>1, Append1Follows, RequeueFollows DEF Edited, Follows

LEMMA NotedFollows == ASSUME NEW r, Held(r) PROVE Follows(r, Noted(r))
  BY Append1Follows, RequeueFollows, NewGenerationFollows DEF Noted, Follows

LEMMA CommandedFollows == ASSUME NEW r, Held(r), NEW command PROVE Follows(r, Commanded(r, command))
<1> DEFINE s == [NewGeneration(r) EXCEPT !.retries = 0, !.eligible = FALSE]
<1>1. Follows(r, s)
  <2>1. PICK n \in 0..AutoRetryLimit : n = 0
    BY ControllerConstants
  <2>2. \A g : Held(g) => Follows(g, [g EXCEPT !.retries = n, !.eligible = FALSE])
    <3>1. ASSUME NEW g, Held(g) PROVE [g EXCEPT !.retries = n, !.eligible = FALSE] \in Records
      BY <3>1 DEF Held, Records
    <3>2. ASSUME NEW g, Held(g) PROVE Follows(g, [g EXCEPT !.retries = n, !.eligible = FALSE])
      <4>1. PICK t : t = [g EXCEPT !.retries = n, !.eligible = FALSE]
        OBVIOUS
      <4>2. Accepted(t) /\ t.worker.input <= t.input /\ t.release = g.release
        BY <3>2, <4>1 DEF Held, Records, Accepted
      <4>3. QED
        BY <3>1, <3>2, <4>1, <4>2 DEF Held, Follows
    <3>3. QED
      BY <3>2
  <2>3. QED
    BY <2>1, <2>2, NewGenerationFollows DEF Follows
<1>2. Follows(r, Append1(s))
  BY <1>1, Append1Follows DEF Follows
<1>3. QED
  BY <1>2, RetriedFollows, NotedFollows DEF Commanded, Follows

LEMMA ClosedIssueFollows == ASSUME NEW r, Held(r) PROVE Follows(r, ClosedIssue(r))
<1>1. ASSUME NEW p \in Phases
      PROVE  Follows(r, [r EXCEPT !.phase = p, !.closed = TRUE, !.closing = FALSE])
  <2>1. PICK s : s = [r EXCEPT !.phase = p, !.closed = TRUE, !.closing = FALSE]
    OBVIOUS
  <2>2. s \in Records
    BY <2>1 DEF Held, Records
  <2>3. Accepted(s) /\ s.worker.input <= s.input /\ s.release = r.release
    BY <2>1 DEF Held, Records, Accepted
  <2>4. QED
    BY <2>1, <2>2, <2>3 DEF Held, Follows
<1>2. Follows(r, [r EXCEPT !.phase = "paused"])
  BY PhaseFollows DEF Phases
<1>3. "deploying" \in Phases /\ "resolving" \in Phases
  BY DEF Phases
<1>4. QED
  BY <1>1, <1>2, <1>3 DEF ClosedIssue

LEMMA AnsweredFollows == ASSUME NEW r, Held(r) PROVE Follows(r, Answered(r))
  BY DEF Held, Follows, Answered, Records, Accepted, Phases

LEMMA AnsweringFollows == ASSUME NEW r, Held(r) PROVE Follows(r, Answering(r))
  BY DEF Held, Follows, Answering, Records, Accepted, Phases

LEMMA BegunFollows == ASSUME NEW r, Held(r) PROVE Follows(r, Begun(r))
<1>1. ASSUME NEW w \in [gen : Nat, input : Nat], w.input = r.input
      PROVE  Follows(r, [r EXCEPT !.worker = w, !.phase = "researching"])
  <2>1. [r EXCEPT !.worker = w, !.phase = "researching"] \in Records
    BY DEF Held, Records, Phases
  <2>2. QED
    BY <1>1, <2>1 DEF Held, Follows, Records, Accepted
<1>2. [gen |-> r.gen, input |-> r.input] \in [gen : Nat, input : Nat]
  BY DEF Held, Records
<1>3. QED
  BY <1>1, <1>2 DEF Begun

LEMMA FailedFollows == ASSUME NEW r, Held(r) PROVE Follows(r, Failed(r))
<1>1. PICK count \in Nat : count = IF r.failures.input = r.input THEN r.failures.count + 1 ELSE 1
  BY DEF Held, Records
<1>2. PICK f \in [input : Nat, count : Nat] : f = [input |-> r.input, count |-> count]
  BY DEF Held, Records
<1>3. PICK s : s = [r EXCEPT !.failures = f]
  OBVIOUS
<1>4. Follows(r, s)
  <2>1. s \in Records
    BY <1>3 DEF Held, Records
  <2>2. QED
    BY <1>3, <2>1 DEF Held, Follows, Records, Accepted
<1>5. Follows(s, [s EXCEPT !.phase = "queued"]) /\ Follows(s, Blocked(s, TRUE))
  BY <1>4, PhaseFollows, BlockedFollows DEF Phases, Follows
<1>6. Failed(r) = IF worker.why = "provenance" \/ count >= MaxRepairs
                  THEN Blocked(s, TRUE) ELSE [s EXCEPT !.phase = "queued"]
  BY <1>1, <1>2, <1>3 DEF Failed
<1>7. QED
  BY <1>4, <1>5, <1>6 DEF Follows

LEMMA RecoveredHeld == ASSUME NEW r, Held(r) PROVE Held(Recovered(r))
<1>1. ASSUME NEW p \in Phases PROVE Held([r EXCEPT !.worker = NoClaim, !.release = FALSE, !.phase = p])
  <2>1. [r EXCEPT !.worker = NoClaim, !.release = FALSE, !.phase = p] \in Records
    BY DEF Held, Records, NoClaim
  <2>2. QED
    BY <2>1 DEF Held, Records, Accepted, NoClaim
<1>2. PICK p \in Phases :
         p = IF r.phase = "researching" /\ Pending(r) /\ r.worker # NoClaim THEN "queued" ELSE r.phase
  BY DEF Held, Records, Phases
<1>3. Recovered(r) = [r EXCEPT !.worker = NoClaim, !.release = FALSE, !.phase = p]
  BY <1>2 DEF Recovered, Held, Records
<1>4. QED
  BY <1>1, <1>3

-----------------------------------------------------------------------------
(* How control moves: an activity either goes on by itself or asks the      *)
(* intake, or it has been answered.                                         *)
Asks(c, waits, waits2) ==
    \/ /\ Quiet /\ UNCHANGED turn /\ ~waits
       /\ (~waits2 /\ UNCHANGED queue) \/ (waits2 /\ Call(c))
    \/ turn.who = c /\ turn' = Nobody /\ UNCHANGED queue /\ ~waits2

LaneMoves ==
    /\ UNCHANGED <<intake, sup, worker, asked, faults>> /\ hub'.said = hub.said
    /\ Asks("release", rel \in Waits, rel' \in Waits)

LEMMA ReleaseLaneMoves == ASSUME TypeOK, ReleaseLane PROVE LaneMoves
<1>1. hub \in [issue : {"open", "closed"}, said : Seq(Commands), pr : {"none", "open", "merged"},
              marked : BOOLEAN, resolved : Nat]
  BY DEF TypeOK
<1>2. CASE Select
  BY <1>1, <1>2 DEF LaneMoves, Asks, Select, Available, Claimed, NeedsRepair, Guarded, Unfinished, Claim, RetryDue, InFlight, Entry, Lane, Quiet, bounds, Waits, Nobody, Save, Keep, Still, Call
<1>3. CASE Guard
  BY <1>1, <1>3 DEF LaneMoves, Asks, Guard, Lane, Quiet, bounds, Waits, Nobody, Save, Keep, Still, Call
<1>4. CASE Retry
  BY <1>1, <1>4 DEF LaneMoves, Asks, Retry, Superseded, Lane, Quiet, bounds, Waits, Nobody, Save, Keep, Still, Call
<1>5. CASE AnswerAgain
  BY <1>1, <1>5 DEF LaneMoves, Asks, AnswerAgain, Lane, Quiet, bounds, Waits, Nobody, Save, Keep, Still, Call
<1>6. CASE Release
  BY <1>1, <1>6 DEF LaneMoves, Asks, Release, Lane, Quiet, bounds, Waits, Nobody, Save, Keep, Still, Call
<1>7. CASE Validate
  BY <1>1, <1>7 DEF LaneMoves, Asks, Validate, Lane, Quiet, bounds, Waits, Nobody, Save, Keep, Still, Call
<1>8. CASE Validated
  BY <1>1, <1>8 DEF LaneMoves, Asks, Validated, Lane, Quiet, bounds, Waits, Nobody, Save, Keep, Still, Call
<1>9. CASE Publish
  BY <1>1, <1>9 DEF LaneMoves, Asks, Publish, Current, Lane, Quiet, bounds, Waits, Nobody, Save, Keep, Still, Call
<1>10. CASE Propose
  BY <1>1, <1>10 DEF LaneMoves, Asks, Propose, Current, Lane, Quiet, bounds, Waits, Nobody, Save, Keep, Still, Call
<1>11. CASE Proposed
  BY <1>1, <1>11 DEF LaneMoves, Asks, Proposed, Lane, Quiet, bounds, Waits, Nobody, Save, Keep, Still, Call
<1>12. CASE Checks
  BY <1>1, <1>12 DEF LaneMoves, Asks, Checks, Lane, Quiet, bounds, Waits, Nobody, Save, Keep, Still, Call
<1>13. CASE Checked
  BY <1>1, <1>13 DEF LaneMoves, Asks, Checked, Lane, Quiet, bounds, Waits, Nobody, Save, Keep, Still, Call
<1>14. CASE Merge
  BY <1>1, <1>14 DEF LaneMoves, Asks, Merge, Overtaken, Lane, Quiet, bounds, Waits, Nobody, Save, Keep, Still, Call
<1>15. CASE Merged
  BY <1>1, <1>15 DEF LaneMoves, Asks, Merged, Lane, Quiet, bounds, Waits, Nobody, Save, Keep, Still, Call
<1>16. CASE Deploy
  BY <1>1, <1>16 DEF LaneMoves, Asks, Deploy, Lane, Quiet, bounds, Waits, Nobody, Save, Keep, Still, Call
<1>17. CASE Deployed
  BY <1>1, <1>17 DEF LaneMoves, Asks, Deployed, Lane, Quiet, bounds, Waits, Nobody, Save, Keep, Still, Call
<1>18. CASE Finalize
  BY <1>1, <1>18 DEF LaneMoves, Asks, Finalize, Refresh, Lane, Quiet, bounds, Waits, Nobody, Save, Keep, Still, Call
<1>19. CASE Follow
  BY <1>1, <1>19 DEF LaneMoves, Asks, Follow, Superseded, Lane, Quiet, bounds, Waits, Nobody, Save, Keep, Still, Call
<1>20. CASE Resolve
  BY <1>1, <1>20 DEF LaneMoves, Asks, Resolve, Refresh, LateFrom, Lane, Quiet, bounds, Waits, Nobody, Save, Keep, Still, Call
<1>21. CASE Close
  BY <1>1, <1>21 DEF LaneMoves, Asks, Close, Fresh, LateFrom, Lane, Quiet, bounds, Waits, Nobody, Save, Keep, Still, Call
<1>22. CASE Patch
  BY <1>1, <1>22 DEF LaneMoves, Asks, Patch, Lane, Quiet, bounds, Waits, Nobody, Save, Keep, Still, Call
<1>23. CASE Patched
  BY <1>1, <1>23 DEF LaneMoves, Asks, Patched, Lane, Quiet, bounds, Waits, Nobody, Save, Keep, Still, Call
<1>24. CASE CompleteTodo
  BY <1>1, <1>24 DEF LaneMoves, Asks, CompleteTodo, Fresh, LateFrom, Refresh, Confirm, Complete, Restore, Lost, ReopenItem, Restored, Drifted, Lane, Quiet, bounds, Waits, Nobody, Save, Keep, Still, Call
<1>25. CASE Terminate
  BY <1>1, <1>25 DEF LaneMoves, Asks, Terminate, Tidy, Fresh, LateFrom, Confirm, Lost, Refresh, Lane, Quiet, bounds, Waits, Nobody, Save, Keep, Still, Call
<1>26. CASE LateOwnerInput
  BY <1>1, <1>26 DEF LaneMoves, Asks, LateOwnerInput, Late, LateItem, LateInput, LateIssue, LateStart, ReopenItem, Superseded, Lane, Quiet, bounds, Waits, Nobody, Save, Keep, Still, Call
<1>27. QED
  BY <1>2, <1>3, <1>4, <1>5, <1>6, <1>7, <1>8, <1>9, <1>10, <1>11, <1>12, <1>13, <1>14, <1>15, <1>16, <1>17, <1>18, <1>19, <1>20, <1>21, <1>22, <1>23, <1>24, <1>25, <1>26 DEF ReleaseLane

-----------------------------------------------------------------------------
(* What the activities note in the record.                                  *)

LEMMA NotesFollow ==
  ASSUME NEW r, Held(r)
  PROVE  /\ Follows(r, [r EXCEPT !.candidate = TRUE, !.checked = FALSE, !.merged = FALSE, !.verified = FALSE])
         /\ Follows(r, [r EXCEPT !.checked = FALSE])
         /\ Follows(r, [r EXCEPT !.checked = TRUE])
         /\ Follows(r, [r EXCEPT !.closing = TRUE])
         /\ Follows(r, [r EXCEPT !.closed = TRUE, !.closing = FALSE])
         /\ Follows(r, [r EXCEPT !.closed = FALSE, !.closing = FALSE])
         /\ Follows(r, [r EXCEPT !.drift = TRUE])
         /\ Follows(r, [r EXCEPT !.race = TRUE])
         /\ Follows(r, [r EXCEPT !.completing = FALSE, !.race = FALSE])
         /\ Follows(r, [r EXCEPT !.completing = TRUE])
         /\ Follows(r, [r EXCEPT !.completing = FALSE, !.race = FALSE, !.done = FALSE])
         /\ Follows(r, [r EXCEPT !.done = TRUE, !.completing = FALSE])
         /\ Follows(r, [r EXCEPT !.tree = FALSE])
         /\ Follows(r, [r EXCEPT !.tree = TRUE])
         /\ Follows(r, [r EXCEPT !.eligible = FALSE])
<1>1. Follows(r, [r EXCEPT !.candidate = TRUE, !.checked = FALSE, !.merged = FALSE, !.verified = FALSE])
  BY DEF Held, Follows, Records, Accepted
<1>2. Follows(r, [r EXCEPT !.checked = FALSE])
  BY DEF Held, Follows, Records, Accepted
<1>3. Follows(r, [r EXCEPT !.checked = TRUE])
  BY DEF Held, Follows, Records, Accepted
<1>4. Follows(r, [r EXCEPT !.closing = TRUE])
  BY DEF Held, Follows, Records, Accepted
<1>5. Follows(r, [r EXCEPT !.closed = TRUE, !.closing = FALSE])
  BY DEF Held, Follows, Records, Accepted
<1>6. Follows(r, [r EXCEPT !.closed = FALSE, !.closing = FALSE])
  BY DEF Held, Follows, Records, Accepted
<1>7. Follows(r, [r EXCEPT !.drift = TRUE])
  BY DEF Held, Follows, Records, Accepted
<1>8. Follows(r, [r EXCEPT !.race = TRUE])
  BY DEF Held, Follows, Records, Accepted
<1>9. Follows(r, [r EXCEPT !.completing = FALSE, !.race = FALSE])
  BY DEF Held, Follows, Records, Accepted
<1>10. Follows(r, [r EXCEPT !.completing = TRUE])
  BY DEF Held, Follows, Records, Accepted
<1>11. Follows(r, [r EXCEPT !.completing = FALSE, !.race = FALSE, !.done = FALSE])
  BY DEF Held, Follows, Records, Accepted
<1>12. Follows(r, [r EXCEPT !.done = TRUE, !.completing = FALSE])
  BY DEF Held, Follows, Records, Accepted
<1>13. Follows(r, [r EXCEPT !.tree = FALSE])
  BY DEF Held, Follows, Records, Accepted
<1>14. Follows(r, [r EXCEPT !.tree = TRUE])
  BY DEF Held, Follows, Records, Accepted
<1>15. Follows(r, [r EXCEPT !.eligible = FALSE])
  BY DEF Held, Follows, Records, Accepted
<1>16. QED
  BY <1>1, <1>2, <1>3, <1>4, <1>5, <1>6, <1>7, <1>8, <1>9, <1>10, <1>11, <1>12, <1>13, <1>14, <1>15

LEMMA TroubleFollows ==
  ASSUME NEW r, Held(r), NEW t \in {"none", "aborted", "quarantined"}
  PROVE  /\ Follows(r, Blocked([r EXCEPT !.trouble = t, !.candidate = TRUE], TRUE))
         /\ Follows(r, Blocked([r EXCEPT !.trouble = t, !.checked = FALSE], TRUE))
<1>1. Follows(r, [r EXCEPT !.trouble = t, !.candidate = TRUE])
  BY DEF Held, Follows, Records, Accepted
<1>2. Follows(r, [r EXCEPT !.trouble = t, !.checked = FALSE])
  BY DEF Held, Follows, Records, Accepted
<1>3. QED
  BY <1>1, <1>2, BlockedFollows DEF Follows

LEMMA ProposedFollows ==
  ASSUME NEW r, Held(r), NEW p \in Phases PROVE Follows(r, [r EXCEPT !.pr = TRUE, !.phase = p])
  BY DEF Held, Follows, Records, Accepted

LEMMA MergedFollows ==
  ASSUME NEW r, Held(r)
  PROVE  /\ r.pr => Follows(r, [r EXCEPT !.merged = TRUE, !.phase = "deploying"])
         /\ r.merged => Follows(r, [r EXCEPT !.verified = TRUE])
  BY DEF Held, Follows, Records, Accepted, Phases

LEMMA ClaimsHeld ==
  ASSUME NEW r, Held(r)
  PROVE  /\ Held([r EXCEPT !.release = TRUE]) /\ Held([r EXCEPT !.release = FALSE])
         /\ Follows(r, [r EXCEPT !.worker = NoClaim])
<1>1. Held([r EXCEPT !.release = TRUE]) /\ Held([r EXCEPT !.release = FALSE])
  BY DEF Held, Records, Accepted
<1>2. [r EXCEPT !.worker = NoClaim] \in Records
  BY DEF Held, Records, NoClaim
<1>3. Follows(r, [r EXCEPT !.worker = NoClaim])
  BY <1>2 DEF Held, Follows, Records, Accepted, NoClaim
<1>4. QED
  BY <1>1, <1>3

LEMMA ProcessedFollows ==
  ASSUME NEW r, Held(r), NEW d \in Decisions
  PROVE  Follows(r, [r EXCEPT !.proc = r.worker.input, !.outcome = d])
  BY DEF Held, Follows, Records, Accepted

LEMMA ReopenedFollows ==
  ASSUME NEW r, Held(r), NEW n \in 0..MaxOwner
  PROVE  /\ Follows(r, [Append1([NewGeneration(r) EXCEPT !.proc = r.input]) EXCEPT !.cursor = n])
         /\ Follows(r, [r EXCEPT !.cursor = n])
<1>1. ASSUME NEW s, Held(s) PROVE Follows(s, [s EXCEPT !.cursor = n]) /\ Follows(s, [s EXCEPT !.proc = s.input])
  BY <1>1 DEF Held, Follows, Records, Accepted
<1>2. NewGeneration(r).input = r.input
  BY DEF NewGeneration, Held, Records
<1>3. Follows(r, [NewGeneration(r) EXCEPT !.proc = r.input])
  BY <1>1, <1>2, NewGenerationFollows DEF Follows
<1>4. QED
  BY <1>1, <1>3, Append1Follows DEF Follows

\* A step that only goes on from the record in memory keeps both of its copies.
Going == Held(rec') /\ Held(disk') /\ rec'.release = rec.release

LEMMA Noting ==
  ASSUME Held(rec), Held(disk)
  PROVE  /\ Still => Going
         /\ \A r : Follows(rec, r) /\ (Save(r) \/ Keep(r)) => Going
  BY DEF Still, Save, Keep, Follows, Going

LEMMA AbandonedGoes == ASSUME Held(rec), Held(disk), Abandoned PROVE Going
  BY BlockedFollows, Noting DEF Abandoned

LEMMA LaneGoes == ASSUME RecordInv, ReleaseLane, ~Select, ~Release PROVE Going
<1>1. Held(rec) /\ Held(disk) /\ rec.pr \in BOOLEAN
  BY DEF RecordInv, Held, Records
<1>2. CASE Guard
  BY <1>1, <1>2, BlockedFollows, Noting DEF Guard, Lane
<1>3. CASE Retry
  BY <1>1, <1>3, RetriedFollows, Noting DEF Retry, Lane, RecordInv
<1>4. CASE AnswerAgain
  BY <1>1, <1>4, AnsweredFollows, Noting DEF AnswerAgain, Lane
<1>5. CASE Validate
  <2>1. ASSUME NEW r, Follows(rec, r), Save(r) PROVE Going
    BY <1>1, <2>1, Noting
  <2>2. CASE Save(Repaired(rec))
    BY <1>1, <2>1, <2>2, RepairedFollows
  <2>3. CASE Save(Blocked(rec, TRUE))
    BY <1>1, <2>1, <2>3, BlockedFollows
  <2>4. CASE \E t \in {"none", "aborted", "quarantined"} :
                Save(Blocked([rec EXCEPT !.trouble = t, !.candidate = TRUE], TRUE))
    BY <1>1, <2>1, <2>4, TroubleFollows
  <2>5. CASE Save([rec EXCEPT !.candidate = TRUE, !.checked = FALSE, !.merged = FALSE, !.verified = FALSE])
    BY <1>1, <2>1, <2>5, NotesFollow
  <2>6. QED
    BY <1>1, <1>5, <2>2, <2>3, <2>4, <2>5, Noting DEF Validate
<1>6. CASE Validated
  BY <1>1, <1>6, Noting DEF Validated, Still
<1>7. CASE Publish
  BY <1>1, <1>7, BlockedFollows, AbandonedGoes, Noting DEF Publish, Current
<1>8. CASE Propose
  BY <1>1, <1>8, BlockedFollows, AbandonedGoes, Noting DEF Propose, Current
<1>9. CASE Proposed
  <2>1. PICK p \in Phases : p = IF rec.phase # "ready-for-pr" THEN rec.phase
                                ELSE IF Pending(rec) THEN "queued" ELSE "pull-request"
    BY <1>1 DEF Held, Records, Phases
  <2>2. Follows(rec, [rec EXCEPT !.pr = TRUE, !.phase = p])
    BY <1>1, ProposedFollows
  <2>3. Keep(Blocked(rec, TRUE)) \/ Save([rec EXCEPT !.pr = TRUE, !.phase = p])
    BY <1>1, <1>9, <2>1 DEF Proposed, Held, Records
  <2>4. QED
    BY <1>1, <2>2, <2>3, BlockedFollows, Noting
<1>10. CASE Checks
  BY <1>1, <1>10, BlockedFollows, AbandonedGoes, NotesFollow, TroubleFollows, RepairedFollows, Noting DEF Checks
<1>11. CASE Checked
  BY <1>1, <1>11, NotesFollow, Noting DEF Checked
<1>12. CASE Merge
  BY <1>1, <1>12, PhaseFollows, BlockedFollows, AbandonedGoes, Noting DEF Merge, Overtaken, Phases
<1>13. CASE Merged
  BY <1>1, <1>13, MergedFollows, AbandonedGoes, Noting DEF Merged
<1>14. CASE Deploy
  BY <1>1, <1>14, BlockedFollows, Noting DEF Deploy
<1>15. CASE Deployed
  BY <1>1, <1>15, MergedFollows, Noting DEF Deployed
<1>16. CASE Finalize
  BY <1>1, <1>16, BlockedFollows, Noting DEF Finalize, Refresh
<1>17. CASE Follow
  BY <1>1, <1>17, NewGenerationFollows, Noting DEF Follow
<1>18. CASE Resolve
  BY <1>1, <1>18, BlockedFollows, Noting DEF Resolve, Refresh, LateFrom
<1>19. CASE Close
  BY <1>1, <1>19, NotesFollow, Noting DEF Close, Fresh, LateFrom
<1>20. CASE Patch
  BY <1>1, <1>20, Noting DEF Patch
<1>21. CASE Patched
  BY <1>1, <1>21, NotesFollow, Noting DEF Patched
<1>22. CASE CompleteTodo
  BY <1>1, <1>22, NotesFollow, Noting DEF CompleteTodo, Fresh, LateFrom, Refresh, Confirm, Complete, Restore, Lost, ReopenItem, Restored, Drifted
<1>23. CASE Terminate
  BY <1>1, <1>23, NotesFollow, PhaseFollows, Noting DEF Terminate, Tidy, Fresh, LateFrom, Confirm, Lost, Refresh, Phases
<1>24. CASE LateOwnerInput
  <2>1. CASE Late \/ LateItem \/ LateIssue \/ LateStart
    BY <1>1, <2>1, NotesFollow, NewGenerationFollows, Noting DEF Late, LateItem, LateIssue, LateStart, ReopenItem
  <2>2. CASE LateInput
    <3>1. PICK p \in Phases : p = IF rec.merged THEN "deploying" ELSE "queued"
      BY DEF Phases
    <3>2. Still \/ Save([rec EXCEPT !.phase = p])
      BY <2>2, <3>1 DEF LateInput
    <3>3. QED
      BY <1>1, <3>2, PhaseFollows, Noting
  <2>3. QED
    BY <1>24, <2>1, <2>2 DEF LateOwnerInput
<1>25. QED
  BY <1>2, <1>3, <1>4, <1>5, <1>6, <1>7, <1>8, <1>9, <1>10, <1>11, <1>12, <1>13, <1>14, <1>15, <1>16, <1>17, <1>18, <1>19, <1>20, <1>21, <1>22, <1>23, <1>24 DEF ReleaseLane

\* The claim is taken when the lane starts on the issue, and given up when it has ended.
LEMMA LaneClaims ==
  ASSUME RecordInv, Select \/ Release
  PROVE  Held(rec') /\ Held(disk') /\ (rel' \notin {"idle", "select"} => rec'.release)
<1>1. Held(rec) /\ Held(disk)
  BY DEF RecordInv
<1>2. ASSUME NEW r, Held(r), NEW pc, Claim(r, pc) PROVE Held(rec') /\ Held(disk') /\ rec'.release
  <2>1. [r EXCEPT !.release = TRUE].release
    BY <1>2 DEF Held, Records
  <2>2. QED
    BY <1>2, <2>1, ClaimsHeld DEF Claim, Save
<1>3. CASE Release
  BY <1>1, <1>3, ClaimsHeld DEF Release, Save
<1>4. CASE Select
  <2>1. Held(Answering(rec))
    BY <1>1, AnsweringFollows DEF Follows
  <2>2. QED
    BY <1>1, <1>2, <1>4, <2>1 DEF Select, Still
<1>5. QED
  BY <1>3, <1>4

\* Only the intake itself moves the cursor.
LEMMA CommandedCursor == ASSUME NEW r, Held(r), NEW command PROVE Commanded(r, command).cursor = r.cursor
<1>1. /\ Append1(r).cursor = r.cursor /\ Requeue(r).cursor = r.cursor
      /\ NewGeneration(r).cursor = r.cursor
  BY DEF Append1, Requeue, NewGeneration, Held, Records
<1>2. Noted(r).cursor = r.cursor
  <2>1. Held(Append1(r))
    BY Append1Follows DEF Follows
  <2>2. Requeue(Append1(r)).cursor = r.cursor /\ NewGeneration(Append1(r)).cursor = r.cursor
    BY <1>1, <2>1 DEF Requeue, NewGeneration, Held, Records
  <2>3. QED
    BY <2>2 DEF Noted
<1>3. Retried(r, TRUE).cursor = r.cursor
  BY DEF Retried, Append1, NewGeneration, Held, Records
<1>4. Append1([NewGeneration(r) EXCEPT !.retries = 0, !.eligible = FALSE]).cursor = r.cursor
  BY DEF Append1, NewGeneration, Held, Records
<1>5. QED
  BY <1>2, <1>3, <1>4 DEF Commanded

-----------------------------------------------------------------------------
(* The worker, the supervisor and the intake.                               *)
WorkerMoves ==
    /\ UNCHANGED <<todo, intake, sup, rel, hub, asked, faults>>
    /\ Asks("worker", worker.pc \in {"idle", "refresh"}, worker'.pc = "refresh")

LEMMA WorkerActionMoves == ASSUME TypeOK, Worker PROVE WorkerMoves
<1>1. worker \in [pc : {"idle", "prepare", "run", "refresh", "answer", "finish", "failed"},
                  why : {"none", "provenance", "deferred", "failed"}]
  BY DEF TypeOK
<1>2. CASE Prepare
  <2>1. worker'.pc \in {"finish", "run"}
    BY <1>1, <1>2 DEF Prepare, WorkerTo, WorkerEnds
  <2>2. QED
    BY <1>2, <2>1 DEF WorkerMoves, Asks, Prepare, Working, Quiet, bounds
<1>3. CASE Run
  <2>1. (worker'.pc = "finish" /\ UNCHANGED queue) \/ (worker'.pc = "refresh" /\ Call("worker"))
    <3>1. (WorkerEnds("provenance") /\ UNCHANGED queue) \/ (WorkerTo("refresh") /\ Call("worker"))
      BY <1>3 DEF Run
    <3>2. QED
      BY <1>1, <3>1 DEF WorkerTo, WorkerEnds
  <2>2. QED
    BY <1>3, <2>1 DEF WorkerMoves, Asks, Run, Working, Quiet, bounds
<1>4. CASE Refreshed
  <2>1. worker'.pc \in {"finish", "answer"}
    BY <1>1, <1>4 DEF Refreshed, WorkerTo, WorkerEnds
  <2>2. QED
    BY <1>4, <2>1 DEF WorkerMoves, Asks, Refreshed, bounds
<1>5. CASE Answer
  BY <1>1, <1>5 DEF WorkerMoves, Asks, Answer, Working, WorkerTo, WorkerEnds, Quiet, bounds
<1>6. CASE Finish
  BY <1>1, <1>6 DEF WorkerMoves, Asks, Finish, Working, Quiet, bounds
<1>7. CASE HandleWorkerError
  BY <1>1, <1>7 DEF WorkerMoves, Asks, HandleWorkerError, Working, Quiet, bounds
<1>8. QED
  BY <1>2, <1>3, <1>4, <1>5, <1>6, <1>7 DEF Worker

LEMMA WorkerGoes == ASSUME RecordInv, Worker PROVE Going
<1>1. Held(rec) /\ Held(disk)
  BY DEF RecordInv
<1>2. CASE Prepare
  BY <1>1, <1>2, NotesFollow, Noting DEF Prepare
<1>3. CASE Run
  BY <1>1, <1>3, ProcessedFollows, Noting DEF Run
<1>4. CASE Refreshed
  <2>1. PICK p \in Phases : p = IF rec.outcome = "ready" THEN "ready-for-pr" ELSE "resolving"
    BY DEF Phases
  <2>2. \/ Still \/ Save([rec EXCEPT !.phase = "queued"]) \/ Save(rec) \/ Save([rec EXCEPT !.phase = p])
        \/ Keep([rec EXCEPT !.eligible = FALSE]) \/ Keep(rec)
    BY <1>4, <2>1 DEF Refreshed
  <2>3. Follows(rec, rec)
    BY <1>1 DEF Follows
  <2>4. QED
    BY <1>1, <2>2, <2>3, PhaseFollows, NotesFollow, Noting DEF Phases
<1>5. CASE Answer
  BY <1>1, <1>5, AnsweredFollows, Noting DEF Answer
<1>6. CASE Finish
  BY <1>1, <1>6, ClaimsHeld, Noting DEF Finish
<1>7. CASE HandleWorkerError
  <2>1. Follows(rec, rec)
    BY <1>1 DEF Follows
  <2>2. Save([rec EXCEPT !.phase = "queued"]) \/ Save(rec) \/ Save(Failed(rec))
    BY <1>7 DEF HandleWorkerError
  <2>3. QED
    BY <1>1, <2>1, <2>2, PhaseFollows, FailedFollows, Noting DEF Phases
<1>8. QED
  BY <1>2, <1>3, <1>4, <1>5, <1>6, <1>7 DEF Worker

\* The intake takes what was said, and answers whoever is first.
IntakeMoves ==
    /\ UNCHANGED <<todo, sup, worker, rel, asked>> /\ hub'.said = hub.said
    /\ Quiet /\ queue # <<>>
    /\ \/ UNCHANGED <<queue, turn>> /\ intake'.pc # "idle"
       \/ \E ok \in BOOLEAN : Return(ok)

LEMMA IntakeActionMoves == ASSUME TypeOK, QueueInv, Intake \/ IntakeFails PROVE IntakeMoves
<1>1. \A pc, text : [Idle EXCEPT !.pc = pc, !.text = text].pc = pc
  BY DEF Idle
<1>2. \A pc : [intake EXCEPT !.pc = pc].pc = pc
  BY DEF TypeOK
<1>3. intake.pc # "idle" => queue # <<>>
  BY DEF QueueInv
<1>4. \A r, h : Superseded(r, h) = h \/ Superseded(r, h) = [h EXCEPT !.pr = "none"]
  BY DEF Superseded
<1>5. [hub EXCEPT !.pr = "none"].said = hub.said
  BY DEF TypeOK
<1>6. CASE ReadTodo
  BY <1>1, <1>6 DEF ReadTodo, In, IntakeMoves, bounds
<1>7. CASE TakeEdit
  BY <1>2, <1>3, <1>7 DEF TakeEdit, In, IntakeMoves, bounds
<1>8. CASE ListIssues
  <2>1. \A pc, open : [intake EXCEPT !.pc = pc, !.open = open].pc = pc
    BY DEF TypeOK
  <2>2. QED
    BY <1>3, <1>8, <2>1 DEF ListIssues, In, IntakeMoves, bounds
<1>9. CASE ReadIssue
  <2>1. intake'.pc \in {"reopened", "comments"}
    BY <1>9 DEF ReadIssue, TypeOK
  <2>2. QED
    BY <1>3, <1>9, <2>1 DEF ReadIssue, In, IntakeMoves, bounds
<1>10. CASE Reopened
  BY <1>3, <1>4, <1>5, <1>10 DEF Reopened, In, IntakeMoves, bounds
<1>11. CASE TakeComment
  BY <1>3, <1>4, <1>5, <1>11 DEF TakeComment, In, IntakeMoves, bounds, serial
<1>12. CASE TakeClose
  BY <1>3, <1>12 DEF TakeClose, In, IntakeMoves, bounds
<1>13. CASE IntakeFails
  BY <1>3, <1>13 DEF IntakeFails, IntakeMoves
<1>14. QED
  BY <1>6, <1>7, <1>8, <1>9, <1>10, <1>11, <1>12, <1>13 DEF Intake

LEMMA IntakeGoes == ASSUME RecordInv, Intake \/ IntakeFails PROVE Going
<1>1. Held(rec) /\ Held(disk) /\ intake.said \in 0..MaxOwner /\ intake.text \in Texts
  BY DEF RecordInv, TypeOK
<1>2. Follows(rec, rec)
  BY <1>1 DEF Follows
<1>3. CASE ReadTodo \/ ListIssues \/ ReadIssue \/ IntakeFails
  BY <1>1, <1>3, Noting DEF ReadTodo, ListIssues, ReadIssue, IntakeFails
<1>4. CASE TakeEdit
  BY <1>1, <1>4, EditedFollows, Noting DEF TakeEdit
<1>5. CASE Reopened
  BY <1>1, <1>5, ReopenedFollows, Noting DEF Reopened
<1>6. CASE TakeComment
  <2>1. PICK r, command : /\ r = [Commanded(rec, command) EXCEPT !.cursor = @ + 1]
                          /\ Save(r) \/ Keep(r)
    BY <1>6 DEF TakeComment
  <2>2. Follows(rec, Commanded(rec, command)) /\ Commanded(rec, command).cursor = rec.cursor
    BY <1>1, CommandedFollows, CommandedCursor
  <2>3. PICK n \in 0..MaxOwner : n = rec.cursor + 1
    BY <1>1, <1>6, ControllerConstants DEF TakeComment, Held, Records
  <2>4. r = [Commanded(rec, command) EXCEPT !.cursor = n]
    BY <2>1, <2>2, <2>3
  <2>5. Follows(rec, r)
    BY <2>2, <2>4, ReopenedFollows DEF Follows
  <2>6. QED
    BY <1>1, <2>1, <2>5, Noting
<1>7. CASE TakeClose
  BY <1>1, <1>2, <1>7, ClosedIssueFollows, Noting DEF TakeClose
<1>8. QED
  BY <1>3, <1>4, <1>5, <1>6, <1>7 DEF Intake

-----------------------------------------------------------------------------
(* The types of everything but the record.                                  *)
Todos == [text : Texts, done : BOOLEAN]
Hubs == [issue : {"open", "closed"}, said : Seq(Commands), pr : {"none", "open", "merged"},
         marked : BOOLEAN, resolved : Nat]
Intakes == [pc : {"idle", "edited", "list", "read", "reopened", "comments"}, text : Texts,
            open : BOOLEAN, window : BOOLEAN, said : 0..MaxOwner, marked : BOOLEAN, resolved : Nat]
Workers == [pc : {"idle", "prepare", "run", "refresh", "answer", "finish", "failed"},
            why : {"none", "provenance", "deferred", "failed"}]
Turns == [who : Callers \cup {"nobody"}, said : Nat, ok : BOOLEAN]

Shape ==
    /\ todo \in Todos /\ hub \in Hubs /\ intake \in Intakes /\ queue \in Seq(Calls) /\ turn \in Turns
    /\ sup \in {"sleep", "intake"} /\ rel \in Lanes /\ worker \in Workers
    /\ asked \in 0..MaxOwner /\ faults \in 0..MaxFaults

LEMMA Shapes == TypeOK <=> rec \in Records /\ Accepted(rec) /\ disk \in Records /\ Accepted(disk) /\ Shape
  BY DEF TypeOK, Shape, Todos, Hubs, Intakes, Workers, Turns

LEMMA SupersededHubs == ASSUME hub \in Hubs, NEW r PROVE Superseded(r, hub) \in Hubs
  BY DEF Superseded, Hubs

LEMMA LaneTodo == ASSUME Shape, ReleaseLane PROVE todo' \in Todos
<1>1. CASE Select \/ Guard \/ Retry \/ AnswerAgain \/ Release \/ Validate \/ Validated \/ Publish \/ Propose \/ Proposed \/ Checks \/ Checked \/ Merge \/ Merged \/ Deploy \/ Deployed \/ Finalize \/ Follow \/ Resolve \/ Close \/ Patch \/ Patched
  BY <1>1 DEF Shape, Select, Guard, Retry, AnswerAgain, Release, Validate, Validated, Publish, Propose, Proposed, Checks, Checked, Merge, Overtaken, Merged, Deploy, Deployed, Finalize, Follow, Resolve, Close, Patch, Patched, Fresh
<1>2. CASE CompleteTodo
  BY <1>2 DEF Shape, Todos, CompleteTodo, Fresh, Confirm, Complete, Restore, ReopenItem, Restored, Drifted
<1>3. CASE Terminate
  BY <1>3 DEF Shape, Terminate, Tidy, Fresh, Confirm
<1>4. CASE LateOwnerInput
  BY <1>4 DEF Shape, Todos, LateOwnerInput, Late, LateItem, LateInput, LateIssue, LateStart, ReopenItem
<1>5. QED
  BY <1>1, <1>2, <1>3, <1>4 DEF ReleaseLane

LEMMA LaneHub == ASSUME Shape, rec \in Records, ReleaseLane PROVE hub' \in Hubs
<1>1. hub \in Hubs /\ rec.proc \in Nat /\ \A r : Superseded(r, hub) \in Hubs
  BY SupersededHubs DEF Shape, Records
<1>2. CASE Select
  BY <1>1, <1>2 DEF Select
<1>3. CASE Guard
  BY <1>1, <1>3 DEF Guard
<1>4. CASE Retry
  BY <1>1, <1>4 DEF Retry
<1>5. CASE AnswerAgain
  BY <1>1, <1>5 DEF AnswerAgain
<1>6. CASE Release
  BY <1>1, <1>6 DEF Release
<1>7. CASE Validate
  BY <1>1, <1>7 DEF Validate
<1>8. CASE Validated
  BY <1>1, <1>8 DEF Validated
<1>9. CASE Publish
  BY <1>1, <1>9 DEF Publish
<1>10. CASE Propose
  BY <1>1, <1>10 DEF Propose, Hubs
<1>11. CASE Proposed
  BY <1>1, <1>11 DEF Proposed
<1>12. CASE Checks
  BY <1>1, <1>12 DEF Checks
<1>13. CASE Checked
  BY <1>1, <1>13 DEF Checked
<1>14. CASE Merge
  BY <1>1, <1>14 DEF Merge, Overtaken, Hubs
<1>15. CASE Merged
  BY <1>1, <1>15 DEF Merged
<1>16. CASE Deploy
  BY <1>1, <1>16 DEF Deploy
<1>17. CASE Deployed
  BY <1>1, <1>17 DEF Deployed
<1>18. CASE Finalize
  BY <1>1, <1>18 DEF Finalize, Hubs
<1>19. CASE Follow
  BY <1>1, <1>19 DEF Follow
<1>20. CASE Resolve
  BY <1>1, <1>20 DEF Resolve, Hubs
<1>21. CASE Close
  BY <1>1, <1>21 DEF Close, Fresh
<1>22. CASE Patch
  BY <1>1, <1>22 DEF Patch, Hubs
<1>23. CASE Patched
  BY <1>1, <1>23 DEF Patched
<1>24. CASE CompleteTodo
  BY <1>1, <1>24 DEF CompleteTodo, Fresh, Confirm, Complete, Restore, ReopenItem, Restored, Drifted
<1>25. CASE Terminate
  BY <1>1, <1>25 DEF Terminate, Tidy, Fresh, Confirm
<1>26. CASE LateOwnerInput
  BY <1>1, <1>26 DEF LateOwnerInput, Hubs, Late, LateItem, LateInput, LateIssue, LateStart, ReopenItem
<1>27. QED
  BY <1>2, <1>3, <1>4, <1>5, <1>6, <1>7, <1>8, <1>9, <1>10, <1>11, <1>12, <1>13, <1>14, <1>15, <1>16, <1>17, <1>18, <1>19, <1>20, <1>21, <1>22, <1>23, <1>24, <1>25, <1>26 DEF ReleaseLane

LEMMA LaneRel == ASSUME ReleaseLane PROVE rel' \in Lanes
<1>1. CASE Select
  BY <1>1 DEF Select, Claim, Entry, Lanes, Waits
<1>2. CASE Guard
  BY <1>2 DEF Guard, Lanes, Waits
<1>3. CASE Retry
  BY <1>3 DEF Retry, Lanes, Waits
<1>4. CASE AnswerAgain
  BY <1>4 DEF AnswerAgain, Lanes, Waits
<1>5. CASE Release
  BY <1>5 DEF Release, Lanes, Waits
<1>6. CASE Validate
  BY <1>6 DEF Validate, Lanes, Waits
<1>7. CASE Validated
  BY <1>7 DEF Validated, Lanes, Waits
<1>8. CASE Publish
  BY <1>8 DEF Publish, Current, Lanes, Waits
<1>9. CASE Propose
  BY <1>9 DEF Propose, Current, Lanes, Waits
<1>10. CASE Proposed
  BY <1>10 DEF Proposed, Lanes, Waits
<1>11. CASE Checks
  BY <1>11 DEF Checks, Lanes, Waits
<1>12. CASE Checked
  BY <1>12 DEF Checked, Lanes, Waits
<1>13. CASE Merge
  BY <1>13 DEF Merge, Overtaken, Lanes, Waits
<1>14. CASE Merged
  BY <1>14 DEF Merged, Lanes, Waits
<1>15. CASE Deploy
  BY <1>15 DEF Deploy, Lanes, Waits
<1>16. CASE Deployed
  BY <1>16 DEF Deployed, Lanes, Waits
<1>17. CASE Finalize
  BY <1>17 DEF Finalize, Refresh, Lanes, Waits
<1>18. CASE Follow
  BY <1>18 DEF Follow, Lanes, Waits
<1>19. CASE Resolve
  BY <1>19 DEF Resolve, Refresh, LateFrom, Lanes, Waits
<1>20. CASE Close
  BY <1>20 DEF Close, Fresh, LateFrom, Lanes, Waits
<1>21. CASE Patch
  BY <1>21 DEF Patch, Lanes, Waits
<1>22. CASE Patched
  BY <1>22 DEF Patched, Lanes, Waits
<1>23. CASE CompleteTodo
  BY <1>23 DEF CompleteTodo, Fresh, LateFrom, Refresh, Confirm, Complete, Restore, Lost, ReopenItem, Restored, Drifted, Lanes, Waits
<1>24. CASE Terminate
  BY <1>24 DEF Terminate, Tidy, Fresh, LateFrom, Confirm, Lost, Refresh, Lanes, Waits
<1>25. CASE LateOwnerInput
  BY <1>25 DEF LateOwnerInput, Late, LateItem, LateInput, LateIssue, LateStart, ReopenItem, Lanes, Waits
<1>26. QED
  BY <1>1, <1>2, <1>3, <1>4, <1>5, <1>6, <1>7, <1>8, <1>9, <1>10, <1>11, <1>12, <1>13, <1>14, <1>15, <1>16, <1>17, <1>18, <1>19, <1>20, <1>21, <1>22, <1>23, <1>24, <1>25 DEF ReleaseLane

Owners == EditTodo \/ Comment \/ CloseIssue \/ ReopenIssue

LEMMA CallShape == ASSUME Shape, NEW c \in Callers, Call(c) PROVE queue' \in Seq(Calls)
<1>1. [who |-> c, said |-> Len(hub.said)] \in Calls
  BY DEF Shape, Hubs, Calls
<1>2. QED
  BY <1>1 DEF Call, Shape

LEMMA ReturnShape ==
  ASSUME Shape, queue # <<>>, NEW ok \in BOOLEAN, Return(ok)
  PROVE  queue' \in Seq(Calls) /\ turn' \in Turns /\ intake' \in Intakes
<1>1. Head(queue) \in Calls /\ Tail(queue) \in Seq(Calls)
  BY DEF Shape
<1>2. Idle \in Intakes
  BY ControllerConstants DEF Idle, Intakes
<1>3. turn' \in Turns
  BY <1>1 DEF Return, Turns, Calls
<1>4. QED
  BY <1>1, <1>2, <1>3 DEF Return

LEMMA NobodyTurns == Nobody \in Turns
  BY DEF Nobody, Turns

LEMMA LaneShape == ASSUME TypeOK, ReleaseLane PROVE Shape'
<1>1. Shape /\ rec \in Records /\ LaneMoves
  BY Shapes, ReleaseLaneMoves
<1>2. queue' \in Seq(Calls)
  BY <1>1, CallShape DEF Callers, LaneMoves, Asks, Shape
<1>3. turn' \in Turns
  BY <1>1, NobodyTurns DEF LaneMoves, Asks, Shape
<1>4. QED
  BY <1>1, <1>2, <1>3, LaneTodo, LaneHub, LaneRel DEF Shape, LaneMoves

LEMMA WorkerShape == ASSUME TypeOK, Worker PROVE Shape'
<1>1. Shape /\ WorkerMoves
  BY Shapes, WorkerActionMoves
<1>2. queue' \in Seq(Calls)
  BY <1>1, CallShape DEF Callers, WorkerMoves, Asks, Shape
<1>3. turn' \in Turns
  BY <1>1, NobodyTurns DEF WorkerMoves, Asks, Shape
<1>4. worker' \in Workers
  <2>1. worker \in Workers
    BY <1>1 DEF Shape
  <2>2. CASE Run \/ Answer \/ Finish \/ HandleWorkerError
    <3>1. CASE Run
      <4>1. WorkerEnds("provenance") \/ WorkerTo("refresh")
        BY <3>1 DEF Run
      <4>2. QED
        BY <2>1, <4>1 DEF WorkerTo, WorkerEnds, Workers
    <3>2. CASE Answer
      BY <3>2 DEF Answer, WorkerEnds, Workers
    <3>3. CASE Finish \/ HandleWorkerError
      BY <2>1, <3>3 DEF Finish, HandleWorkerError, Workers
    <3>4. QED
      BY <2>2, <3>1, <3>2, <3>3
  <2>3. CASE Prepare
    BY <2>1, <2>3 DEF Prepare, WorkerTo, WorkerEnds, Workers
  <2>4. CASE Refreshed
    BY <2>1, <2>4 DEF Refreshed, WorkerTo, WorkerEnds, Workers
  <2>5. QED
    BY <2>2, <2>3, <2>4 DEF Worker
<1>5. QED
  BY <1>1, <1>2, <1>3, <1>4 DEF Shape, WorkerMoves

LEMMA IntakeShape == ASSUME TypeOK, QueueInv, Intake \/ IntakeFails, Len(hub.said) <= MaxOwner PROVE Shape'
<1>1. Shape /\ IntakeMoves /\ hub \in Hubs /\ intake \in Intakes /\ todo \in Todos
  BY Shapes, IntakeActionMoves DEF Shape
<1>2. queue' \in Seq(Calls) /\ turn' \in Turns
  BY <1>1, ReturnShape DEF IntakeMoves, Shape
<1>3. hub' \in Hubs
  BY <1>1, SupersededHubs DEF Intake, ReadTodo, TakeEdit, ListIssues, ReadIssue, Reopened, TakeComment, TakeClose,
     IntakeFails, In
<1>4. faults' \in 0..MaxFaults
  <2>1. faults' = faults \/ (faults < MaxFaults /\ faults' = faults + 1)
    BY DEF Intake, ReadTodo, TakeEdit, ListIssues, ReadIssue, Reopened, TakeComment, TakeClose, IntakeFails, In, bounds
  <2>2. QED
    BY <1>1, <2>1, ControllerConstants DEF Shape
<1>5. intake' \in Intakes
  <2>1. CASE \E ok \in BOOLEAN : Return(ok)
    BY <1>1, <2>1, ReturnShape DEF IntakeMoves
  <2>2. CASE ReadTodo
    <3>1. \A pc \in {"list", "edited"} : [Idle EXCEPT !.pc = pc, !.text = todo.text] \in Intakes
      <4>1. Idle \in Intakes
        BY ControllerConstants DEF Idle, Intakes
      <4>2. QED
        BY <1>1, <4>1 DEF Intakes, Todos
    <3>2. QED
      BY <2>2, <3>1 DEF ReadTodo
  <2>3. CASE TakeEdit
    BY <1>1, <2>3 DEF TakeEdit, Intakes
  <2>4. CASE ListIssues
    <3>1. \A open \in BOOLEAN : [intake EXCEPT !.pc = "read", !.open = open] \in Intakes
      BY <1>1 DEF Intakes
    <3>2. Return(TRUE) \/ \E open \in BOOLEAN : intake' = [intake EXCEPT !.pc = "read", !.open = open]
      BY <2>4, Zenon DEF ListIssues
    <3>3. QED
      BY <2>1, <3>1, <3>2
  <2>5. CASE ReadIssue
    <3>1. ASSUME NEW pc \in {"reopened", "comments"}, NEW open \in BOOLEAN, NEW window \in BOOLEAN,
                 NEW marked \in BOOLEAN, NEW resolved \in Nat, NEW said \in 0..MaxOwner
          PROVE  [intake EXCEPT !.pc = pc, !.open = open, !.window = window, !.said = said, !.marked = marked,
                                !.resolved = resolved] \in Intakes
      BY <1>1 DEF Intakes
    <3>2. Len(hub.said) \in 0..MaxOwner /\ hub.marked \in BOOLEAN /\ hub.resolved \in Nat
      BY <1>1 DEF Hubs
    <3>3. PICK open \in BOOLEAN, window \in BOOLEAN, pc \in {"reopened", "comments"} :
             intake' = [intake EXCEPT !.pc = pc, !.open = open, !.window = window,
                                      !.said = Len(hub.said), !.marked = hub.marked, !.resolved = hub.resolved]
      <4> DEFINE o == intake.open \/ hub.issue = "open"
                 w == o \/ rec.closed \/ rec.closing
                 p == IF o /\ rec.phase = "paused" THEN "reopened" ELSE "comments"
      <4>1. intake' = [intake EXCEPT !.pc = p, !.open = o, !.window = w,
                                     !.said = Len(hub.said), !.marked = hub.marked, !.resolved = hub.resolved]
        BY <2>5 DEF ReadIssue
      <4>2. o \in BOOLEAN /\ w \in BOOLEAN /\ p \in {"reopened", "comments"}
        OBVIOUS
      <4>3. QED
        BY <4>1, <4>2, Zenon
    <3>4. QED
      BY <3>1, <3>2, <3>3
  <2>6. CASE TakeComment
    BY <1>1, <2>6 DEF TakeComment, serial
  <2>7. CASE Reopened \/ TakeClose \/ IntakeFails
    BY <2>1, <2>7 DEF Reopened, TakeClose, IntakeFails
  <2>8. QED
    BY <2>2, <2>3, <2>4, <2>5, <2>6, <2>7 DEF Intake
<1>6. QED
  BY <1>1, <1>2, <1>3, <1>4, <1>5 DEF IntakeMoves, Shape

LEMMA OthersShape == ASSUME TypeOK, Tick \/ Admit \/ WorkerFails \/ LaneFails \/ Restart \/ Owners PROVE Shape'
<1>1. Shape
  BY Shapes
<1>2. [pc |-> "idle", why |-> "none"] \in Workers /\ Idle \in Intakes
  BY ControllerConstants DEF Idle, Intakes, Workers
<1>3. CASE Tick
  BY <1>1, <1>3, CallShape DEF Tick, Shape, Callers, bounds
<1>4. CASE Admit
  <2>1. worker' \in Workers
    BY <1>1, <1>4 DEF Admit, Shape, Workers
  <2>2. rel' \in Lanes
    BY <1>1, <1>4 DEF Admit, Shape, Lanes
  <2>3. QED
    BY <1>1, <1>4, <2>1, <2>2, NobodyTurns DEF Admit, Shape, bounds
<1>5. CASE WorkerFails
  BY <1>1, <1>5, ControllerConstants DEF WorkerFails, Shape, Workers, WorkerEnds, serial
<1>6. CASE LaneFails
  BY <1>1, <1>6, ControllerConstants DEF LaneFails, Shape, Lanes, serial
<1>7. CASE Restart
  BY <1>1, <1>2, <1>7, NobodyTurns, ControllerConstants DEF Restart, Shape, Lanes
<1>8. CASE Owners
  <2>1. PICK t, h : Owner(t, h) /\ t \in Todos /\ h \in Hubs
    <3>1. todo \in Todos /\ hub \in Hubs
      BY <1>1 DEF Shape
    <3>2. CASE EditTodo
      BY <3>1, <3>2 DEF EditTodo, Todos
    <3>3. CASE Comment
      <4>1. PICK c \in Commands : Owner(todo, [hub EXCEPT !.said = Append(@, c)])
        BY <3>3 DEF Comment
      <4>2. Append(hub.said, c) \in Seq(Commands)
        BY <3>1 DEF Hubs
      <4>3. [hub EXCEPT !.said = Append(@, c)] \in Hubs
        BY <3>1, <4>2 DEF Hubs
      <4>4. QED
        BY <3>1, <4>1, <4>3
    <3>4. CASE CloseIssue \/ ReopenIssue
      BY <3>1, <3>4 DEF CloseIssue, ReopenIssue, Hubs
    <3>5. QED
      BY <1>8, <3>2, <3>3, <3>4 DEF Owners
  <2>2. QED
    BY <1>1, <2>1, ControllerConstants DEF Owner, Shape, serial
<1>9. QED
  BY <1>3, <1>4, <1>5, <1>6, <1>7, <1>8

-----------------------------------------------------------------------------
(* What the intake may do to a record that another activity is at work on.  *)
Taken(r, s) ==
    /\ s.retries \in {r.retries, 0} /\ s.trouble \in {r.trouble, "none"}
    /\ s.candidate => r.candidate
    /\ s.proc = r.proc \/ (r.candidate /\ Pending(s))
    /\ (s.merged = r.merged /\ s.verified = r.verified) \/ Pending(s)
    /\ Pending(r) => Pending(s)

\* Nor is a merged release without trouble set aside by what is said.
Unshaken(r, s) ==
    r.trouble = "none" /\ r.merged =>
        /\ s.merged = r.merged /\ s.verified = r.verified
        /\ s.closing = r.closing /\ s.closed = r.closed
        /\ r.phase # "paused" => s.phase # "paused"

LEMMA Append1Taken == ASSUME NEW r, Held(r) PROVE Taken(r, Append1(r)) /\ Unshaken(r, Append1(r))
  BY DEF Held, Records, Accepted, Taken, Unshaken, Append1, Pending

LEMMA RequeueTaken == ASSUME NEW r, Held(r) PROVE Taken(r, Requeue(r)) /\ Unshaken(r, Requeue(r))
  BY DEF Held, Records, Accepted, Taken, Unshaken, Requeue, Pending

\* A new generation keeps its inputs and forgets the rest; one that was given input is unprocessed.
LEMMA RenewedFields ==
  ASSUME NEW r, Held(r), NEW n, n = NewGeneration(r)
  PROVE  /\ Held(n) /\ n.input = r.input /\ n.proc = r.proc /\ n.retries = r.retries
         /\ n.trouble = "none" /\ n.candidate = FALSE
<1>1. Held(n)
  BY NewGenerationFollows DEF Follows
<1>2. n.input = r.input /\ n.proc = r.proc /\ n.retries = r.retries /\ n.trouble = "none" /\ n.candidate = FALSE
  BY DEF NewGeneration, Held, Records
<1>3. QED
  BY <1>1, <1>2

LEMMA Append1Fields ==
  ASSUME NEW r, Held(r), NEW s, s = Append1(r)
  PROVE  /\ Held(s) /\ s.input = r.input + 1 /\ s.proc = r.proc /\ s.retries = r.retries
         /\ s.trouble = r.trouble /\ s.candidate = r.candidate /\ Pending(s)
<1>1. Held(s)
  BY Append1Follows DEF Follows
<1>2. QED
  BY <1>1 DEF Append1, Held, Records, Accepted, Pending

LEMMA RenewedTaken ==
  ASSUME NEW r, Held(r)
  PROVE  Taken(r, Append1(NewGeneration(r)))
         /\ Taken(r, Append1([NewGeneration(r) EXCEPT !.retries = 0, !.eligible = FALSE]))
<1>1. PICK n : n = NewGeneration(r)
  OBVIOUS
<1>2. /\ Held(n) /\ n.input = r.input /\ n.proc = r.proc /\ n.retries = r.retries
      /\ n.trouble = "none" /\ n.candidate = FALSE
  BY <1>1, RenewedFields
<1>3. Taken(r, Append1(n))
  BY <1>2, Append1Fields DEF Taken
<1>4. PICK m : m = [n EXCEPT !.retries = 0, !.eligible = FALSE]
  OBVIOUS
<1>5. m.proc = n.proc /\ m.retries = 0 /\ m.trouble = "none" /\ m.candidate = FALSE /\ m.input = n.input
  BY <1>2, <1>4 DEF Held, Records
<1>6. PICK t : t = Append1(m)
  OBVIOUS
<1>7. /\ t.proc = m.proc /\ t.retries = m.retries /\ t.trouble = m.trouble /\ t.candidate = m.candidate
      /\ t.input = m.input + 1
  BY <1>2, <1>4, <1>6 DEF Append1, Held, Records
<1>8. Taken(r, t)
  BY <1>2, <1>5, <1>7 DEF Taken, Pending, Held, Records, Accepted
<1>9. QED
  BY <1>1, <1>3, <1>4, <1>6, <1>8

LEMMA EditedTaken ==
  ASSUME NEW r, Held(r), NEW text \in Texts PROVE Taken(r, Edited(r, text)) /\ Unshaken(r, Edited(r, text))
<1>1. PICK s : s = [r EXCEPT !.text = text, !.texts = @ \cup {text}]
  OBVIOUS
<1>2. Taken(r, s) /\ Unshaken(r, s) /\ Held(s)
  BY <1>1 DEF Held, Records, Accepted, Taken, Unshaken, Pending
<1>3. Held(Append1(s))
  BY <1>2, Append1Follows DEF Follows
<1>4. \A p, q, t : Taken(p, q) /\ Taken(q, t) => Taken(p, t)
  BY DEF Taken
<1>5. ASSUME NEW p, NEW q, NEW t, Held(p), Held(q), Unshaken(p, q), Unshaken(q, t), Taken(p, q)
      PROVE  Unshaken(p, t)
  BY <1>5 DEF Unshaken, Taken, Held, Records
<1>6. Edited(r, text) \in {Requeue(s), Requeue(Append1(s))}
  BY <1>1 DEF Edited
<1>7. Unshaken(r, Requeue(s)) /\ Taken(r, Requeue(s))
  BY <1>2, <1>4, <1>5, RequeueTaken, RequeueFollows DEF Follows
<1>8. Unshaken(r, Append1(s)) /\ Taken(r, Append1(s))
  BY <1>2, <1>3, <1>4, <1>5, Append1Taken
<1>9. Unshaken(r, Requeue(Append1(s))) /\ Taken(r, Requeue(Append1(s)))
  BY <1>3, <1>4, <1>5, <1>8, RequeueTaken
<1>10. QED
  BY <1>6, <1>7, <1>9

LEMMA NotedTaken == ASSUME NEW r, Held(r) PROVE Taken(r, Noted(r)) /\ Unshaken(r, Noted(r))
<1>1. CASE r.trouble # "none"
  <2>1. Taken(r, NewGeneration(Append1(r)))
    <3>1. PICK s : s = Append1(r)
      OBVIOUS
    <3>2. Held(s) /\ Pending(s)
      BY <3>1, Append1Fields
    <3>3. PICK n : n = NewGeneration(s)
      OBVIOUS
    <3>4. /\ s.input = r.input + 1 /\ s.proc = r.proc /\ s.retries = r.retries
      BY <3>1, Append1Fields
    <3>5. /\ n.input = s.input /\ n.proc = s.proc /\ n.retries = s.retries
          /\ n.trouble = "none" /\ n.candidate = FALSE
      BY <3>2, <3>3, RenewedFields
    <3>6. Taken(r, n)
      BY <3>4, <3>5 DEF Taken, Pending, Held, Records, Accepted
    <3>7. QED
      BY <3>1, <3>3, <3>6
  <2>2. QED
    BY <1>1, <2>1 DEF Noted, Unshaken
<1>2. CASE r.trouble = "none"
  <2>1. Held(Append1(r))
    BY Append1Follows DEF Follows
  <2>2. QED
    BY <1>2, <2>1, Append1Taken, RequeueTaken DEF Noted, Taken, Unshaken
<1>3. QED
  BY <1>1, <1>2

LEMMA RetriedTaken == ASSUME NEW r, Held(r) PROVE Taken(r, Retried(r, TRUE)) /\ Unshaken(r, Retried(r, TRUE))
<1>1. PICK s : s = [r EXCEPT !.eligible = FALSE, !.repairs = 0, !.retries = 0]
  OBVIOUS
<1>2. Retried(r, TRUE) =
        IF r.trouble # "none" THEN Append1(NewGeneration(s))
        ELSE IF r.merged THEN [s EXCEPT !.phase = "deploying"]
        ELSE IF r.pr /\ r.candidate THEN [s EXCEPT !.phase = "pull-request"]
        ELSE [Append1(s) EXCEPT !.phase = "queued"]
  BY <1>1 DEF Retried
<1>3. CASE r.trouble # "none"
  <2>1. Taken(r, Append1(NewGeneration(s)))
    <3>1. /\ s.input = r.input /\ s.proc = r.proc /\ s.retries = 0 /\ s.trouble = r.trouble
          /\ s.candidate = r.candidate
      BY <1>1 DEF Held, Records
    <3>2. Held(s)
      <4>1. PICK m \in 0..MaxRepairs, n \in 0..AutoRetryLimit : m = 0 /\ n = 0
        BY ControllerConstants
      <4>2. [r EXCEPT !.eligible = FALSE, !.repairs = m, !.retries = n] \in Records
        BY DEF Held, Records
      <4>3. QED
        BY <1>1, <4>1, <4>2 DEF Held, Records, Accepted
    <3>3. Taken(s, Append1(NewGeneration(s)))
      BY <3>2, RenewedTaken
    <3>4. PICK t : t = Append1(NewGeneration(s))
      OBVIOUS
    <3>5. Held(t) /\ Pending(t)
      BY <3>2, <3>4, RenewedFields, Append1Fields
    <3>6. QED
      BY <3>1, <3>3, <3>4, <3>5 DEF Taken
  <2>2. QED
    BY <1>2, <1>3, <2>1 DEF Unshaken
<1>4. CASE r.trouble = "none"
  <2>1. /\ Taken(r, [s EXCEPT !.phase = "deploying"]) /\ Unshaken(r, [s EXCEPT !.phase = "deploying"])
        /\ Taken(r, [s EXCEPT !.phase = "pull-request"]) /\ Unshaken(r, [s EXCEPT !.phase = "pull-request"])
        /\ Taken(r, [Append1(s) EXCEPT !.phase = "queued"]) /\ Unshaken(r, [Append1(s) EXCEPT !.phase = "queued"])
    BY <1>1 DEF Held, Records, Accepted, Taken, Unshaken, Append1, Pending
  <2>2. QED
    BY <1>2, <1>4, <2>1
<1>5. QED
  BY <1>3, <1>4

LEMMA CommandedTaken ==
  ASSUME NEW r, Held(r), NEW command PROVE Taken(r, Commanded(r, command)) /\ Unshaken(r, Commanded(r, command))
<1>1. Taken(r, r) /\ Unshaken(r, r)
  BY DEF Taken, Unshaken
<1>2. CASE command = "retriage"
  <2>1. r.merged => RetriageRefused(r)
    BY DEF RetriageRefused
  <2>2. QED
    BY <1>1, <1>2, <2>1, RenewedTaken DEF Commanded, Unshaken
<1>3. CASE command # "retriage"
  BY <1>1, <1>3, RetriedTaken, NotedTaken DEF Commanded
<1>4. QED
  BY <1>2, <1>3

\* The steps of the intake, by what they do to the record.
LEMMA IntakeTakes == ASSUME RecordInv, Intake \/ IntakeFails PROVE Taken(rec, rec')
<1>1. Held(rec) /\ intake.text \in Texts /\ intake.said \in 0..MaxOwner
  BY DEF RecordInv, TypeOK
<1>2. Taken(rec, rec)
  BY DEF Taken
<1>3. CASE ReadTodo \/ ListIssues \/ ReadIssue \/ IntakeFails
  BY <1>2, <1>3 DEF ReadTodo, ListIssues, ReadIssue, IntakeFails, Still
<1>4. CASE TakeEdit
  BY <1>1, <1>4, EditedTaken DEF TakeEdit, Save
<1>5. CASE Reopened
  <2>1. rec.candidate =>
           Taken(rec, [Append1([NewGeneration(rec) EXCEPT !.proc = rec.input]) EXCEPT !.cursor = intake.said])
    <3>1. PICK n, m, t, u : /\ n = NewGeneration(rec) /\ m = [n EXCEPT !.proc = rec.input]
                            /\ t = Append1(m) /\ u = [t EXCEPT !.cursor = intake.said]
      OBVIOUS
    <3>2. /\ Held(n) /\ n.input = rec.input /\ n.retries = rec.retries
          /\ n.trouble = "none" /\ n.candidate = FALSE
      BY <1>1, <3>1, RenewedFields
    <3>3. /\ Held(m) /\ m.input = rec.input /\ m.proc = rec.input /\ m.retries = rec.retries
          /\ m.trouble = "none" /\ m.candidate = FALSE
      BY <3>1, <3>2 DEF Held, Records, Accepted
    <3>4. /\ Held(t) /\ t.input = rec.input + 1 /\ t.proc = rec.input /\ t.retries = rec.retries
          /\ t.trouble = "none" /\ t.candidate = FALSE
      <4>1. t = Append1(m)
        BY <3>1
      <4>2. /\ Held(t) /\ t.input = m.input + 1 /\ t.proc = m.proc /\ t.retries = m.retries
            /\ t.trouble = m.trouble /\ t.candidate = m.candidate
        BY <3>3, <4>1, Append1Fields
      <4>3. QED
        BY <3>3, <4>2
    <3>5. /\ u.input = t.input /\ u.proc = t.proc /\ u.retries = t.retries
          /\ u.trouble = t.trouble /\ u.candidate = t.candidate
      BY <3>1, <3>4 DEF Held, Records
    <3>6. rec.candidate => Taken(rec, u)
      BY <1>1, <3>4, <3>5 DEF Taken, Pending, Held, Records
    <3>7. QED
      BY <3>1, <3>6
  <2>2. QED
    BY <1>2, <1>5, <2>1 DEF Reopened, Save, Still
<1>6. CASE TakeComment
  <2>1. PICK command : rec' = [Commanded(rec, command) EXCEPT !.cursor = @ + 1]
    BY <1>6 DEF TakeComment, Save, Keep
  <2>2. PICK s : s = Commanded(rec, command)
    OBVIOUS
  <2>3. Held(s) /\ Taken(rec, s)
    BY <1>1, <2>2, CommandedFollows, CommandedTaken DEF Follows
  <2>4. rec' = [s EXCEPT !.cursor = @ + 1]
    BY <2>1, <2>2
  <2>5. Taken(s, rec')
    BY <2>3, <2>4 DEF Held, Records, Taken, Pending
  <2>6. QED
    BY <2>3, <2>5 DEF Taken
<1>7. CASE TakeClose
  <2>1. Taken(rec, ClosedIssue(rec))
    BY <1>1 DEF Held, Records, Taken, ClosedIssue, Pending
  <2>2. QED
    BY <1>2, <1>7, <2>1 DEF TakeClose, Save
<1>8. QED
  BY <1>3, <1>4, <1>5, <1>6, <1>7 DEF Intake

-----------------------------------------------------------------------------
(* The record, in memory and on disk.                                       *)

LEMMA LaneRetries ==
  ASSUME ReleaseLane, rel' = "retry"
  PROVE  RetryDue(rec) /\ rec' = [rec EXCEPT !.release = TRUE]
<1>1. CASE Select
  BY <1>1 DEF Select, Claim, Entry, Answering, Save
<1>2. CASE Guard
  BY <1>2 DEF Guard, Save
<1>3. CASE Retry
  BY <1>3 DEF Retry, Save
<1>4. CASE AnswerAgain
  BY <1>4 DEF AnswerAgain, Save
<1>5. CASE Release
  BY <1>5 DEF Release, Save
<1>6. CASE Validate
  BY <1>6 DEF Validate, Save
<1>7. CASE Validated
  BY <1>7 DEF Validated, Save
<1>8. CASE Publish
  BY <1>8 DEF Publish, Current, Save
<1>9. CASE Propose
  BY <1>9 DEF Propose, Current, Save
<1>10. CASE Proposed
  BY <1>10 DEF Proposed, Save
<1>11. CASE Checks
  BY <1>11 DEF Checks, Save
<1>12. CASE Checked
  BY <1>12 DEF Checked, Save
<1>13. CASE Merge
  BY <1>13 DEF Merge, Overtaken, Save
<1>14. CASE Merged
  BY <1>14 DEF Merged, Save
<1>15. CASE Deploy
  BY <1>15 DEF Deploy, Save
<1>16. CASE Deployed
  BY <1>16 DEF Deployed, Save
<1>17. CASE Finalize
  BY <1>17 DEF Finalize, Refresh, Save
<1>18. CASE Follow
  BY <1>18 DEF Follow, Save
<1>19. CASE Resolve
  BY <1>19 DEF Resolve, Refresh, LateFrom, Save
<1>20. CASE Close
  BY <1>20 DEF Close, Fresh, LateFrom, Save
<1>21. CASE Patch
  BY <1>21 DEF Patch, Save
<1>22. CASE Patched
  BY <1>22 DEF Patched, Save
<1>23. CASE CompleteTodo
  BY <1>23 DEF CompleteTodo, Fresh, LateFrom, Refresh, Confirm, Complete, Restore, Lost, ReopenItem, Restored, Drifted, Save
<1>24. CASE Terminate
  BY <1>24 DEF Terminate, Tidy, Fresh, LateFrom, Confirm, Lost, Refresh, Save
<1>25. CASE LateOwnerInput
  BY <1>25 DEF LateOwnerInput, Late, LateItem, LateInput, LateIssue, LateStart, ReopenItem, Save
<1>26. QED
  BY <1>1, <1>2, <1>3, <1>4, <1>5, <1>6, <1>7, <1>8, <1>9, <1>10, <1>11, <1>12, <1>13, <1>14, <1>15, <1>16, <1>17, <1>18, <1>19, <1>20, <1>21, <1>22, <1>23, <1>24, <1>25 DEF ReleaseLane

\* No worker acts while the lane does.
LEMMA Alone ==
  ASSUME LaneInv, QueueInv, Worker \/ WorkerFails
  PROVE  worker.pc # "idle" /\ rel \in {"idle", "select"} /\ UNCHANGED rel
<1>1. worker.pc # "idle"
  <2>1. CASE Refreshed
    BY <2>1 DEF Refreshed, QueueInv, Awaits
  <2>2. CASE ~Refreshed
    BY <2>2 DEF Worker, WorkerFails, Prepare, Run, Answer, Finish, HandleWorkerError, Working
  <2>3. QED
    BY <2>1, <2>2
<1>2. UNCHANGED rel
  BY DEF Worker, WorkerFails, Prepare, Run, Refreshed, Answer, Finish, HandleWorkerError, Working
<1>3. QED
  BY <1>1, <1>2 DEF LaneInv, OneLane

LEMMA HeldNext == ASSUME RecordInv, Next PROVE Held(rec') /\ Held(disk')
<1>1. Held(rec) /\ Held(disk)
  BY DEF RecordInv
<1>2. CASE ReleaseLane
  BY <1>2, LaneGoes, LaneClaims DEF Going
<1>3. CASE Worker \/ Intake \/ IntakeFails
  BY <1>3, WorkerGoes, IntakeGoes DEF Going
<1>4. CASE Tick \/ WorkerFails \/ LaneFails \/ Owners
  BY <1>1, <1>4 DEF Tick, WorkerFails, LaneFails, Still, Owners, EditTodo, Comment, CloseIssue, ReopenIssue, Owner
<1>5. CASE Admit
  BY <1>1, <1>5, BegunFollows DEF Admit, Save, Still, Follows
<1>6. CASE Restart
  BY <1>1, <1>6, RecoveredHeld DEF Restart, Save
<1>7. QED
  BY <1>2, <1>3, <1>4, <1>5, <1>6 DEF Next, Owners

LEMMA ShapeNext == ASSUME RecordInv, QueueInv, Next PROVE Shape'
<1>1. TypeOK /\ Len(hub.said) <= MaxOwner
  <2>1. Len(hub.said) \in Nat /\ asked \in 0..MaxOwner
    BY DEF RecordInv, TypeOK
  <2>2. QED
    BY <2>1, ControllerConstants DEF RecordInv
<1>2. QED
  BY <1>1, LaneShape, WorkerShape, IntakeShape, OthersShape DEF Next, Owners

LEMMA SaidNext == ASSUME RecordInv, QueueInv, Next PROVE Len(hub'.said) <= asked' /\ intake'.said <= Len(hub'.said)
<1>1. /\ TypeOK /\ Shape /\ Len(hub.said) <= asked /\ intake.said <= Len(hub.said)
      /\ Len(hub.said) \in Nat /\ asked \in Nat /\ intake.said \in Nat
  BY Shapes DEF RecordInv, TypeOK
<1>2. Idle.said = 0
  BY DEF Idle
<1>3. CASE ReleaseLane
  BY <1>1, <1>3, ReleaseLaneMoves DEF LaneMoves
<1>4. CASE Worker
  BY <1>1, <1>4, WorkerActionMoves DEF WorkerMoves
<1>5. CASE Intake \/ IntakeFails
  <2>1. hub'.said = hub.said /\ asked' = asked
    BY <1>1, <1>5, IntakeActionMoves DEF IntakeMoves
  <2>2. intake'.said \in {0, intake.said, Len(hub.said)}
    <3>1. \A ok : Return(ok) => intake'.said = 0
      BY <1>2 DEF Return
    <3>2. CASE ReadTodo
      BY <3>2 DEF ReadTodo, Idle
    <3>3. CASE TakeEdit \/ TakeComment
      BY <1>1, <3>3 DEF TakeEdit, TakeComment, serial, TypeOK
    <3>4. CASE ListIssues
      BY <1>1, <3>1, <3>4 DEF ListIssues, TypeOK
    <3>5. CASE ReadIssue
      BY <1>1, <3>5 DEF ReadIssue, TypeOK
    <3>6. CASE Reopened \/ TakeClose \/ IntakeFails
      BY <3>1, <3>6 DEF Reopened, TakeClose, IntakeFails
    <3>7. QED
      BY <1>5, <3>2, <3>3, <3>4, <3>5, <3>6 DEF Intake
  <2>3. QED
    BY <1>1, <2>1, <2>2
<1>6. CASE Tick \/ Admit \/ WorkerFails \/ LaneFails
  BY <1>1, <1>6 DEF Tick, Admit, WorkerFails, LaneFails, serial, bounds
<1>7. CASE Restart
  BY <1>1, <1>2, <1>7 DEF Restart
<1>8. CASE Owners
  <2>1. asked' = asked + 1 /\ UNCHANGED intake
    BY <1>8 DEF Owners, EditTodo, Comment, CloseIssue, ReopenIssue, Owner, serial
  <2>2. hub'.said = hub.said \/ \E c \in Commands : hub'.said = Append(hub.said, c)
    BY <1>1, <1>8 DEF Owners, EditTodo, Comment, CloseIssue, ReopenIssue, Owner, Shape, Hubs
  <2>3. \A c \in Commands : Len(Append(hub.said, c)) = Len(hub.said) + 1
    BY <1>1 DEF Shape, Hubs
  <2>4. QED
    BY <1>1, <2>1, <2>2, <2>3
<1>9. QED
  BY <1>3, <1>4, <1>5, <1>6, <1>7, <1>8 DEF Next, Owners

LEMMA RetryNext == ASSUME RecordInv, LaneInv, QueueInv, Next, rel' = "retry" PROVE rec'.retries < AutoRetryLimit
<1>1. Held(rec) /\ rec \in Records /\ (rel = "retry" => rec.retries < AutoRetryLimit)
  BY DEF RecordInv, Held
<1>2. CASE ReleaseLane
  BY <1>1, <1>2, LaneRetries DEF RetryDue, Records
<1>3. CASE Worker \/ WorkerFails
  BY <1>3, Alone
<1>4. CASE Intake \/ IntakeFails
  <2>1. rel = "retry" /\ rec'.retries \in {rec.retries, 0}
    BY <1>4, IntakeTakes, IntakeActionMoves DEF IntakeMoves, RecordInv, Taken
  <2>2. rec.retries \in Nat
    BY <1>1 DEF Records
  <2>3. QED
    BY <1>1, <2>1, <2>2, ControllerConstants
<1>5. CASE Tick \/ LaneFails \/ Owners
  BY <1>1, <1>5 DEF Tick, LaneFails, Owners, EditTodo, Comment, CloseIssue, ReopenIssue, Owner
<1>6. CASE Admit
  <2>1. rel = "retry" /\ rec' \in {rec, Begun(rec)}
    BY <1>6 DEF Admit, Save, Still
  <2>2. Begun(rec).retries = rec.retries
    BY <1>1 DEF Begun, Records
  <2>3. QED
    BY <1>1, <2>1, <2>2
<1>7. CASE Restart
  BY <1>7 DEF Restart
<1>8. QED
  BY <1>2, <1>3, <1>4, <1>5, <1>6, <1>7 DEF Next, Owners

LEMMA RecordNext == ASSUME RecordInv, LaneInv, QueueInv, Next PROVE RecordInv'
<1>1. Held(rec') /\ Held(disk') /\ Shape'
  BY HeldNext, ShapeNext
<1>2. TypeOK'
  BY <1>1 DEF TypeOK, Held, Shape, Todos, Hubs, Intakes, Workers, Turns
<1>3. QED
  BY <1>1, <1>2, SaidNext, RetryNext DEF RecordInv, Held

-----------------------------------------------------------------------------
(* The lane and its claim.                                                  *)

LEMMA LaneActs == ASSUME ReleaseLane, ~Select PROVE rel \notin {"idle", "select"}
<1>1. CASE Select
  BY <1>1 DEF Select, Claim, Entry, Answering, Lane, Waits
<1>2. CASE Guard
  BY <1>2 DEF Guard, Lane, Waits
<1>3. CASE Retry
  BY <1>3 DEF Retry, Lane, Waits
<1>4. CASE AnswerAgain
  BY <1>4 DEF AnswerAgain, Lane, Waits
<1>5. CASE Release
  BY <1>5 DEF Release, Lane, Waits
<1>6. CASE Validate
  BY <1>6 DEF Validate, Lane, Waits
<1>7. CASE Validated
  BY <1>7 DEF Validated, Lane, Waits
<1>8. CASE Publish
  BY <1>8 DEF Publish, Current, Lane, Waits
<1>9. CASE Propose
  BY <1>9 DEF Propose, Current, Lane, Waits
<1>10. CASE Proposed
  BY <1>10 DEF Proposed, Lane, Waits
<1>11. CASE Checks
  BY <1>11 DEF Checks, Lane, Waits
<1>12. CASE Checked
  BY <1>12 DEF Checked, Lane, Waits
<1>13. CASE Merge
  BY <1>13 DEF Merge, Overtaken, Lane, Waits
<1>14. CASE Merged
  BY <1>14 DEF Merged, Lane, Waits
<1>15. CASE Deploy
  BY <1>15 DEF Deploy, Lane, Waits
<1>16. CASE Deployed
  BY <1>16 DEF Deployed, Lane, Waits
<1>17. CASE Finalize
  BY <1>17 DEF Finalize, Refresh, Lane, Waits
<1>18. CASE Follow
  BY <1>18 DEF Follow, Lane, Waits
<1>19. CASE Resolve
  BY <1>19 DEF Resolve, Refresh, LateFrom, Lane, Waits
<1>20. CASE Close
  BY <1>20 DEF Close, Fresh, LateFrom, Lane, Waits
<1>21. CASE Patch
  BY <1>21 DEF Patch, Lane, Waits
<1>22. CASE Patched
  BY <1>22 DEF Patched, Lane, Waits
<1>23. CASE CompleteTodo
  BY <1>23 DEF CompleteTodo, Fresh, LateFrom, Refresh, Confirm, Complete, Restore, Lost, ReopenItem, Restored, Drifted, Lane, Waits
<1>24. CASE Terminate
  BY <1>24 DEF Terminate, Tidy, Fresh, LateFrom, Confirm, Lost, Refresh, Lane, Waits
<1>25. CASE LateOwnerInput
  BY <1>25 DEF LateOwnerInput, Late, LateItem, LateInput, LateIssue, LateStart, ReopenItem, Lane, Waits
<1>26. QED
  BY <1>1, <1>2, <1>3, <1>4, <1>5, <1>6, <1>7, <1>8, <1>9, <1>10, <1>11, <1>12, <1>13, <1>14, <1>15, <1>16, <1>17, <1>18, <1>19, <1>20, <1>21, <1>22, <1>23, <1>24, <1>25 DEF ReleaseLane

LEMMA LaneNext == ASSUME RecordInv, LaneInv, QueueInv, Next PROVE LaneInv'
<1>1. OneLane /\ (rel \notin {"idle", "select"} => rec.release)
  BY DEF LaneInv
<1>2. CASE ReleaseLane
  <2>1. UNCHANGED worker
    BY <1>2, ReleaseLaneMoves DEF LaneMoves, RecordInv
  <2>2. CASE Select
    <3>1. worker.pc = "idle" \/ rel' = "idle"
      BY <2>2 DEF Select, Available
    <3>2. QED
      BY <2>1, <2>2, <3>1, LaneClaims DEF LaneInv, OneLane
  <2>3. CASE Release
    BY <2>3 DEF Release, LaneInv, OneLane
  <2>4. CASE ~Select /\ ~Release
    BY <1>1, <1>2, <2>1, <2>4, LaneActs, LaneGoes DEF Going, LaneInv, OneLane
  <2>5. QED
    BY <2>2, <2>3, <2>4
<1>3. CASE Worker \/ WorkerFails
  BY <1>3, Alone DEF LaneInv, OneLane
<1>4. CASE Intake \/ IntakeFails
  <2>1. UNCHANGED <<worker, rel>> /\ rec'.release = rec.release
    BY <1>4, IntakeActionMoves, IntakeGoes DEF IntakeMoves, RecordInv, Going
  <2>2. QED
    BY <1>1, <2>1 DEF LaneInv, OneLane
<1>5. CASE Tick \/ Owners
  <2>1. UNCHANGED <<worker, rel, rec>>
    BY <1>5 DEF Tick, Owners, EditTodo, Comment, CloseIssue, ReopenIssue, Owner
  <2>2. QED
    BY <1>1, <2>1 DEF LaneInv, OneLane
<1>6. CASE LaneFails
  <2>1. UNCHANGED <<worker, rec>> /\ rel \notin {"idle", "select"}
    BY <1>6 DEF LaneFails, Still
  <2>2. QED
    BY <1>1, <2>1 DEF LaneInv, OneLane
<1>7. CASE Admit
  <2>1. rel' \in {"select", rel}
    BY <1>7 DEF Admit
  <2>2. CASE turn.ok /\ WorkerDue(rec)
    <3>1. ~rec.release
      BY <2>2 DEF WorkerDue, Claimed
    <3>2. rel' \in {"idle", "select"}
      BY <1>1, <2>1, <3>1
    <3>3. QED
      BY <3>2 DEF LaneInv, OneLane
  <2>3. CASE ~(turn.ok /\ WorkerDue(rec))
    <3>1. UNCHANGED <<worker, rec>>
      BY <1>7, <2>3 DEF Admit, Still
    <3>2. QED
      BY <1>1, <2>1, <3>1 DEF LaneInv, OneLane
  <2>4. QED
    BY <2>2, <2>3
<1>8. CASE Restart
  BY <1>8 DEF Restart, LaneInv, OneLane
<1>9. QED
  BY <1>2, <1>3, <1>4, <1>5, <1>6, <1>7, <1>8 DEF Next, Owners

-----------------------------------------------------------------------------
(* The queue of the intake.                                                 *)
Same(c) == Awaits(c)' = Awaits(c)

LEMMA QueueKept ==
  ASSUME QueueInv, Shape, UNCHANGED queue, turn' \in {turn, Nobody},
         \A c \in Callers : Awaits(c) /\ (turn' = turn \/ c # turn.who) => Awaits(c)',
         Len(hub.said) <= Len(hub'.said), Len(hub'.said) \in Nat,
         intake'.pc # "idle" => Quiet' /\ queue # <<>>
  PROVE  QueueInv'
<1>1. \A i \in 1..Len(queue) : queue[i].who \in Callers /\ queue[i].said \in Nat
  <2>1. \A i \in 1..Len(queue) : queue[i] \in Calls
    BY DEF Shape
  <2>2. QED
    BY <2>1 DEF Calls
<1>2. turn.who \in Callers \cup {"nobody"} /\ Len(hub.said) \in Nat /\ turn \in Turns
  BY DEF Shape, Turns, Hubs
<1>3. Nobody.who = "nobody" /\ "nobody" \notin Callers
  BY DEF Nobody, Callers
<1>4. ASSUME NEW i \in 1..Len(queue)
      PROVE  /\ Awaits(queue[i].who)' /\ queue[i].said <= Len(hub'.said) /\ queue[i].who # turn'.who
             /\ \A j \in 1..Len(queue) : queue[i].who = queue[j].who => i = j
  <2>1. Awaits(queue[i].who) /\ queue[i].said <= Len(hub.said) /\ queue[i].who # turn.who
    BY DEF QueueInv
  <2>2. Awaits(queue[i].who)'
    <3>1. PICK c \in Callers : c = queue[i].who
      BY <1>1
    <3>2. Awaits(c)'
      BY <2>1, <3>1
    <3>3. QED
      BY <3>1, <3>2 DEF Awaits
  <2>3. queue[i].said <= Len(hub'.said)
    BY <1>1, <1>2, <2>1
  <2>4. QED
    BY <1>1, <1>3, <2>1, <2>2, <2>3 DEF QueueInv
<1>5. Awaits(turn.who)'
  <2>1. CASE turn' = turn
    <3>1. CASE turn.who \in Callers
      <4>1. PICK c \in Callers : c = turn.who
        BY <3>1
      <4>2. Awaits(c)'
        BY <2>1, <4>1 DEF QueueInv
      <4>3. QED
        BY <2>1, <4>1, <4>2 DEF Awaits
    <3>2. CASE turn.who = "nobody"
      BY <2>1, <3>2 DEF Awaits
    <3>3. QED
      BY <1>2, <3>1, <3>2
  <2>2. CASE turn' = Nobody
    BY <1>3, <2>2 DEF Awaits
  <2>3. QED
    BY <2>1, <2>2
<1>6. turn'.who = "nobody" => Quiet'
  BY DEF QueueInv, Quiet
<1>7. QED
  <2>1. \A i \in 1..Len(queue') : /\ queue'[i].said <= Len(hub'.said) /\ queue'[i].who # turn'.who
                                   /\ \A j \in 1..Len(queue') : queue'[i].who = queue'[j].who => i = j
    BY <1>4
  <2>2. (\A i \in 1..Len(queue) : Awaits(queue[i].who))'
    BY <1>4 DEF Awaits
  <2>3. QED
    BY <1>5, <1>6, <2>1, <2>2 DEF QueueInv

LEMMA QueueCalled ==
  ASSUME QueueInv, Shape, NEW c \in Callers, Call(c), Quiet, UNCHANGED <<intake, turn>>, hub'.said = hub.said,
         ~Awaits(c), Awaits(c)', \A d \in Callers : Awaits(d) => Awaits(d)'
  PROVE  QueueInv'
<1> DEFINE e == [who |-> c, said |-> Len(hub.said)]
           n == Len(queue)
<1>1. queue \in Seq(Calls) /\ e \in Calls /\ n \in Nat /\ Len(hub.said) \in Nat /\ queue' = Append(queue, e)
  BY DEF Shape, Hubs, Calls, Call
<1>2. /\ Len(queue') = n + 1 /\ queue'[n + 1] = e
      /\ \A i \in 1..n : queue'[i] = queue[i] /\ queue[i].who \in Callers
  <2>1. \A i \in 1..n : queue[i] \in Calls
    BY <1>1
  <2>2. \A i \in 1..n : queue[i].who \in Callers
    BY <2>1 DEF Calls
  <2>3. QED
    BY <1>1, <2>2
<1>3. \A i \in 1..n : queue[i].who # c
  BY DEF QueueInv
<1>4. turn.who = "nobody" /\ c # "nobody"
  BY DEF Quiet, Nobody, Callers
<1>5. ASSUME NEW i \in 1..(n + 1)
      PROVE  /\ Awaits(queue[i].who)' /\ queue'[i].said <= Len(hub'.said) /\ queue'[i].who # turn'.who
             /\ \A j \in 1..(n + 1) : queue'[i].who = queue'[j].who => i = j
  <2>1. CASE i = n + 1
    <3>1. queue'[i] = e
      BY <1>2, <2>1
    <3>2. Awaits(queue[i].who)'
      BY <3>1 DEF Awaits
    <3>3. \A j \in 1..(n + 1) : queue'[i].who = queue'[j].who => i = j
      BY <1>1, <1>2, <1>3, <2>1, <3>1
    <3>4. QED
      BY <1>1, <1>4, <3>1, <3>2, <3>3
  <2>2. CASE i \in 1..n
    <3>1. queue'[i] = queue[i] /\ queue[i].who # c
      BY <1>2, <1>3, <2>2
    <3>2. Awaits(queue[i].who)'
      <4>1. PICK d \in Callers : d = queue[i].who
        BY <1>2, <2>2
      <4>2. Awaits(d)'
        BY <2>2, <4>1 DEF QueueInv
      <4>3. QED
        BY <3>1, <4>1, <4>2 DEF Awaits
    <3>3. \A j \in 1..(n + 1) : queue'[i].who = queue'[j].who => i = j
      <4>1. \A j \in 1..n : queue[i].who = queue[j].who => i = j
        BY <2>2 DEF QueueInv
      <4>2. queue'[n + 1].who = c
        BY <1>2
      <4>3. QED
        BY <1>1, <1>2, <3>1, <4>1, <4>2
    <3>4. QED
      BY <2>2, <3>1, <3>2, <3>3 DEF QueueInv
  <2>3. QED
    BY <1>1, <2>1, <2>2
<1>6. Awaits(turn.who)'
  BY <1>4 DEF Awaits
<1>7. (turn.who = "nobody" => Quiet)' /\ (intake.pc # "idle" => Quiet /\ queue # <<>>)'
  BY <1>1, <1>2 DEF Quiet, QueueInv
<1>8. (\A i \in 1..Len(queue) : Awaits(queue[i].who))'
  BY <1>2, <1>5 DEF Awaits
<1>9. \A i \in 1..Len(queue') : /\ queue'[i].said <= Len(hub'.said) /\ queue'[i].who # turn'.who
                                /\ \A j \in 1..Len(queue') : queue'[i].who = queue'[j].who => i = j
  BY <1>2, <1>5
<1>10. QED
  BY <1>6, <1>7, <1>8, <1>9 DEF QueueInv

LEMMA QueueReturned ==
  ASSUME QueueInv, Shape, NEW ok, Return(ok), queue # <<>>, UNCHANGED <<sup, worker, rel>>, hub'.said = hub.said
  PROVE  QueueInv'
<1> DEFINE n == Len(queue)
<1>1. /\ queue \in Seq(Calls) /\ n \in Nat /\ n > 0 /\ queue' = Tail(queue) /\ Len(queue') = n - 1
      /\ Head(queue) = queue[1]
  BY DEF Shape, Return
<1>2. \A i \in 1..(n - 1) : queue'[i] = queue[i + 1] /\ i + 1 \in 1..n
  BY <1>1
<1>3. turn'.who = queue[1].who /\ intake'.pc = "idle"
  BY <1>1 DEF Return, Idle
<1>4. queue[1].who \in Callers
  <2>1. queue[1] \in Calls
    BY <1>1
  <2>2. QED
    BY <2>1 DEF Calls
<1>5. \A i \in 1..n : Awaits(queue[i].who) /\ queue[i].said <= Len(hub.said)
                      /\ \A j \in 1..n : queue[i].who = queue[j].who => i = j
  BY DEF QueueInv
<1>6. (\A i \in 1..Len(queue) : Awaits(queue[i].who))'
  <2>1. ASSUME NEW i \in 1..(n - 1) PROVE Awaits(queue[i].who)'
    <3>1. Awaits(queue[i + 1].who) /\ queue'[i] = queue[i + 1]
      BY <1>2, <1>5
    <3>2. QED
      BY <3>1 DEF Awaits
  <2>2. QED
    BY <1>1, <2>1
<1>7. \A i \in 1..Len(queue') : /\ queue'[i].said <= Len(hub'.said) /\ queue'[i].who # turn'.who
                                /\ \A j \in 1..Len(queue') : queue'[i].who = queue'[j].who => i = j
  <2>1. \A i \in 1..(n - 1) : queue[i + 1].said <= Len(hub.said) /\ queue[i + 1].who # queue[1].who
                              /\ \A j \in 1..(n - 1) : queue[i + 1].who = queue[j + 1].who => i = j
    BY <1>1, <1>5
  <2>2. QED
    BY <1>1, <1>2, <1>3, <2>1
<1>8. Awaits(turn.who)'
  <2>1. Awaits(queue[1].who)
    BY <1>1, <1>5
  <2>2. QED
    BY <1>3, <2>1 DEF Awaits
<1>9. turn'.who # "nobody"
  BY <1>3, <1>4 DEF Callers
<1>10. QED
  BY <1>3, <1>6, <1>7, <1>8, <1>9 DEF QueueInv

\* An activity that goes on, or asks, or is answered.
LEMMA QueueAsked ==
  ASSUME QueueInv, Shape, NEW c \in Callers, NEW w, Awaits(c) => w, Asks(c, w, Awaits(c)'),
         \A d \in Callers \ {c} : Awaits(d) => Awaits(d)', UNCHANGED intake, hub'.said = hub.said
  PROVE  QueueInv'
<1>1. Len(hub.said) \in Nat
  BY DEF Shape, Hubs
<1>2. CASE Quiet /\ UNCHANGED turn /\ ~w /\ UNCHANGED queue
  BY <1>1, <1>2, QueueKept DEF QueueInv, Quiet
<1>3. CASE Quiet /\ UNCHANGED turn /\ ~w /\ Awaits(c)' /\ Call(c)
  BY <1>3, QueueCalled
<1>4. CASE turn.who = c /\ turn' = Nobody /\ UNCHANGED queue
  <2>1. c # "nobody" /\ Nobody.who = "nobody"
    BY DEF Callers, Nobody
  <2>2. intake.pc = "idle"
    BY <1>4, <2>1 DEF QueueInv, Quiet
  <2>3. turn' # turn
    BY <1>4, <2>1
  <2>4. QED
    BY <1>1, <1>4, <2>2, <2>3, QueueKept
<1>5. QED
  BY <1>2, <1>3, <1>4 DEF Asks

LEMMA QueueNext == ASSUME RecordInv, LaneInv, QueueInv, Next PROVE QueueInv'
<1>1. Shape /\ TypeOK /\ Len(hub.said) \in Nat
  BY Shapes DEF RecordInv, TypeOK
<1>2. CASE ReleaseLane
  <2>1. LaneMoves
    BY <1>1, <1>2, ReleaseLaneMoves
  <2>2. Asks("release", Awaits("release"), Awaits("release")')
    BY <2>1 DEF LaneMoves, Awaits
  <2>3. \A d \in Callers \ {"release"} : Awaits(d) => Awaits(d)'
    BY <2>1 DEF LaneMoves, Awaits, Callers
  <2>4. QED
    BY <1>1, <2>1, <2>2, <2>3, QueueAsked DEF LaneMoves, Callers
<1>3. CASE Worker
  <2>1. WorkerMoves
    BY <1>1, <1>3, WorkerActionMoves
  <2>2. Asks("worker", worker.pc \in {"idle", "refresh"}, Awaits("worker")')
    BY <2>1 DEF WorkerMoves, Awaits
  <2>3. \A d \in Callers \ {"worker"} : Awaits(d) => Awaits(d)'
    BY <2>1 DEF WorkerMoves, Awaits, Callers
  <2>4. Awaits("worker") => worker.pc \in {"idle", "refresh"}
    BY DEF Awaits
  <2>5. QED
    BY <1>1, <2>1, <2>2, <2>3, <2>4, QueueAsked DEF WorkerMoves, Callers
<1>4. CASE Intake \/ IntakeFails
  <2>1. IntakeMoves
    BY <1>1, <1>4, IntakeActionMoves
  <2>2. CASE UNCHANGED <<queue, turn>>
    <3>1. \A d \in Callers : Awaits(d) => Awaits(d)'
      BY <2>1 DEF IntakeMoves, Awaits, Callers
    <3>2. QED
      BY <1>1, <2>1, <2>2, <3>1, QueueKept DEF IntakeMoves, Quiet
  <2>3. CASE \E ok \in BOOLEAN : Return(ok)
    BY <1>1, <2>1, <2>3, QueueReturned DEF IntakeMoves
  <2>4. QED
    BY <2>1, <2>2, <2>3 DEF IntakeMoves
<1>5. CASE Tick
  <2>1. ~Awaits("tick") /\ Awaits("tick")' /\ \A d \in Callers : Awaits(d) => Awaits(d)'
    BY <1>5 DEF Tick, Awaits, Callers
  <2>2. QED
    BY <1>1, <1>5, <2>1, QueueCalled DEF Tick, Callers
<1>6. CASE Admit
  <2>1. /\ turn.who = "tick" /\ turn' = Nobody /\ UNCHANGED <<intake, hub, queue>>
        /\ worker' = worker \/ (worker.pc = "idle" /\ worker'.pc = "prepare")
        /\ rel' = rel \/ rel = "idle"
    BY <1>1, <1>6 DEF Admit, WorkerDue, Shape, Workers
  <2>2. \A d \in Callers : Awaits(d) /\ (turn' = turn \/ d # turn.who) => Awaits(d)'
    <3>1. turn' # turn
      BY <2>1 DEF Nobody
    <3>2. ~(rel = "idle" /\ rel \in Waits)
      BY DEF Waits
    <3>3. QED
      BY <2>1, <3>1, <3>2 DEF Awaits, Callers
  <2>3. intake.pc = "idle"
    BY <2>1 DEF QueueInv, Quiet, Nobody
  <2>4. QED
    BY <1>1, <2>1, <2>2, <2>3, QueueKept
<1>7. CASE WorkerFails
  <2>1. /\ Quiet /\ UNCHANGED <<intake, hub, queue, turn, sup, rel>> /\ worker.pc # "refresh"
    BY <1>7 DEF WorkerFails, serial
  <2>2. \A d \in Callers : Awaits(d) => Awaits(d)'
    BY <2>1 DEF Awaits, Callers
  <2>3. QED
    BY <1>1, <2>1, <2>2, QueueKept DEF QueueInv, Quiet
<1>8. CASE LaneFails
  <2>1. /\ Quiet /\ UNCHANGED <<intake, hub, queue, turn, sup, worker>>
        /\ \A i \in 1..Len(queue) : queue[i].who # "release"
    BY <1>1, <1>8 DEF LaneFails, serial, Shape
  <2>2. \A d \in Callers \ {"release"} : Awaits(d) => Awaits(d)'
    BY <2>1 DEF Awaits, Callers
  <2>3. QED
    <3>1. turn.who = "nobody" /\ turn'.who = "nobody"
      BY <2>1 DEF Quiet, Nobody
    <3>2. \A i \in 1..Len(queue) : queue[i].who \in Callers \ {"release"}
      <4>1. \A i \in 1..Len(queue) : queue[i] \in Calls
        BY <1>1 DEF Shape
      <4>2. QED
        BY <2>1, <4>1 DEF Calls
    <3>3. (\A i \in 1..Len(queue) : Awaits(queue[i].who))'
      <4>1. ASSUME NEW i \in 1..Len(queue) PROVE Awaits(queue[i].who)'
        <5>1. PICK d \in Callers \ {"release"} : d = queue[i].who
          BY <3>2
        <5>2. Awaits(d)'
          BY <2>2, <5>1 DEF QueueInv
        <5>3. QED
          BY <2>1, <5>1, <5>2 DEF Awaits
      <4>2. QED
        BY <2>1, <4>1
    <3>4. Awaits(turn.who)'
      BY <3>1 DEF Awaits
    <3>5. QED
      BY <2>1, <3>1, <3>3, <3>4 DEF QueueInv, Quiet
<1>9. CASE Restart
  BY <1>9 DEF Restart, QueueInv, Quiet, Nobody, Awaits, Idle
<1>10. CASE Owners
  <2>1. UNCHANGED <<intake, queue, turn, sup, worker, rel>>
    BY <1>10 DEF Owners, EditTodo, Comment, CloseIssue, ReopenIssue, Owner, serial
  <2>2. Len(hub.said) <= Len(hub'.said) /\ Len(hub'.said) \in Nat
    <3>1. hub'.said = hub.said \/ \E c \in Commands : hub'.said = Append(hub.said, c)
      BY <1>1, <1>10 DEF Owners, EditTodo, Comment, CloseIssue, ReopenIssue, Owner, Shape, Hubs
    <3>2. \A c \in Commands : Len(Append(hub.said, c)) = Len(hub.said) + 1
      BY <1>1 DEF Shape, Hubs
    <3>3. QED
      BY <1>1, <3>1, <3>2
  <2>3. \A d \in Callers : Awaits(d) => Awaits(d)'
    BY <2>1 DEF Awaits, Callers
  <2>4. QED
    BY <1>1, <2>1, <2>2, <2>3, QueueKept DEF QueueInv, Quiet
<1>11. QED
  BY <1>2, <1>3, <1>4, <1>5, <1>6, <1>7, <1>8, <1>9, <1>10 DEF Next, Owners

-----------------------------------------------------------------------------
(* What a call of the intake has read, and what its caller is given.        *)
Others == Next /\ ~Intake /\ ~IntakeFails /\ ~Restart

\* A running call stays at the head of the queue, as what it is.
LEMMA ServedStays ==
  ASSUME RecordInv, QueueInv, Others, intake.pc # "idle"
  PROVE  UNCHANGED intake /\ Head(queue') = Head(queue)
<1>1. Shape /\ TypeOK /\ Quiet /\ queue \in Seq(Calls) /\ queue # <<>> /\ turn.who = "nobody"
  BY Shapes DEF RecordInv, QueueInv, Shape, Quiet, Nobody
<1>2. \A c \in Callers : Call(c) => Head(queue') = Head(queue)
  BY <1>1 DEF Call
<1>3. CASE ReleaseLane
  BY <1>1, <1>2, <1>3, ReleaseLaneMoves DEF LaneMoves, Asks, Callers
<1>4. CASE Worker
  BY <1>1, <1>2, <1>4, WorkerActionMoves DEF WorkerMoves, Asks, Callers
<1>5. CASE Tick
  BY <1>1, <1>2, <1>5 DEF Tick, Callers
<1>6. CASE Admit \/ WorkerFails \/ LaneFails \/ Owners
  BY <1>6 DEF Admit, WorkerFails, LaneFails, serial, Owners, EditTodo, Comment, CloseIssue, ReopenIssue, Owner
<1>7. QED
  BY <1>3, <1>4, <1>5, <1>6 DEF Next, Others, Owners

\* While the intake serves the worker or the lane, nobody but the intake writes the record.
LEMMA ServedAlone ==
  ASSUME RecordInv, LaneInv, QueueInv, Others, intake.pc # "idle", Caller \in {"worker", "release"}
  PROVE  UNCHANGED rec
<1>1. Shape /\ TypeOK /\ Quiet /\ turn.who = "nobody" /\ Awaits(Caller)
  <2>1. Shape /\ TypeOK /\ Quiet /\ queue # <<>>
    BY Shapes DEF RecordInv, QueueInv
  <2>2. Head(queue) = queue[1] /\ 1 \in 1..Len(queue)
    BY <2>1 DEF Shape
  <2>3. QED
    BY <2>1, <2>2 DEF QueueInv, Caller, Quiet, Nobody
<1>2. CASE Caller = "release"
  <2>1. rel \in Waits /\ rel \notin {"idle", "select"}
    BY <1>1, <1>2 DEF Awaits, Waits
  <2>2. ~ReleaseLane
    BY <1>1, <2>1, ReleaseLaneMoves DEF LaneMoves, Asks
  <2>3. ~Worker /\ ~WorkerFails
    BY <2>1, Alone
  <2>4. ~Admit
    BY <1>1 DEF Admit
  <2>5. CASE Tick \/ LaneFails \/ Owners
    BY <2>5 DEF Tick, LaneFails, Still, Owners, EditTodo, Comment, CloseIssue, ReopenIssue, Owner
  <2>6. QED
    BY <2>2, <2>3, <2>4, <2>5 DEF Next, Others, Owners
<1>3. CASE Caller = "worker"
  <2>1. worker.pc = "refresh" /\ rel \in {"idle", "select"}
    BY <1>1, <1>3 DEF Awaits, LaneInv, OneLane
  <2>2. CASE ReleaseLane
    <3>1. Select
      BY <2>1, <2>2, LaneActs
    <3>2. QED
      BY <2>1, <3>1 DEF Select, Available, Still
  <2>3. ~Worker
    BY <1>1, <2>1, WorkerActionMoves DEF WorkerMoves, Asks
  <2>4. ~Admit
    BY <1>1 DEF Admit
  <2>5. CASE Tick \/ WorkerFails \/ LaneFails \/ Owners
    BY <2>5 DEF Tick, WorkerFails, LaneFails, Still, Owners, EditTodo, Comment, CloseIssue, ReopenIssue, Owner
  <2>6. QED
    BY <2>2, <2>3, <2>4, <2>5 DEF Next, Others, Owners
<1>4. QED
  BY <1>2, <1>3

LEMMA ClosedIssueCursor ==
  ASSUME NEW r, Held(r)
  PROVE  /\ ClosedIssue(r).cursor = r.cursor
         /\ ~r.closing => ClosedIssue(r).phase = "paused"
  BY DEF ClosedIssue, Held, Records

\* A call that returns has taken everything that was said when it was made,
\* or found the issue completed or paused.
LEMMA ReturnsFresh ==
  ASSUME RecordInv, QueueInv, ServingInv, Intake, Return(TRUE), Caller \in {"worker", "release"}
  PROVE  rec'.cursor >= turn'.said \/ rec'.phase \in {"completed", "paused"}
<1>1. /\ Held(rec) /\ Shape /\ turn'.said = Head(queue).said /\ intake'.pc = "idle" /\ rec.cursor \in Nat
      /\ intake.said \in Nat /\ Head(queue).said \in Nat /\ intake.window \in BOOLEAN
  <2>1. Held(rec) /\ Shape
    BY Shapes DEF RecordInv
  <2>2. turn'.said = Head(queue).said /\ intake'.pc = "idle"
    BY DEF Return, Idle
  <2>3. queue # <<>>
    BY <2>1, IntakeActionMoves DEF IntakeMoves, RecordInv
  <2>4. Head(queue) \in Calls
    BY <2>1, <2>3 DEF Shape
  <2>5. QED
    BY <2>1, <2>2, <2>4 DEF Shape, Intakes, Calls, Held, Records
<1>2. CASE ListIssues
  BY <1>1, <1>2 DEF ListIssues, Skipped, Still, TypeOK, RecordInv
<1>3. CASE Reopened
  <2>1. rec.phase = "paused" /\ intake.said >= Head(queue).said
    BY <1>3 DEF ServingInv, Reopened, In
  <2>2. CASE Still
    BY <2>1, <2>2 DEF Still
  <2>3. CASE ~Still
    <3>1. rec' = [Append1([NewGeneration(rec) EXCEPT !.proc = rec.input]) EXCEPT !.cursor = intake.said]
      BY <1>3, <2>3 DEF Reopened, Save
    <3>2. rec'.cursor = intake.said
      BY <3>1 DEF Append1, NewGeneration, Held, Records, RecordInv
    <3>3. QED
      BY <1>1, <2>1, <3>2
  <2>4. QED
    BY <2>2, <2>3
<1>4. CASE TakeClose
  <2>1. intake.said >= Head(queue).said /\ intake.pc = "comments"
    BY <1>4 DEF ServingInv, TakeClose, In
  <2>2. rec' = ClosedIssue(rec) \/ rec' = rec
    BY <1>4 DEF TakeClose, Save
  <2>3. CASE intake.window
    <3>1. rec.cursor >= intake.said
      BY <1>4, <2>3 DEF TakeClose
    <3>2. rec'.cursor = rec.cursor
      BY <1>1, <2>2, ClosedIssueCursor
    <3>3. QED
      BY <1>1, <2>1, <3>1, <3>2
  <2>4. CASE ~intake.window
    <3>1. ~intake.open /\ ~rec.closed /\ ~rec.closing
      BY <2>1, <2>4 DEF ServingInv
    <3>2. rec' = ClosedIssue(rec)
      BY <1>4, <3>1 DEF TakeClose, Save
    <3>3. QED
      BY <1>1, <3>1, <3>2, ClosedIssueCursor
  <2>5. QED
    BY <2>3, <2>4
<1>5. intake' = Idle /\ Idle.pc = "idle"
  BY DEF Return, Idle
<1>6. ~ReadTodo /\ ~TakeEdit /\ ~ReadIssue /\ ~TakeComment
  <2>1. ~ReadTodo /\ ~TakeEdit /\ ~ReadIssue
    BY <1>1 DEF ReadTodo, TakeEdit, ReadIssue, Idle, Shape, Intakes
  <2>2. ~TakeComment
    BY <1>1 DEF TakeComment, In, serial
  <2>3. QED
    BY <2>1, <2>2
<1>7. QED
  BY <1>2, <1>3, <1>4, <1>6 DEF Intake

LEMMA ServingNext == ASSUME RecordInv, LaneInv, QueueInv, ServingInv, Next PROVE ServingInv'
<1>1. Shape /\ TypeOK /\ Idle.pc = "idle"
  BY Shapes DEF RecordInv, Idle
<1>2. CASE Others /\ intake.pc # "idle"
  <2>1. UNCHANGED intake /\ Head(queue') = Head(queue)
    BY <1>2, ServedStays
  <2>2. Caller' = Caller /\ (Caller \in {"worker", "release"} => UNCHANGED rec)
    BY <1>2, <2>1, ServedAlone DEF Caller
  <2>3. QED
    BY <2>1, <2>2 DEF ServingInv
<1>3. CASE Others /\ intake.pc = "idle"
  <2>1. UNCHANGED intake
    <3>1. CASE ReleaseLane
      BY <1>1, <3>1, ReleaseLaneMoves DEF LaneMoves
    <3>2. CASE Worker
      BY <1>1, <3>2, WorkerActionMoves DEF WorkerMoves
    <3>3. CASE Tick \/ Admit \/ WorkerFails \/ LaneFails \/ Owners
      BY <3>3 DEF Tick, Admit, WorkerFails, LaneFails, serial, Owners, EditTodo, Comment, CloseIssue, ReopenIssue, Owner
    <3>4. QED
      BY <1>3, <3>1, <3>2, <3>3 DEF Others, Next, Owners
  <2>2. QED
    BY <1>3, <2>1 DEF ServingInv
<1>4. CASE Restart
  BY <1>1, <1>4 DEF Restart, ServingInv
<1>5. CASE \E ok \in BOOLEAN : Return(ok)
  BY <1>1, <1>5 DEF Return, ServingInv
<1>6. CASE Intake /\ ~\E ok \in BOOLEAN : Return(ok)
  <2>1. UNCHANGED queue /\ queue # <<>>
    BY <1>1, <1>6, IntakeActionMoves DEF IntakeMoves
  <2>2. CASE ReadTodo \/ TakeEdit
    <3>1. intake'.pc \in {"edited", "list"}
      BY <1>1, <2>2 DEF ReadTodo, TakeEdit, Idle, Shape, Intakes
    <3>2. QED
      BY <3>1 DEF ServingInv
  <2>3. CASE ListIssues
    <3>1. intake'.pc = "read"
      BY <1>1, <1>6, <2>3 DEF ListIssues, Shape, Intakes
    <3>2. QED
      BY <3>1 DEF ServingInv
  <2>4. CASE ReadIssue
    <3>1. Head(queue).said <= Len(hub.said) /\ Head(queue).said \in Nat /\ Len(hub.said) \in Nat
      <4>1. Head(queue) = queue[1] /\ 1 \in 1..Len(queue) /\ Head(queue) \in Calls /\ Len(hub.said) \in Nat
        BY <1>1, <2>1 DEF Shape, Hubs
      <4>2. QED
        BY <4>1 DEF QueueInv, Calls
    <3>2. intake'.said = Len(hub.said)
      BY <1>1, <2>4 DEF ReadIssue, Shape, Intakes
    <3>3. intake'.pc = "reopened" => rec.phase = "paused"
      BY <1>1, <2>4 DEF ReadIssue, Shape, Intakes
    <3>4. ~intake'.window => ~intake'.open /\ ~rec.closed /\ ~rec.closing
      <4> DEFINE o == intake.open \/ hub.issue = "open"
                 w == o \/ rec.closed \/ rec.closing
      <4> DEFINE pc == IF o /\ rec.phase = "paused" THEN "reopened" ELSE "comments"
      <4>1. intake' = [intake EXCEPT !.pc = pc, !.open = o, !.window = w,
                                     !.said = Len(hub.said), !.marked = hub.marked, !.resolved = hub.resolved]
        BY <2>4 DEF ReadIssue
      <4>2. o \in BOOLEAN /\ w \in BOOLEAN
        OBVIOUS
      <4> HIDE DEF pc, o, w
      <4>3. intake'.open = o /\ intake'.window = w
        BY <1>1, <4>1, <4>2 DEF Shape, Intakes
      <4>4. QED
        BY <4>3 DEF o, w
    <3>5. UNCHANGED rec
      BY <2>4 DEF ReadIssue, Still
    <3>6. QED
      BY <2>1, <3>1, <3>2, <3>3, <3>4, <3>5 DEF ServingInv
  <2>5. CASE TakeComment
    BY <2>1, <2>5 DEF TakeComment, serial, In, ServingInv
  <2>6. ~Reopened /\ ~TakeClose
    BY <1>6 DEF Reopened, TakeClose
  <2>7. QED
    BY <1>6, <2>2, <2>3, <2>4, <2>5, <2>6 DEF Intake
<1>7. IntakeFails => \E ok \in BOOLEAN : Return(ok)
  BY DEF IntakeFails
<1>8. QED
  BY <1>2, <1>3, <1>4, <1>5, <1>6, <1>7 DEF Others

LEMMA FreshNext == ASSUME RecordInv, LaneInv, QueueInv, ServingInv, RefreshIsFresh, Next PROVE RefreshIsFresh'
<1>1. Shape /\ TypeOK
  BY Shapes DEF RecordInv
<1>2. Nobody.who = "nobody"
  BY DEF Nobody
<1>3. CASE Intake \/ IntakeFails
  <2>1. turn.who = "nobody" /\ (UNCHANGED turn \/ \E ok \in BOOLEAN : Return(ok))
    BY <1>1, <1>2, <1>3, IntakeActionMoves DEF IntakeMoves, Quiet
  <2>2. CASE UNCHANGED turn
    BY <2>1, <2>2 DEF RefreshIsFresh
  <2>3. ASSUME NEW ok \in BOOLEAN, Return(ok) PROVE RefreshIsFresh'
    <3>1. turn'.who = Caller /\ turn'.ok = ok
      BY <2>3 DEF Return, Caller
    <3>2. CASE ok /\ Intake
      BY <2>3, <3>1, <3>2, ReturnsFresh DEF RefreshIsFresh
    <3>3. CASE ~ok
      BY <3>1, <3>3 DEF RefreshIsFresh
    <3>4. CASE IntakeFails
      <4>1. turn'.ok = FALSE
        BY <3>4 DEF IntakeFails, Return
      <4>2. QED
        BY <4>1 DEF RefreshIsFresh
    <3>5. QED
      BY <1>3, <3>2, <3>3, <3>4
  <2>4. QED
    BY <2>1, <2>2, <2>3
<1>4. CASE ReleaseLane
  BY <1>1, <1>2, <1>4, ReleaseLaneMoves DEF LaneMoves, Asks, Quiet, RefreshIsFresh
<1>5. CASE Worker
  BY <1>1, <1>2, <1>5, WorkerActionMoves DEF WorkerMoves, Asks, Quiet, RefreshIsFresh
<1>6. CASE Tick \/ WorkerFails \/ LaneFails
  BY <1>2, <1>6 DEF Tick, WorkerFails, LaneFails, serial, Quiet, RefreshIsFresh
<1>7. CASE Admit \/ Restart
  BY <1>2, <1>7 DEF Admit, Restart, RefreshIsFresh
<1>8. CASE Owners
  BY <1>8 DEF Owners, EditTodo, Comment, CloseIssue, ReopenIssue, Owner, serial, RefreshIsFresh
<1>9. QED
  BY <1>3, <1>4, <1>5, <1>6, <1>7, <1>8 DEF Next, Owners

-----------------------------------------------------------------------------
(* What closing the issue rests on.                                         *)

LEMMA LaneReleasing ==
  ASSUME ReleaseLane, rec \in Records, rel' \in Releasing
  PROVE  (rel \in Releasing \/ rec.trouble = "none") /\ rec'.trouble = rec.trouble
<1>1. CASE Select
  BY <1>1 DEF Select, Claim, Entry, Answering, Releasing, Records, Lane, Save, Keep, Still, Guarded
<1>2. CASE Guard
  BY <1>2 DEF Guard, Releasing, Records, Lane, Save, Keep, Still, Guarded
<1>3. CASE Retry
  BY <1>3 DEF Retry, Releasing, Records, Lane, Save, Keep, Still, Guarded
<1>4. CASE AnswerAgain
  BY <1>4 DEF AnswerAgain, Releasing, Records, Lane, Save, Keep, Still, Guarded
<1>5. CASE Release
  BY <1>5 DEF Release, Releasing, Records, Lane, Save, Keep, Still, Guarded
<1>6. CASE Validate
  BY <1>6 DEF Validate, Releasing, Records, Lane, Save, Keep, Still, Guarded
<1>7. CASE Validated
  BY <1>7 DEF Validated, Releasing, Records, Lane, Save, Keep, Still, Guarded
<1>8. CASE Publish
  BY <1>8 DEF Publish, Current, Releasing, Records, Lane, Save, Keep, Still, Guarded
<1>9. CASE Propose
  BY <1>9 DEF Propose, Current, Releasing, Records, Lane, Save, Keep, Still, Guarded
<1>10. CASE Proposed
  BY <1>10 DEF Proposed, Releasing, Records, Lane, Save, Keep, Still, Guarded
<1>11. CASE Checks
  BY <1>11 DEF Checks, Releasing, Records, Lane, Save, Keep, Still, Guarded
<1>12. CASE Checked
  BY <1>12 DEF Checked, Releasing, Records, Lane, Save, Keep, Still, Guarded
<1>13. CASE Merge
  BY <1>13 DEF Merge, Overtaken, Releasing, Records, Lane, Save, Keep, Still, Guarded
<1>14. CASE Merged
  BY <1>14 DEF Merged, Releasing, Records, Lane, Save, Keep, Still, Guarded
<1>15. CASE Deploy
  BY <1>15 DEF Deploy, Releasing, Records, Lane, Save, Keep, Still, Guarded
<1>16. CASE Deployed
  BY <1>16 DEF Deployed, Releasing, Records, Lane, Save, Keep, Still, Guarded
<1>17. CASE Finalize
  BY <1>17 DEF Finalize, Refresh, Releasing, Records, Lane, Save, Keep, Still, Guarded
<1>18. CASE Follow
  BY <1>18 DEF Follow, Releasing, Records, Lane, Save, Keep, Still, Guarded
<1>19. CASE Resolve
  BY <1>19 DEF Resolve, Refresh, LateFrom, Releasing, Records, Lane, Save, Keep, Still, Guarded
<1>20. CASE Close
  BY <1>20 DEF Close, Fresh, LateFrom, Releasing, Records, Lane, Save, Keep, Still, Guarded
<1>21. CASE Patch
  BY <1>21 DEF Patch, Releasing, Records, Lane, Save, Keep, Still, Guarded
<1>22. CASE Patched
  BY <1>22 DEF Patched, Releasing, Records, Lane, Save, Keep, Still, Guarded
<1>23. CASE CompleteTodo
  BY <1>23 DEF CompleteTodo, Fresh, LateFrom, Refresh, Confirm, Complete, Restore, Lost, ReopenItem, Restored, Drifted, Releasing, Records, Lane, Save, Keep, Still, Guarded
<1>24. CASE Terminate
  BY <1>24 DEF Terminate, Tidy, Fresh, LateFrom, Confirm, Lost, Refresh, Releasing, Records, Lane, Save, Keep, Still, Guarded
<1>25. CASE LateOwnerInput
  BY <1>25 DEF LateOwnerInput, Late, LateItem, LateInput, LateIssue, LateStart, ReopenItem, Releasing, Records, Lane, Save, Keep, Still, Guarded
<1>26. QED
  BY <1>1, <1>2, <1>3, <1>4, <1>5, <1>6, <1>7, <1>8, <1>9, <1>10, <1>11, <1>12, <1>13, <1>14, <1>15, <1>16, <1>17, <1>18, <1>19, <1>20, <1>21, <1>22, <1>23, <1>24, <1>25 DEF ReleaseLane

LEMMA LaneDecides ==
  ASSUME ReleaseLane
  PROVE  /\ rel' = "close" => Finalize \/ Resolve
         /\ rel' = "patch" => Close
<1>1. CASE Select
  BY <1>1 DEF Select, Claim, Entry, Answering, Lane
<1>2. CASE Guard
  BY <1>2 DEF Guard, Lane
<1>3. CASE Retry
  BY <1>3 DEF Retry, Lane
<1>4. CASE AnswerAgain
  BY <1>4 DEF AnswerAgain, Lane
<1>5. CASE Release
  BY <1>5 DEF Release, Lane
<1>6. CASE Validate
  BY <1>6 DEF Validate, Lane
<1>7. CASE Validated
  BY <1>7 DEF Validated, Lane
<1>8. CASE Publish
  BY <1>8 DEF Publish, Current, Lane
<1>9. CASE Propose
  BY <1>9 DEF Propose, Current, Lane
<1>10. CASE Proposed
  BY <1>10 DEF Proposed, Lane
<1>11. CASE Checks
  BY <1>11 DEF Checks, Lane
<1>12. CASE Checked
  BY <1>12 DEF Checked, Lane
<1>13. CASE Merge
  BY <1>13 DEF Merge, Overtaken, Lane
<1>14. CASE Merged
  BY <1>14 DEF Merged, Lane
<1>15. CASE Deploy
  BY <1>15 DEF Deploy, Lane
<1>16. CASE Deployed
  BY <1>16 DEF Deployed, Lane
<1>17. CASE Finalize
  BY <1>17 DEF Finalize, Refresh, Lane
<1>18. CASE Follow
  BY <1>18 DEF Follow, Lane
<1>19. CASE Resolve
  BY <1>19 DEF Resolve, Refresh, LateFrom, Lane
<1>20. CASE Close
  BY <1>20 DEF Close, Fresh, LateFrom, Lane
<1>21. CASE Patch
  BY <1>21 DEF Patch, Lane
<1>22. CASE Patched
  BY <1>22 DEF Patched, Lane
<1>23. CASE CompleteTodo
  BY <1>23 DEF CompleteTodo, Fresh, LateFrom, Refresh, Confirm, Complete, Restore, Lost, ReopenItem, Restored, Drifted, Lane
<1>24. CASE Terminate
  BY <1>24 DEF Terminate, Tidy, Fresh, LateFrom, Confirm, Lost, Refresh, Lane
<1>25. CASE LateOwnerInput
  BY <1>25 DEF LateOwnerInput, Late, LateItem, LateInput, LateIssue, LateStart, ReopenItem, Lane
<1>26. QED
  BY <1>1, <1>2, <1>3, <1>4, <1>5, <1>6, <1>7, <1>8, <1>9, <1>10, <1>11, <1>12, <1>13, <1>14, <1>15, <1>16, <1>17, <1>18, <1>19, <1>20, <1>21, <1>22, <1>23, <1>24, <1>25 DEF ReleaseLane

LEMMA LaneCloses ==
  ASSUME ReleaseLane, hub \in Hubs, hub'.issue = "closed", hub.issue # "closed"
  PROVE  rel = "patch"
<1>1. CASE Select
  BY <1>1 DEF Select, Claim, Entry, Answering, Lane, Superseded, Hubs
<1>2. CASE Guard
  BY <1>2 DEF Guard, Lane, Superseded, Hubs
<1>3. CASE Retry
  BY <1>3 DEF Retry, Lane, Superseded, Hubs
<1>4. CASE AnswerAgain
  BY <1>4 DEF AnswerAgain, Lane, Superseded, Hubs
<1>5. CASE Release
  BY <1>5 DEF Release, Lane, Superseded, Hubs
<1>6. CASE Validate
  BY <1>6 DEF Validate, Lane, Superseded, Hubs
<1>7. CASE Validated
  BY <1>7 DEF Validated, Lane, Superseded, Hubs
<1>8. CASE Publish
  BY <1>8 DEF Publish, Current, Lane, Superseded, Hubs
<1>9. CASE Propose
  BY <1>9 DEF Propose, Current, Lane, Superseded, Hubs
<1>10. CASE Proposed
  BY <1>10 DEF Proposed, Lane, Superseded, Hubs
<1>11. CASE Checks
  BY <1>11 DEF Checks, Lane, Superseded, Hubs
<1>12. CASE Checked
  BY <1>12 DEF Checked, Lane, Superseded, Hubs
<1>13. CASE Merge
  BY <1>13 DEF Merge, Overtaken, Lane, Superseded, Hubs
<1>14. CASE Merged
  BY <1>14 DEF Merged, Lane, Superseded, Hubs
<1>15. CASE Deploy
  BY <1>15 DEF Deploy, Lane, Superseded, Hubs
<1>16. CASE Deployed
  BY <1>16 DEF Deployed, Lane, Superseded, Hubs
<1>17. CASE Finalize
  BY <1>17 DEF Finalize, Refresh, Lane, Superseded, Hubs
<1>18. CASE Follow
  BY <1>18 DEF Follow, Lane, Superseded, Hubs
<1>19. CASE Resolve
  BY <1>19 DEF Resolve, Refresh, LateFrom, Lane, Superseded, Hubs
<1>20. CASE Close
  BY <1>20 DEF Close, Fresh, LateFrom, Lane, Superseded, Hubs
<1>21. CASE Patch
  BY <1>21 DEF Patch, Lane, Superseded, Hubs
<1>22. CASE Patched
  BY <1>22 DEF Patched, Lane, Superseded, Hubs
<1>23. CASE CompleteTodo
  BY <1>23 DEF CompleteTodo, Fresh, LateFrom, Refresh, Confirm, Complete, Restore, Lost, ReopenItem, Restored, Drifted, Lane, Superseded, Hubs
<1>24. CASE Terminate
  BY <1>24 DEF Terminate, Tidy, Fresh, LateFrom, Confirm, Lost, Refresh, Lane, Superseded, Hubs
<1>25. CASE LateOwnerInput
  BY <1>25 DEF LateOwnerInput, Late, LateItem, LateInput, LateIssue, LateStart, ReopenItem, Lane, Superseded, Hubs
<1>26. QED
  BY <1>1, <1>2, <1>3, <1>4, <1>5, <1>6, <1>7, <1>8, <1>9, <1>10, <1>11, <1>12, <1>13, <1>14, <1>15, <1>16, <1>17, <1>18, <1>19, <1>20, <1>21, <1>22, <1>23, <1>24, <1>25 DEF ReleaseLane

LEMMA LaneClosing == ASSUME RecordInv, QueueInv, ClosingInv, ReleaseLane PROVE ClosingInv'
<1>1. Held(rec) /\ rec \in Records /\ hub \in Hubs /\ Shape
  BY Shapes DEF RecordInv, Held, Shape
<1>2. rel' \in Releasing => rec'.trouble = "none"
  BY <1>1, LaneReleasing DEF ClosingInv
<1>3. rel' = "close" => Delivered' \/ Resolved'
  <2>1. CASE Finalize /\ rel' = "close"
    <3>1. rec.merged /\ rec.verified /\ hub' = [hub EXCEPT !.marked = TRUE] /\ UNCHANGED rec
      BY <2>1 DEF Finalize, Refresh, Still
    <3>2. QED
      BY <1>1, <3>1 DEF Delivered, Hubs
  <2>2. CASE Resolve /\ rel' = "close"
    <3>1. ~rec.candidate /\ hub' = [hub EXCEPT !.resolved = rec.proc] /\ UNCHANGED rec
      BY <2>2 DEF Resolve, Refresh, LateFrom, Still
    <3>2. QED
      BY <1>1, <3>1 DEF Resolved, Hubs
  <2>3. QED
    BY <2>1, <2>2, LaneDecides
<1>4. rel' = "patch" => Resolved' \/ (Delivered' /\ Claiming')
  <2>1. ASSUME rel' = "patch" PROVE Resolved' \/ (Delivered' /\ Claiming')
    <3>1. /\ rel = "close" /\ turn.who = "release" /\ ~Pending(rec) /\ rec.phase # "paused"
          /\ rec' = [rec EXCEPT !.closing = TRUE] /\ UNCHANGED <<hub, intake>>
      BY <2>1, LaneDecides DEF Close, Fresh, LateFrom, Save
    <3>2. intake.pc = "idle"
      BY <3>1 DEF QueueInv, Quiet, Nobody
    <3>3. Delivered \/ Resolved
      BY <3>1 DEF ClosingInv
    <3>4. /\ rec'.closing /\ rec'.phase = rec.phase /\ rec'.merged = rec.merged /\ rec'.verified = rec.verified
          /\ rec'.proc = rec.proc /\ rec'.candidate = rec.candidate
      BY <1>1, <3>1 DEF Records
    <3>5. QED
      BY <3>1, <3>2, <3>3, <3>4 DEF Delivered, Resolved, Claiming
  <2>2. QED
    BY <2>1
<1>5. QED
  BY <1>2, <1>3, <1>4 DEF ClosingInv

\* While the lane is about to close the issue of a delivered release, the intake
\* takes what was said into the record and leaves the release as it is.
LEMMA IntakeClaiming ==
  ASSUME RecordInv, Intake \/ IntakeFails, Delivered, Claiming, rec.trouble = "none"
  PROVE  rec'.merged /\ rec'.verified /\ Claiming'
<1>1. Held(rec) /\ intake \in Intakes /\ hub.marked /\ rec.merged /\ rec.verified /\ intake.text \in Texts
  BY Shapes DEF RecordInv, Shape, Delivered, Intakes
<1>2. Idle.pc = "idle"
  BY DEF Idle
<1>3. \A ok : Return(ok) => intake'.pc = "idle"
  BY <1>2 DEF Return
<1>4. CASE ReadTodo
  BY <1>1, <1>4 DEF ReadTodo, Still, Claiming, Idle
<1>5. CASE TakeEdit
  <2>1. Unshaken(rec, rec') /\ intake'.pc = "list"
    BY <1>1, <1>5, EditedTaken DEF TakeEdit, Save, Intakes
  <2>2. QED
    BY <1>1, <2>1 DEF Unshaken, Claiming
<1>6. CASE ListIssues
  <2>1. intake'.pc \in {"idle", "read"}
    BY <1>1, <1>3, <1>6 DEF ListIssues, Intakes
  <2>2. QED
    BY <1>1, <1>6, <2>1 DEF ListIssues, Still, Claiming
<1>7. CASE ReadIssue
  <2>1. intake'.pc = "comments" /\ intake'.marked /\ UNCHANGED rec
    BY <1>1, <1>7 DEF ReadIssue, Still, Claiming, Intakes
  <2>2. QED
    BY <1>1, <2>1 DEF Claiming
<1>8. ~Reopened
  BY DEF Reopened, In, Claiming
<1>9. CASE TakeComment
  <2>1. PICK command : rec' = [Commanded(rec, command) EXCEPT !.cursor = @ + 1]
    BY <1>9 DEF TakeComment, Save, Keep
  <2>2. PICK s : s = Commanded(rec, command)
    OBVIOUS
  <2>3. Held(s) /\ Unshaken(rec, s)
    BY <1>1, <2>2, CommandedFollows, CommandedTaken DEF Follows
  <2>4. rec' = [s EXCEPT !.cursor = @ + 1]
    BY <2>1, <2>2
  <2>5. /\ rec'.merged = s.merged /\ rec'.verified = s.verified /\ rec'.phase = s.phase
        /\ rec'.closing = s.closing /\ rec'.closed = s.closed
    BY <2>3, <2>4 DEF Held, Records
  <2>6. UNCHANGED intake
    BY <1>9 DEF TakeComment, serial
  <2>7. QED
    BY <1>1, <2>3, <2>5, <2>6 DEF Unshaken, Claiming
<1>10. CASE TakeClose
  <2>1. intake.marked /\ intake'.pc = "idle"
    BY <1>3, <1>10 DEF TakeClose, In, Claiming
  <2>2. CASE ~intake.open /\ ~rec.closed
    <3>1. rec' = [rec EXCEPT !.phase = "deploying", !.closed = TRUE, !.closing = FALSE]
      BY <1>1, <1>10, <2>1, <2>2 DEF TakeClose, Save, ClosedIssue, Claiming
    <3>2. QED
      BY <1>1, <2>1, <3>1 DEF Claiming, Held, Records
  <2>3. CASE ~(~intake.open /\ ~rec.closed)
    BY <1>1, <1>10, <2>1, <2>3 DEF TakeClose, Save, Claiming
  <2>4. QED
    BY <2>2, <2>3
<1>11. CASE IntakeFails
  BY <1>1, <1>3, <1>11 DEF IntakeFails, Still, Claiming
<1>12. QED
  BY <1>4, <1>5, <1>6, <1>7, <1>8, <1>9, <1>10, <1>11 DEF Intake

\* The intake leaves the evidence and the issue on GitHub as they are.
LEMMA IntakeHub ==
  ASSUME hub \in Hubs, Intake \/ IntakeFails
  PROVE  hub'.marked = hub.marked /\ hub'.resolved = hub.resolved /\ hub'.issue = hub.issue
<1>1. hub' = hub \/ hub' = [hub EXCEPT !.pr = "none"]
  BY DEF Intake, ReadTodo, TakeEdit, ListIssues, ReadIssue, Reopened, TakeComment, TakeClose, IntakeFails, Superseded
<1>2. QED
  BY <1>1 DEF Hubs

LEMMA IntakeClosing == ASSUME RecordInv, QueueInv, ClosingInv, Intake \/ IntakeFails PROVE ClosingInv'
<1>1. /\ Held(rec) /\ hub \in Hubs /\ Taken(rec, rec') /\ UNCHANGED rel
      /\ hub'.marked = hub.marked /\ hub'.resolved = hub.resolved
  BY Shapes, IntakeTakes, IntakeHub, IntakeActionMoves DEF RecordInv, Shape, IntakeMoves
<1>2. rel' \in Releasing => rec'.trouble = "none"
  BY <1>1 DEF ClosingInv, Taken
<1>3. Resolved => Resolved'
  BY <1>1 DEF Resolved, Taken
<1>4. Delivered => Delivered' \/ Pending(rec')
  BY <1>1 DEF Delivered, Taken
<1>5. Pending(rec) => Pending(rec')
  BY <1>1 DEF Taken
<1>6. rel' = "close" => Delivered' \/ Resolved' \/ Pending(rec')
  BY <1>1, <1>3, <1>4, <1>5 DEF ClosingInv
<1>7. rel = "patch" /\ Delivered /\ Claiming => Delivered' /\ Claiming'
  <2>1. rel = "patch" => rec.trouble = "none"
    BY DEF ClosingInv, Releasing
  <2>2. QED
    BY <1>1, <2>1, IntakeClaiming DEF Delivered
<1>8. rel' = "patch" => Resolved' \/ (Delivered' /\ Claiming')
  BY <1>1, <1>3, <1>7 DEF ClosingInv
<1>9. Pending(rec)' <=> Pending(rec')
  BY DEF Pending
<1>10. QED
  BY <1>2, <1>6, <1>8, <1>9 DEF ClosingInv

LEMMA ClosingNext == ASSUME RecordInv, LaneInv, QueueInv, ClosingInv, Next PROVE ClosingInv'
<1>1. Shape
  BY Shapes DEF RecordInv
<1>2. CASE ReleaseLane
  BY <1>2, LaneClosing
<1>3. CASE Worker \/ WorkerFails
  <2>1. rel' \in {"idle", "select"}
    BY <1>3, Alone
  <2>2. QED
    BY <2>1 DEF ClosingInv, Releasing
<1>4. CASE Intake \/ IntakeFails
  BY <1>4, IntakeClosing
<1>5. CASE Tick \/ Owners
  <2>1. UNCHANGED <<rec, rel, intake>>
    BY <1>5 DEF Tick, Owners, EditTodo, Comment, CloseIssue, ReopenIssue, Owner, serial
  <2>2. hub'.marked = hub.marked /\ hub'.resolved = hub.resolved
    BY <1>1, <1>5 DEF Tick, Owners, EditTodo, Comment, CloseIssue, ReopenIssue, Owner, Shape, Hubs
  <2>3. QED
    BY <2>1, <2>2 DEF ClosingInv, Delivered, Resolved, Claiming, Pending
<1>6. CASE Admit
  <2>1. CASE rel \in {"idle", "select"}
    <3>1. rel' \in {"idle", "select"}
      BY <1>6, <2>1 DEF Admit
    <3>2. QED
      BY <3>1 DEF ClosingInv, Releasing
  <2>2. CASE rel \notin {"idle", "select"}
    <3>1. ~WorkerDue(rec)
      BY <2>2 DEF LaneInv, WorkerDue, Claimed
    <3>2. UNCHANGED <<rec, rel, hub, intake>>
      BY <1>6, <2>2, <3>1 DEF Admit, Still
    <3>3. QED
      BY <3>2 DEF ClosingInv, Delivered, Resolved, Claiming, Pending
  <2>3. QED
    BY <2>1, <2>2
<1>7. CASE LaneFails \/ Restart
  <2>1. rel' \in {"release", "idle"}
    BY <1>7 DEF LaneFails, Restart
  <2>2. QED
    BY <2>1 DEF ClosingInv, Releasing
<1>8. QED
  BY <1>2, <1>3, <1>4, <1>5, <1>6, <1>7 DEF Next, Owners

-----------------------------------------------------------------------------
(* The invariant, and what it shows.                                        *)
LEMMA ControllerInit == ASSUME Init PROVE ControllerInv
<1>1. Held(NewRecord)
  <2>1. PICK c \in 0..MaxOwner, n \in 0..AutoRetryLimit, m \in 0..MaxRepairs : c = 0 /\ n = 0 /\ m = 0
    BY ControllerConstants
  <2>2. [phase |-> "queued", input |-> 1, proc |-> 0, gen |-> 1, text |-> FirstText, texts |-> {FirstText},
         cursor |-> c, outcome |-> "none", tree |-> FALSE, candidate |-> FALSE, trouble |-> "none",
         pr |-> FALSE, checked |-> FALSE, merged |-> FALSE, verified |-> FALSE,
         closing |-> FALSE, closed |-> FALSE, completing |-> FALSE, race |-> FALSE, done |-> FALSE,
         drift |-> FALSE, eligible |-> FALSE, retries |-> n, repairs |-> m,
         failures |-> [input |-> 0, count |-> 0], worker |-> [gen |-> 0, input |-> 0], release |-> FALSE]
          \in Records
    BY ControllerConstants DEF Records, Phases, Decisions
  <2>3. NewRecord \in Records
    BY <2>1, <2>2 DEF NewRecord, NoClaim
  <2>4. QED
    BY <2>3 DEF Held, Accepted, NewRecord, NoClaim
<1>2. Shape
  <2>1. todo \in Todos /\ hub \in Hubs /\ intake \in Intakes /\ worker \in Workers /\ turn \in Turns
    BY ControllerConstants, NobodyTurns DEF Init, Todos, Hubs, Intakes, Idle, Workers
  <2>2. QED
    BY <2>1, ControllerConstants DEF Init, Shape, Lanes
<1>3. RecordInv
  <2>1. Len(hub.said) = 0 /\ intake.said = 0
    BY DEF Init, Idle
  <2>2. QED
    BY <1>1, <1>2, <2>1, Shapes DEF Init, RecordInv, Held
<1>4. LaneInv /\ QueueInv /\ ServingInv /\ RefreshIsFresh /\ ClosingInv
  BY DEF Init, LaneInv, OneLane, QueueInv, Quiet, Nobody, Awaits, ServingInv, Idle, RefreshIsFresh, ClosingInv, Releasing
<1>5. QED
  BY <1>3, <1>4 DEF ControllerInv

LEMMA ControllerNext == ASSUME ControllerInv, [Next]_vars PROVE ControllerInv'
<1>1. CASE Next
  BY <1>1, RecordNext, LaneNext, QueueNext, ServingNext, FreshNext, ClosingNext DEF ControllerInv
<1>2. CASE UNCHANGED vars
  BY <1>2 DEF vars, ControllerInv, RecordInv, TypeOK, LaneInv, OneLane, QueueInv, Awaits, Quiet, ServingInv, Caller,
     RefreshIsFresh, ClosingInv, Delivered, Resolved, Claiming, Pending
<1>3. QED
  BY <1>1, <1>2

\* Whatever the bounds on the owner, the faults, the repairs and the retries:
\* the record, the claim of the lane, the queue of the intake, what a running
\* call has read and what the lane's intention to close the issue rests on
\* agree with one another at every await of the three activities.
THEOREM ControllerInvariant == Spec => []ControllerInv
<1>1. Init => ControllerInv
  BY ControllerInit
<1>2. ControllerInv /\ [Next]_vars => ControllerInv'
  BY ControllerNext
<1>3. QED
  BY <1>1, <1>2, PTL DEF Spec

\* Memory and disk hold a record that readState accepts, after any failure and
\* any restart: no input is processed that was not taken in, a merge is that of
\* a pull request, a verified release is merged, and the retries stay within
\* their limits.
THEOREM ControllerTypes == Spec => []TypeOK
<1>1. ControllerInv => TypeOK
  BY DEF ControllerInv, RecordInv
<1>2. QED
  BY <1>1, ControllerInvariant, PTL

\* The worker and the release lane are never at work on the issue at once: a
\* worker is admitted on a record without a claim, and the lane on one whose
\* worker has also handled its error.
THEOREM OneActivityAtATime == Spec => []OneLane
<1>1. ControllerInv => OneLane
  BY DEF ControllerInv, LaneInv
<1>2. QED
  BY <1>1, ControllerInvariant, PTL

\* However many calls of the intake are queued and however the owner comments,
\* closes and reopens meanwhile, a refresh that succeeds has taken every comment
\* that preceded it, or the issue is completed or paused.
THEOREM RefreshesAreFresh == Spec => []RefreshIsFresh
<1>1. ControllerInv => RefreshIsFresh
  BY DEF ControllerInv
<1>2. QED
  BY <1>1, ControllerInvariant, PTL

\* The controller closes the issue on a merged and verified release whose
\* evidence it posted, or on a resolution posted for the input it processed: the
\* intake, which writes the same record between the check and the call, cannot
\* take the ground away.
THEOREM ClosesAreEarned == Spec => CloseIsEarned
<1> DEFINE Earned == hub'.issue # hub.issue /\ hub'.issue = "closed" /\ asked' = asked
                     => (hub.marked /\ rec.merged /\ rec.verified) \/ hub.resolved = rec.proc
<1>1. ControllerInv /\ [Next]_vars => [Earned]_vars
  <2> SUFFICES ASSUME ControllerInv, Next, hub'.issue # hub.issue, hub'.issue = "closed", asked' = asked
               PROVE  (hub.marked /\ rec.merged /\ rec.verified) \/ hub.resolved = rec.proc
    OBVIOUS
  <2>1. RecordInv /\ LaneInv /\ QueueInv /\ ClosingInv /\ Shape /\ TypeOK /\ hub \in Hubs /\ asked \in Nat
    BY Shapes DEF ControllerInv, RecordInv, Shape
  <2>2. CASE ReleaseLane
    <3>1. rel = "patch"
      BY <2>1, <2>2, LaneCloses
    <3>2. QED
      BY <2>1, <3>1 DEF ClosingInv, Delivered, Resolved
  <2>3. ~Worker
    BY <2>1, WorkerActionMoves DEF WorkerMoves
  <2>4. ~Intake /\ ~IntakeFails
    BY <2>1, IntakeHub
  <2>5. ~Tick /\ ~Admit /\ ~WorkerFails /\ ~LaneFails /\ ~Restart
    BY DEF Tick, Admit, WorkerFails, LaneFails, Restart
  <2>6. ~Owners
    BY <2>1 DEF Owners, EditTodo, Comment, CloseIssue, ReopenIssue, Owner
  <2>7. QED
    BY <2>2, <2>3, <2>4, <2>5, <2>6 DEF Next, Owners
<1>2. QED
  BY <1>1, ControllerInvariant, PTL DEF Spec, CloseIsEarned

=============================================================================
