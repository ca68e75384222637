--------------------------- MODULE IssueController ---------------------------
(***************************************************************************)
(* The parallel supervisor of the admin issue controller                   *)
(* (admin-issue-controller.ts, lib/adminIssueConcurrency.ts) for one       *)
(* issue.  Three activities share its record in memory and interleave at   *)
(* their awaits: the intake, which every activity calls and which runs one *)
(* call at a time; the worker, which turns unprocessed input into an       *)
(* outcome; and the release lane, which publishes, merges, verifies and    *)
(* completes.  The owner meanwhile edits the to-do item, comments, closes  *)
(* and reopens the issue; calls fail and the process restarts from the     *)
(* last state it wrote.                                                    *)
(***************************************************************************)
EXTENDS Naturals, Sequences

CONSTANTS Texts, FirstText,  \* what the to-do item can say
          Commands,          \* what the owner comments: "note", "retry", "retriage"
          MaxOwner,          \* bound on the owner's edits, comments, closes and reopens
          MaxFaults,         \* bound on failed calls and restarts
          MaxRepairs,        \* maxRepairAttempts
          AutoRetryLimit

ASSUME ControllerConstants ==
    /\ FirstText \in Texts
    /\ Commands \subseteq {"note", "retry", "retriage"}
    /\ MaxOwner \in Nat /\ MaxFaults \in Nat /\ MaxRepairs \in Nat /\ AutoRetryLimit \in Nat

VARIABLES rec,      \* the issue's record in memory
          disk,     \* the record as last written
          todo,     \* the Admin To-Do item in Home Assistant
          hub,      \* the issue, its comments and its pull request on GitHub
          intake,   \* the running call of the intake and what it has read
          queue,    \* who waits for the intake; its head is served
          turn,     \* whose call of the intake has just returned
          sup,      \* the supervisor's loop
          worker,   \* the worker activity
          rel,      \* the release lane
          asked, faults

vars == <<rec, disk, todo, hub, intake, queue, turn, sup, worker, rel, asked, faults>>
bounds == <<asked, faults>>
serial == <<intake, queue, turn>>

-----------------------------------------------------------------------------
(* The record.  Its inputs are numbered; input is the last, proc the last  *)
(* one a worker has processed.                                             *)
NoClaim == [gen |-> 0, input |-> 0]

\* The record of a new item, its issue created.
NewRecord ==
    [phase |-> "queued", input |-> 1, proc |-> 0, gen |-> 1, text |-> FirstText, texts |-> {FirstText},
     cursor |-> 0, outcome |-> "none", tree |-> FALSE, candidate |-> FALSE, trouble |-> "none",
     pr |-> FALSE, checked |-> FALSE, merged |-> FALSE, verified |-> FALSE,
     closing |-> FALSE, closed |-> FALSE, completing |-> FALSE, race |-> FALSE, done |-> FALSE,
     drift |-> FALSE, eligible |-> FALSE, retries |-> 0, repairs |-> 0,
     failures |-> [input |-> 0, count |-> 0], worker |-> NoClaim, release |-> FALSE]

Pending(r) == r.input > r.proc

Append1(r) == [r EXCEPT !.input = @ + 1]

Requeue(r) == IF r.phase \in {"deploying", "completed"} THEN r ELSE [r EXCEPT !.phase = "queued"]

\* beginAdminIssueGeneration
NewGeneration(r) ==
    [r EXCEPT !.gen = @ + 1, !.phase = "queued", !.outcome = "none", !.tree = FALSE,
              !.candidate = FALSE, !.trouble = "none", !.pr = FALSE, !.checked = FALSE,
              !.merged = FALSE, !.verified = FALSE, !.closing = FALSE, !.closed = FALSE,
              !.completing = FALSE, !.race = FALSE, !.done = FALSE, !.drift = FALSE, !.repairs = 0]

\* issueRequiresCompletionRepair
NeedsRepair(r) ==
    Pending(r) /\ (r.closed \/ r.closing \/ r.completing \/ r.race \/ r.done \/ r.drift)

Blocked(r, retry) ==
    [r EXCEPT !.phase = "blocked", !.outcome = "blocked",
              !.eligible = retry /\ r.trouble # "quarantined"]

\* A failed validation goes back to the worker until the attempts are used up.
Repaired(r) ==
    IF r.repairs >= MaxRepairs THEN Blocked(r, TRUE)
    ELSE [Append1(r) EXCEPT !.repairs = @ + 1, !.phase = "queued"]

RetryDue(r) ==
    /\ r.phase = "blocked" /\ r.eligible /\ r.retries < AutoRetryLimit
    /\ ~Pending(r) /\ r.trouble # "quarantined"

\* retryBlockedRecord under blockedRetryPlan
Retried(r, owner) ==
    LET s == [r EXCEPT !.eligible = FALSE, !.repairs = 0, !.retries = IF owner THEN 0 ELSE @ + 1]
    IN  IF r.trouble # "none" THEN Append1(NewGeneration(s))
        ELSE IF r.merged THEN [s EXCEPT !.phase = "deploying"]
        ELSE IF r.pr /\ r.candidate THEN [s EXCEPT !.phase = "pull-request"]
        ELSE [Append1(s) EXCEPT !.phase = "queued"]

\* The pull request a new generation leaves behind is closed, and is no longer this record's.
Superseded(r, h) == IF r.pr \/ r.candidate THEN [h EXCEPT !.pr = "none"] ELSE h

Save(r) == rec' = r /\ disk' = r
Keep(r) == rec' = r /\ UNCHANGED disk
Still == UNCHANGED <<rec, disk>>

-----------------------------------------------------------------------------
(* The intake: reconcileTodos, then reconcileGitHubInputs.                 *)
Idle == [pc |-> "idle", text |-> FirstText, open |-> FALSE, window |-> FALSE, said |-> 0,
         marked |-> FALSE, resolved |-> 0]

\* A call is told apart by what had been said when it was made.
Nobody == [who |-> "nobody", said |-> 0, ok |-> TRUE]
Quiet == turn = Nobody

Call(c) == queue' = Append(queue, [who |-> c, said |-> Len(hub.said)])

Return(ok) ==
    /\ intake' = Idle
    /\ queue' = Tail(queue)
    /\ turn' = [who |-> Head(queue).who, said |-> Head(queue).said, ok |-> ok]

In(pc) == Quiet /\ intake.pc = pc /\ UNCHANGED <<todo, sup, worker, rel, bounds>>

\* Only an item that still needs action and whose content changed is taken.
ReadTodo ==
    /\ In("idle") /\ queue # <<>>
    /\ intake' = [Idle EXCEPT !.pc = IF ~todo.done /\ todo.text # rec.text THEN "edited" ELSE "list",
                              !.text = todo.text]
    /\ UNCHANGED <<hub, queue, turn>> /\ Still

\* appendIssueInput knows the content by its fingerprint and takes it once.
Edited(r, text) ==
    LET s == [r EXCEPT !.text = text, !.texts = @ \cup {text}]
    IN  Requeue(IF text \in r.texts THEN s ELSE Append1(s))

TakeEdit ==
    /\ In("edited")
    /\ Save(Edited(rec, intake.text))
    /\ intake' = [intake EXCEPT !.pc = "list"]
    /\ UNCHANGED <<hub, queue, turn>>

\* MUTANT: the inputs of an issue that is being released are not read.
SkippedInRelease(r, open) == r.phase \in {"completed", "deploying"}

Skipped(r, open) ==
    r.phase = "completed" \/ (r.phase = "paused" /\ ~open /\ ~r.closed /\ ~r.closing)

ListIssues ==
    /\ In("list")
    /\ LET open == hub.issue = "open" IN
         IF Skipped(rec, open) THEN Return(TRUE)
         ELSE /\ intake' = [intake EXCEPT !.pc = "read", !.open = open]
              /\ UNCHANGED <<queue, turn>>
    /\ UNCHANGED hub /\ Still

\* A listed issue is taken to be open; any other is looked up.
ReadIssue ==
    /\ In("read")
    /\ LET open == intake.open \/ hub.issue = "open" IN
         intake' = [intake EXCEPT
             !.pc = IF open /\ rec.phase = "paused" THEN "reopened" ELSE "comments",
             !.open = open,
             !.window = open \/ rec.closed \/ rec.closing,
             !.said = Len(hub.said), !.marked = hub.marked, !.resolved = hub.resolved]
    /\ UNCHANGED <<hub, queue, turn>> /\ Still

\* A reopened issue starts over, when there is a candidate to verify and set aside.
Reopened ==
    /\ In("reopened")
    /\ IF rec.phase = "paused" /\ rec.tree /\ rec.candidate
       THEN /\ Save([Append1([NewGeneration(rec) EXCEPT !.proc = rec.input])
                        EXCEPT !.cursor = intake.said])
            /\ hub' = Superseded(rec, hub)
       ELSE Still /\ UNCHANGED hub
    /\ Return(TRUE)

Noted(r) ==
    LET s == Append1(r) IN IF r.trouble # "none" THEN NewGeneration(s) ELSE Requeue(s)

\* MUTANT: only a completed issue refuses.
RetriageRefusedLate(r) == r.phase = "completed"

RetriageRefused(r) == r.phase \in {"deploying", "completed"} \/ r.merged

Commanded(r, command) ==
    CASE command = "retry" -> IF r.phase = "blocked" THEN Retried(r, TRUE) ELSE r
      [] command = "retriage" ->
            IF RetriageRefused(r) THEN r
            ELSE Append1([NewGeneration(r) EXCEPT !.retries = 0, !.eligible = FALSE])
      [] OTHER -> Noted(r)

TakeComment ==
    /\ In("comments") /\ intake.window /\ rec.cursor < intake.said
    /\ LET command == hub.said[rec.cursor + 1]
           r == [Commanded(rec, command) EXCEPT !.cursor = @ + 1]
       IN  /\ IF command = "note" THEN Keep(r) ELSE Save(r)
           /\ hub' = IF r.gen = rec.gen THEN hub ELSE Superseded(rec, hub)
    /\ UNCHANGED serial

\* controllerClosedIssueDisposition and reconcileClosedIssueRecord
ClosedIssue(r) ==
    IF r.closing /\ intake.marked /\ r.merged /\ r.verified
    THEN [r EXCEPT !.phase = "deploying", !.closed = TRUE, !.closing = FALSE]
    ELSE IF r.closing /\ intake.resolved = r.proc /\ r.outcome = "resolved"
    THEN [r EXCEPT !.phase = "resolving", !.closed = TRUE, !.closing = FALSE]
    ELSE [r EXCEPT !.phase = "paused"]

TakeClose ==
    /\ In("comments") /\ (intake.window => rec.cursor >= intake.said)
    /\ Save(IF ~intake.open /\ ~rec.closed THEN ClosedIssue(rec) ELSE rec)
    /\ UNCHANGED hub
    /\ Return(TRUE)

\* A call of the intake that fails has taken what it took before.
IntakeFails ==
    /\ Quiet /\ intake.pc # "idle" /\ faults < MaxFaults
    /\ faults' = faults + 1
    /\ Return(FALSE) /\ Still
    /\ UNCHANGED <<todo, hub, sup, worker, rel, asked>>

Intake ==
    \/ ReadTodo \/ TakeEdit \/ ListIssues \/ ReadIssue \/ Reopened \/ TakeComment \/ TakeClose

-----------------------------------------------------------------------------
(* The supervisor: intake, then admission of the worker and of the release *)
(* lane (runParallelSupervisorTick).                                       *)
Claimed(r) == r.worker # NoClaim \/ r.release

WorkerDue(r) ==
    /\ r.phase \in {"queued", "researching"} /\ Pending(r) /\ r.trouble = "none"
    /\ ~Claimed(r) /\ ~NeedsRepair(r) /\ worker.pc = "idle"

Tick ==
    /\ Quiet /\ sup = "sleep"
    /\ sup' = "intake" /\ Call("tick")
    /\ UNCHANGED <<rec, disk, todo, hub, intake, turn, worker, rel, bounds>>

\* beginIssueWorkerClaim
Begun(r) ==
    [r EXCEPT !.worker = [gen |-> r.gen, input |-> r.input], !.phase = "researching"]

Admit ==
    /\ turn.who = "tick" /\ turn' = Nobody /\ sup' = "sleep"
    /\ IF turn.ok /\ WorkerDue(rec)
       THEN Save(Begun(rec)) /\ worker' = [worker EXCEPT !.pc = "prepare"]
       ELSE Still /\ UNCHANGED worker
    /\ rel' = IF turn.ok /\ rel = "idle" THEN "select" ELSE rel
    /\ UNCHANGED <<todo, hub, intake, queue, bounds>>

-----------------------------------------------------------------------------
(* The worker: runParallelIssueWorker, runIssueWorker and                  *)
(* handleParallelWorkerError.  Its why is the error it ends with.          *)
Working(pc) == Quiet /\ worker.pc = pc /\ UNCHANGED <<todo, hub, intake, turn, sup, rel, bounds>>

WorkerTo(pc) == worker' = [worker EXCEPT !.pc = pc]
WorkerEnds(why) == worker' = [pc |-> "finish", why |-> why]

\* ensureWorktree, then assertWorkerClaimCanStart.
Prepare ==
    /\ Working("prepare") /\ UNCHANGED queue
    /\ Save([rec EXCEPT !.tree = TRUE])
    /\ IF rec.gen # rec.worker.gen \/ rec.trouble # "none" THEN WorkerEnds("provenance")
       ELSE IF rec.phase # "researching" \/ rec.input # rec.worker.input THEN WorkerEnds("deferred")
       ELSE WorkerTo("run")

Decisions == {"ready", "resolved", "needs_input", "blocked"}

\* The result answers the input the worker was claimed with.
Run ==
    /\ Working("run")
    /\ \/ /\ rec.gen # rec.worker.gen
          /\ WorkerEnds("provenance") /\ Still /\ UNCHANGED queue
       \/ /\ rec.gen = rec.worker.gen
          /\ \E d \in Decisions : Save([rec EXCEPT !.proc = rec.worker.input, !.outcome = d])
          /\ WorkerTo("refresh") /\ Call("worker")

WorkerFails ==
    /\ Quiet /\ worker.pc \in {"prepare", "run", "answer"} /\ faults < MaxFaults
    /\ faults' = faults + 1
    /\ WorkerEnds("failed") /\ Still
    /\ UNCHANGED <<todo, hub, serial, sup, rel, asked>>

\* The result is handled only if nothing arrived in the meantime.
Refreshed ==
    /\ turn.who = "worker" /\ turn' = Nobody
    /\ IF ~turn.ok THEN WorkerEnds("failed") /\ Still
       ELSE IF rec.gen # rec.worker.gen THEN WorkerEnds("provenance") /\ Still
       ELSE IF Pending(rec)
       THEN /\ Save(IF rec.phase = "researching" THEN [rec EXCEPT !.phase = "queued"] ELSE rec)
            /\ WorkerEnds("none")
       ELSE IF rec.phase # "researching" THEN WorkerEnds("none") /\ Still
       ELSE IF rec.outcome \in {"ready", "resolved"}
       THEN /\ Save([rec EXCEPT !.phase = IF rec.outcome = "ready" THEN "ready-for-pr" ELSE "resolving"])
            /\ WorkerEnds("none")
       ELSE /\ Keep(IF rec.outcome = "blocked" THEN [rec EXCEPT !.eligible = FALSE] ELSE rec)
            /\ WorkerTo("answer")
    /\ UNCHANGED <<todo, hub, intake, queue, sup, rel, bounds>>

\* The question or the reason is posted before the phase is set.
Answered(r) ==
    [r EXCEPT !.phase = IF Pending(r) THEN "queued"
                        ELSE IF r.outcome = "blocked" THEN "blocked" ELSE "awaiting-user"]

Answer ==
    /\ Working("answer") /\ UNCHANGED queue
    /\ Save(Answered(rec)) /\ WorkerEnds("none")

\* finishIssueWorkerClaim; an error is handled after the claim is gone.
Finish ==
    /\ Working("finish") /\ UNCHANGED queue
    /\ Save([rec EXCEPT !.worker = NoClaim])
    /\ worker' = IF worker.why = "none" THEN [pc |-> "idle", why |-> "none"]
                 ELSE [worker EXCEPT !.pc = "failed"]

Failed(r) ==
    LET count == IF r.failures.input = r.input THEN r.failures.count + 1 ELSE 1
        s == [r EXCEPT !.failures = [input |-> r.input, count |-> count]]
    IN  IF worker.why = "provenance" \/ count >= MaxRepairs
        THEN Blocked(s, TRUE) ELSE [s EXCEPT !.phase = "queued"]

HandleWorkerError ==
    /\ Working("failed") /\ UNCHANGED queue
    /\ worker' = [pc |-> "idle", why |-> "none"]
    /\ Save(IF worker.why = "deferred"
            THEN IF rec.phase = "researching" THEN [rec EXCEPT !.phase = "queued"] ELSE rec
            ELSE IF \/ rec.phase \in {"paused", "completed"}
                    \/ ~Pending(rec) /\ rec.outcome # "none" /\ rec.phase = "researching"
            THEN rec ELSE Failed(rec))

Worker == Prepare \/ Run \/ Refreshed \/ Answer \/ Finish \/ HandleWorkerError

-----------------------------------------------------------------------------
(* The release lane (advanceParallelReleaseLane, processRecord): what it   *)
(* does next is chosen from the record, under its release claim.           *)
Lane(pc) == Quiet /\ rel = pc /\ UNCHANGED <<intake, turn, sup, worker, bounds>>

Answering(r) ==
    CASE r.outcome = "ready" -> [r EXCEPT !.phase = "ready-for-pr"]
      [] r.outcome = "resolved" -> [r EXCEPT !.phase = "resolving"]
      [] OTHER -> r

Entry(r) ==
    IF r.trouble = "quarantined" THEN "guard"
    ELSE IF NeedsRepair(r) THEN "late"
    ELSE IF r.trouble # "none" THEN "guard"
    ELSE CASE r.phase = "ready-for-pr" -> "validate"
           [] r.phase = "resolving" -> "resolve"
           [] r.phase = "pull-request" -> "checks"
           [] r.phase = "deploying" -> IF r.verified THEN "finalize" ELSE "deploy"
           [] OTHER -> "release"

\* MUTANT: a worker whose claim is gone is taken to have ended.
AvailableUnclaimed(r) == ~Claimed(r)

Available(r) == ~Claimed(r) /\ worker.pc = "idle"

Unfinished(r) == r.phase = "researching" /\ ~Pending(r) /\ r.outcome # "none"
InFlight(r) == r.phase \in {"pull-request", "deploying", "ready-for-pr", "resolving"}
Guarded(r) == r.trouble # "none" /\ r.phase \in {"queued", "researching"}

Claim(r, pc) == Save([r EXCEPT !.release = TRUE]) /\ rel' = pc

Select ==
    /\ Lane("select") /\ UNCHANGED <<todo, hub, queue>>
    /\ IF ~Available(rec) THEN rel' = "idle" /\ Still
       ELSE IF NeedsRepair(rec) /\ rec.trouble = "none" THEN Claim(rec, "late")
       ELSE IF Guarded(rec) THEN Claim(rec, "guard")
       ELSE IF Unfinished(rec)
       THEN LET r == Answering(rec) IN
            Claim(r, CASE r.phase = "researching" -> "answer"
                       [] r.phase = "ready-for-pr" -> "validate"
                       [] OTHER -> "release")
       ELSE \/ RetryDue(rec) /\ Claim(rec, "retry")
            \/ InFlight(rec) /\ Claim(rec, Entry(rec))
            \/ ~InFlight(rec) /\ rel' = "idle" /\ Still

Guard ==
    /\ Lane("guard") /\ UNCHANGED <<todo, hub, queue>>
    /\ Keep(Blocked(rec, rec.trouble # "quarantined")) /\ rel' = "release"

\* Once the comment that announces it is posted.
Retry ==
    /\ Lane("retry") /\ UNCHANGED <<todo, queue>>
    /\ Save(Retried(rec, FALSE)) /\ hub' = IF rec.trouble = "none" THEN hub ELSE Superseded(rec, hub)
    /\ rel' = "release"

AnswerAgain ==
    /\ Lane("answer") /\ UNCHANGED <<todo, hub, queue>>
    /\ Save(Answered(rec)) /\ rel' = "release"

\* withIssueReleaseClaim: the claim ends however the operation does.
Release ==
    /\ Lane("release") /\ UNCHANGED <<todo, hub, queue>>
    /\ Save([rec EXCEPT !.release = FALSE]) /\ rel' = "idle"

-----------------------------------------------------------------------------
(* Publication and merge (handleWorkerOutcome, mergePullRequest): what      *)
(* becomes of the pull request; the branch behind it is not modelled.  A   *)
(* retriage taken while the lane awaits begins a generation that has no    *)
(* worktree, candidate or pull request: what the lane still holds is no    *)
(* longer this record's.                                                   *)

\* What the lane asserts of a generation left behind fails, with an error that is thrown
\* on or, where the worktree, the branch or the pull request is missed, one that blocks.
Abandoned == Still \/ Keep(Blocked(rec, TRUE))

Validate ==
    /\ Lane("validate") /\ UNCHANGED <<todo, hub>>
    /\ \/ /\ IF rec.tree THEN Save([rec EXCEPT !.candidate = TRUE, !.checked = FALSE,
                                               !.merged = FALSE, !.verified = FALSE])
             ELSE Still
          /\ rel' = "validated" /\ Call("release")
       \/ /\ \/ /\ rec.tree
                /\ \E t \in {"none", "aborted", "quarantined"} :
                      Save(Blocked([rec EXCEPT !.trouble = t, !.candidate = TRUE], TRUE))
             \/ ~rec.tree /\ Save(Blocked(rec, TRUE))
          /\ rel' = "release" /\ UNCHANGED queue
       \/ Save(Repaired(rec)) /\ rel' = "release" /\ UNCHANGED queue

Validated ==
    /\ turn.who = "release" /\ rel = "validated" /\ turn' = Nobody
    /\ rel' = IF turn.ok /\ rec.phase = "ready-for-pr" /\ ~Pending(rec) THEN "publish" ELSE "release"
    /\ UNCHANGED <<rec, disk, todo, hub, intake, queue, sup, worker, bounds>>

\* assertCandidateReleaseCurrent, before every step that others can see.
Current(phase, then) ==
    \/ IF Pending(rec) THEN rel' = "late" /\ Still
       ELSE IF rec.phase # phase THEN Keep(Blocked(rec, TRUE)) /\ rel' = "release"
       ELSE then
    \/ ~rec.candidate /\ rel' = "release" /\ Abandoned

Publish ==
    /\ Lane("publish") /\ UNCHANGED <<todo, hub, queue>>
    /\ Current("ready-for-pr", rel' = "propose" /\ Still)

Propose ==
    /\ Lane("propose") /\ UNCHANGED <<todo, queue>>
    /\ Current("ready-for-pr", rel' = "proposed" /\ Still)
    /\ hub' = IF rel' = "proposed" /\ hub.pr = "none" THEN [hub EXCEPT !.pr = "open"] ELSE hub

Proposed ==
    /\ Lane("proposed") /\ UNCHANGED <<todo, hub, queue>>
    /\ IF ~rec.candidate \/ hub.pr = "merged" THEN Keep(Blocked(rec, TRUE))
       ELSE Save([rec EXCEPT !.pr = TRUE,
                             !.phase = IF @ # "ready-for-pr" THEN @
                                       ELSE IF Pending(rec) THEN "queued" ELSE "pull-request"])
    /\ rel' = "release"

\* waitForRequiredChecks: pending, passed, failed, or the base has moved.  A closed
\* pull request blocks; a record that has none is thrown out on every pass.
Checks ==
    /\ Lane("checks") /\ UNCHANGED <<todo, hub>>
    /\ \/ /\ ~rec.pr /\ rel' = "release" /\ UNCHANGED queue
          /\ IF rec.phase = "pull-request" THEN Still ELSE Abandoned
       \/ /\ rec.pr /\ hub.pr = "none" /\ Keep(Blocked(rec, FALSE))
          /\ rel' = "release" /\ UNCHANGED queue
       \/ /\ rec.pr /\ hub.pr = "merged"
          /\ IF rec.checked THEN Still /\ rel' = "merged"
             ELSE Keep(Blocked(rec, TRUE)) /\ rel' = "release"
          /\ UNCHANGED queue
       \/ /\ rec.pr /\ hub.pr = "open" /\ Still /\ Call("release")
          /\ rel' \in {"polled", "passed"}
       \/ /\ rec.pr /\ hub.pr = "open" /\ UNCHANGED queue /\ rel' = "release"
          /\ \/ Save(Repaired(rec))
             \/ Save([rec EXCEPT !.checked = FALSE])
             \/ \E t \in {"aborted", "quarantined"} :
                   Keep(Blocked([rec EXCEPT !.trouble = t, !.checked = FALSE], TRUE))

Checked ==
    /\ turn.who = "release" /\ rel \in {"polled", "passed"} /\ turn' = Nobody
    /\ IF ~turn.ok \/ rec.phase # "pull-request" \/ Pending(rec) THEN rel' = "release" /\ Still
       ELSE IF rel = "polled" THEN rel' = "checks" /\ Still
       ELSE Save([rec EXCEPT !.checked = TRUE]) /\ rel' = "merge"
    /\ UNCHANGED <<todo, hub, intake, queue, sup, worker, bounds>>

\* MUTANT: the input that ended the merge is left to the next pass.
OvertakenLeft == Save([rec EXCEPT !.phase = "pull-request"]) /\ rel' = "release"

\* New input ends the merge.  Its error sets the phase and reads the pull request again
\* before the input is handled, which fails when a retriage has dropped it.
Overtaken ==
    /\ Save([rec EXCEPT !.phase = "pull-request"])
    /\ rel' = IF rec.pr THEN "late" ELSE "release"

Merge ==
    /\ Lane("merge") /\ UNCHANGED <<todo, queue>>
    /\ \/ ~rec.pr /\ Abandoned /\ rel' = "release" /\ UNCHANGED hub
       \/ Pending(rec) /\ Overtaken /\ UNCHANGED hub
       \/ /\ ~Pending(rec) /\ rec.phase # "pull-request"
          /\ Keep(Blocked(rec, TRUE)) /\ rel' = "release" /\ UNCHANGED hub
       \/ /\ ~Pending(rec) /\ rec.phase = "pull-request"
          /\ Still /\ rel' = "merged" /\ hub' = [hub EXCEPT !.pr = "merged"]

\* MUTANT: the merge is recorded on whatever the record is now.
MergedAnyway ==
    /\ Lane("merged") /\ UNCHANGED <<todo, hub, queue>> /\ rel' = "release"
    /\ Save([rec EXCEPT !.merged = TRUE, !.phase = "deploying"])

\* A generation begun during the call has left the merged pull request behind.
Merged ==
    /\ Lane("merged") /\ UNCHANGED <<todo, hub, queue>> /\ rel' = "release"
    /\ IF rec.pr THEN Save([rec EXCEPT !.merged = TRUE, !.phase = "deploying"]) ELSE Abandoned

\* waitForDeploymentReceipt goes on despite new input, not despite a changed release.
Deploy ==
    /\ Lane("deploy") /\ UNCHANGED <<todo, hub>>
    /\ \/ ~rec.merged /\ Keep(Blocked(rec, TRUE)) /\ rel' = "release" /\ UNCHANGED queue
       \/ rec.merged /\ Still /\ Call("release") /\ rel' \in {"waited", "deployed"}
       \/ rec.merged /\ Keep(Blocked(rec, TRUE)) /\ rel' = "release" /\ UNCHANGED queue

Deployed ==
    /\ turn.who = "release" /\ rel \in {"waited", "deployed"} /\ turn' = Nobody
    /\ IF ~turn.ok \/ rec.phase # "deploying" \/ ~rec.merged \/ NeedsRepair(rec)
       THEN rel' = "release" /\ Still
       ELSE IF rel = "waited" THEN rel' = "deploy" /\ Still
       ELSE Save([rec EXCEPT !.verified = TRUE]) /\ rel' = "finalize"
    /\ UNCHANGED <<todo, hub, intake, queue, sup, worker, bounds>>

-----------------------------------------------------------------------------
(* Completion (finalizeIssue, finalizeResolvedWithoutPullRequest): the      *)
(* issue is closed, then the to-do item completed, then the worktree       *)
(* removed, with a refresh of the inputs around each.                      *)
LateFrom == rel' = "late" /\ Still

\* MUTANT: a paused issue is finalized.
FreshUnpaused(pc, then) ==
    /\ turn.who = "release" /\ rel = pc /\ turn' = Nobody
    /\ IF ~turn.ok THEN rel' = "release" /\ Still
       ELSE IF Pending(rec) THEN LateFrom
       ELSE IF rec.drift THEN rel' = "release" /\ Still
       ELSE then
    /\ UNCHANGED <<hub, todo, intake, queue, sup, worker, bounds>>

\* assertFreshFinalizationInputs: a paused or changed issue is not finalized.
Fresh(pc, then) ==
    /\ turn.who = "release" /\ rel = pc /\ turn' = Nobody
    /\ IF ~turn.ok THEN rel' = "release" /\ Still
       ELSE IF rec.phase = "paused" \/ Pending(rec) THEN LateFrom
       ELSE IF rec.drift THEN rel' = "release" /\ Still
       ELSE then
    /\ UNCHANGED <<hub, todo, intake, queue, sup, worker, bounds>>

Refresh(pc) == Still /\ Call("release") /\ rel' = pc

Finalize ==
    /\ Lane("finalize") /\ UNCHANGED todo
    /\ IF rec.outcome # "ready" \/ ~rec.merged \/ ~rec.verified
       THEN Keep(Blocked(rec, TRUE)) /\ rel' = "release" /\ UNCHANGED <<hub, queue>>
       ELSE IF Pending(rec) THEN Still /\ rel' = "follow" /\ UNCHANGED <<hub, queue>>
       ELSE hub' = [hub EXCEPT !.marked = TRUE] /\ Refresh("close")

\* The newer input is handled in a generation of its own.
Follow ==
    /\ Lane("follow") /\ UNCHANGED <<todo, queue>>
    /\ Save(NewGeneration(rec)) /\ hub' = Superseded(rec, hub)
    /\ rel' = "release"

Resolve ==
    /\ Lane("resolve") /\ UNCHANGED todo
    /\ IF rec.candidate \/ rec.pr
       THEN Keep(Blocked(rec, TRUE)) /\ rel' = "release" /\ UNCHANGED <<hub, queue>>
       ELSE IF Pending(rec) THEN LateFrom /\ UNCHANGED <<hub, queue>>
       ELSE /\ hub' = [hub EXCEPT !.resolved = rec.proc]
            /\ IF ~rec.closed THEN Refresh("close")
               ELSE IF ~rec.done THEN Refresh("item")
               ELSE rel' = "tidy" /\ Still /\ UNCHANGED queue

Close == Fresh("close", Save([rec EXCEPT !.closing = TRUE]) /\ rel' = "patch")

Patch ==
    /\ Lane("patch") /\ UNCHANGED <<todo, queue>>
    /\ hub' = [hub EXCEPT !.issue = "closed"]
    /\ rel' = "patched" /\ Still

Patched ==
    /\ Lane("patched") /\ UNCHANGED <<todo, hub>>
    /\ Save([rec EXCEPT !.closed = TRUE, !.closing = FALSE])
    /\ Call("release") /\ rel' = "closed"

\* confirmAdminTodoCompletion: content that changed under the completion reopens the item.
Confirm(pc, open, done) ==
    /\ Lane(pc) /\ UNCHANGED <<todo, hub>>
    /\ IF todo.text # rec.text
       THEN Save([rec EXCEPT !.drift = TRUE]) /\ rel' = "drifted" /\ UNCHANGED queue
       ELSE IF todo.done THEN done ELSE open

Lost == rel' = "release" /\ Still /\ UNCHANGED queue

Drifted ==
    /\ Lane("drifted") /\ UNCHANGED <<hub, queue>> /\ Still
    /\ todo' = [todo EXCEPT !.done = FALSE] /\ rel' = "release"

Complete ==
    \/ /\ Lane("complete") /\ UNCHANGED <<hub, queue>> /\ Still
       /\ todo' = [todo EXCEPT !.done = TRUE] /\ rel' = "scripted"
    \/ Lane("scripted") /\ UNCHANGED <<todo, hub>> /\ Refresh("completed")

\* restoreNewInput: input that arrived during the completion reopens the item.
Restore(pc, then) ==
    /\ turn.who = "release" /\ rel = pc /\ turn' = Nobody
    /\ IF ~turn.ok THEN rel' = "release" /\ Still
       ELSE IF Pending(rec) THEN Save([rec EXCEPT !.race = TRUE]) /\ rel' = "restore"
       ELSE then
    /\ UNCHANGED <<hub, todo, intake, queue, sup, worker, bounds>>

ReopenItem(pc, next) ==
    /\ Lane(pc) /\ UNCHANGED <<hub, queue>> /\ Still
    /\ todo' = [todo EXCEPT !.done = FALSE] /\ rel' = next

Restored ==
    /\ Lane("restored") /\ UNCHANGED <<todo, hub, queue>>
    /\ Save([rec EXCEPT !.completing = FALSE, !.race = FALSE]) /\ rel' = "late"

Tidy ==
    /\ Lane("tidy") /\ UNCHANGED <<todo, hub>>
    /\ Keep([rec EXCEPT !.tree = FALSE]) /\ Call("release") /\ rel' = "terminal"

CompleteTodo ==
    \/ Fresh("closed", rel' = "asItem" /\ Still)
    \/ Lane("asItem") /\ UNCHANGED <<todo, hub>> /\ Refresh("item")
    \/ Fresh("item", rel' = "confirm" /\ Still)
    \/ Confirm("confirm", Refresh("open"), Refresh("again"))
    \/ Fresh("open", Save([rec EXCEPT !.completing = TRUE]) /\ rel' = "complete")
    \/ Complete
    \/ Restore("completed", rel' = "await" /\ Still)
    \/ Confirm("await", Lost, Refresh("again"))
    \/ Restore("again", rel' = "reconfirm" /\ Still)
    \/ Confirm("reconfirm", Lost, Refresh("last"))
    \/ Restore("last", Save([rec EXCEPT !.done = TRUE, !.completing = FALSE]) /\ rel' = "tidy")
    \/ ReopenItem("restore", "restored") \/ Restored
    \/ Drifted

Terminate ==
    \/ Tidy
    \/ Fresh("terminal", rel' = "boundary" /\ Still)
    \/ Confirm("boundary", Lost, Refresh("final"))
    \/ Fresh("final", Save([rec EXCEPT !.phase = "completed"]) /\ rel' = "release")

-----------------------------------------------------------------------------
(* reconcileLateOwnerInput and handleLateOwnerInput.                       *)
Late ==
    /\ Lane("late") /\ UNCHANGED <<todo, hub, queue>> /\ Still
    /\ rel' = IF rec.phase = "paused" THEN "release"
              ELSE IF rec.completing \/ rec.race \/ rec.done THEN "lateItem"
              ELSE "lateInput"

LateItem ==
    \/ ReopenItem("lateItem", "lateItemOpen")
    \/ /\ Lane("lateItemOpen") /\ UNCHANGED <<todo, hub, queue>>
       /\ Save([rec EXCEPT !.completing = FALSE, !.race = FALSE, !.done = FALSE])
       /\ rel' = "lateInput"

LateInput ==
    /\ Lane("lateInput") /\ UNCHANGED <<todo, hub, queue>>
    /\ IF ~Pending(rec) \/ (rec.phase = "paused" /\ ~rec.closed /\ ~rec.closing)
       THEN rel' = "release" /\ Still
       ELSE IF rec.closed \/ rec.closing THEN rel' = "lateIssue" /\ Still
       ELSE IF rec.verified THEN rel' = "lateStart" /\ Still
       ELSE /\ Save([rec EXCEPT !.phase = IF rec.merged THEN "deploying" ELSE "queued"])
            /\ rel' = "release"

LateIssue ==
    \/ /\ Lane("lateIssue") /\ UNCHANGED <<todo, queue>> /\ Still
       /\ hub' = [hub EXCEPT !.issue = "open"] /\ rel' = "lateIssueOpen"
    \/ /\ Lane("lateIssueOpen") /\ UNCHANGED <<todo, hub, queue>>
       /\ Save([rec EXCEPT !.closed = FALSE, !.closing = FALSE]) /\ rel' = "lateStart"

LateStart ==
    /\ Lane("lateStart") /\ UNCHANGED <<todo, queue>>
    /\ Save(NewGeneration(rec)) /\ hub' = Superseded(rec, hub)
    /\ rel' = "release"

LateOwnerInput == Late \/ LateItem \/ LateInput \/ LateIssue \/ LateStart

\* A call that fails, before or after its effect, ends the operation and its claim.
LaneFails ==
    /\ Quiet /\ faults < MaxFaults /\ faults' = faults + 1
    /\ rel \notin {"idle", "select", "release"}
    /\ ~\E i \in DOMAIN queue : queue[i].who = "release"
    /\ rel' = "release" /\ Still
    /\ UNCHANGED <<todo, hub, serial, sup, worker, asked>>

ReleaseLane ==
    \/ Select \/ Guard \/ Retry \/ AnswerAgain \/ Release
    \/ Validate \/ Validated \/ Publish \/ Propose \/ Proposed \/ Checks \/ Checked \/ Merge \/ Merged
    \/ Deploy \/ Deployed \/ Finalize \/ Follow \/ Resolve \/ Close \/ Patch \/ Patched
    \/ CompleteTodo \/ Terminate \/ LateOwnerInput

-----------------------------------------------------------------------------
(* The owner, and the restart.                                             *)
Owner(newTodo, newHub) ==
    /\ asked < MaxOwner /\ asked' = asked + 1
    /\ todo' = newTodo /\ hub' = newHub
    /\ UNCHANGED <<rec, disk, serial, sup, worker, rel, faults>>

\* An edit of a completed item takes it up again, or leaves it completed.
EditTodo ==
    \E t \in Texts \ {todo.text}, done \in {FALSE, todo.done} :
        Owner([text |-> t, done |-> done], hub)

Comment == \E c \in Commands : Owner(todo, [hub EXCEPT !.said = Append(@, c)])

CloseIssue == hub.issue = "open" /\ Owner(todo, [hub EXCEPT !.issue = "closed"])

ReopenIssue == hub.issue = "closed" /\ Owner(todo, [hub EXCEPT !.issue = "open"])

\* recoverInterruptedIssueWorkers
Recovered(r) ==
    [r EXCEPT !.worker = NoClaim, !.release = FALSE,
              !.phase = IF @ = "researching" /\ Pending(r) /\ r.worker # NoClaim THEN "queued" ELSE @]

Restart ==
    /\ faults < MaxFaults /\ faults' = faults + 1
    /\ Save(Recovered(disk))
    /\ intake' = Idle /\ queue' = <<>> /\ turn' = Nobody
    /\ sup' = "sleep" /\ worker' = [pc |-> "idle", why |-> "none"] /\ rel' = "idle"
    /\ UNCHANGED <<todo, hub, asked>>

Init ==
    /\ rec = NewRecord /\ disk = NewRecord
    /\ todo = [text |-> FirstText, done |-> FALSE]
    /\ hub = [issue |-> "open", said |-> <<>>, pr |-> "none", marked |-> FALSE, resolved |-> 0]
    /\ intake = Idle /\ queue = <<>> /\ turn = Nobody
    /\ sup = "sleep" /\ worker = [pc |-> "idle", why |-> "none"] /\ rel = "idle"
    /\ asked = 0 /\ faults = 0

Next ==
    \/ Tick \/ Admit \/ Intake \/ Worker \/ ReleaseLane
    \/ IntakeFails \/ WorkerFails \/ LaneFails \/ Restart
    \/ EditTodo \/ Comment \/ CloseIssue \/ ReopenIssue

Spec == Init /\ [][Next]_vars

\* Every wait has a deadline, so none is polled for ever.
Fairness ==
    /\ WF_vars(Admit) /\ SF_vars(Tick) /\ SF_vars(Intake) /\ SF_vars(Worker) /\ SF_vars(ReleaseLane)
    /\ SF_vars(Checks /\ rel' # "polled" /\ rec'.checked = rec.checked)
    /\ SF_vars(Deploy /\ rel' # "waited")

FairSpec == Spec /\ Fairness

-----------------------------------------------------------------------------
(* Properties                                                              *)
Phases == {"queued", "researching", "awaiting-user", "blocked", "ready-for-pr", "pull-request",
           "deploying", "resolving", "paused", "completed"}

Callers == {"tick", "worker", "release"}
Calls == [who : Callers, said : Nat]

\* Where the lane awaits the intake.
Waits == {"validated", "polled", "passed", "waited", "deployed", "close", "closed", "item", "open", "completed",
          "again", "last", "terminal", "final"}

Lanes == Waits \cup
    {"idle", "select", "guard", "retry", "answer", "release", "validate", "publish", "propose", "proposed",
     "checks", "merge", "merged", "deploy", "finalize", "follow", "resolve", "patch", "patched", "asItem",
     "confirm", "complete", "scripted", "await", "reconfirm", "restore", "restored", "drifted", "tidy",
     "boundary", "late", "lateItem", "lateItemOpen", "lateInput", "lateIssue", "lateIssueOpen", "lateStart"}

Records ==
    [phase : Phases, input : Nat, proc : Nat, gen : Nat, text : Texts, texts : SUBSET Texts,
     cursor : 0 .. MaxOwner, outcome : Decisions \cup {"none"}, tree : BOOLEAN, candidate : BOOLEAN,
     trouble : {"none", "aborted", "quarantined"}, pr : BOOLEAN, checked : BOOLEAN,
     merged : BOOLEAN, verified : BOOLEAN, closing : BOOLEAN, closed : BOOLEAN,
     completing : BOOLEAN, race : BOOLEAN, done : BOOLEAN, drift : BOOLEAN, eligible : BOOLEAN,
     retries : 0 .. AutoRetryLimit, repairs : 0 .. MaxRepairs,
     failures : [input : Nat, count : Nat], worker : [gen : Nat, input : Nat], release : BOOLEAN]

\* The provenance that readState accepts: no record processed more input than it
\* has, a merge is that of a pull request, and a verified release is merged.
Accepted(r) == r.proc <= r.input /\ (r.merged => r.pr) /\ (r.verified => r.merged)

\* Types, and: what memory and the disk hold is what readState accepts, whatever
\* failed in between.
TypeOK ==
    /\ \A r \in {rec, disk} : r \in Records /\ Accepted(r)
    /\ todo \in [text : Texts, done : BOOLEAN]
    /\ hub \in [issue : {"open", "closed"}, said : Seq(Commands), pr : {"none", "open", "merged"},
                marked : BOOLEAN, resolved : Nat]
    /\ intake \in [pc : {"idle", "edited", "list", "read", "reopened", "comments"}, text : Texts,
                   open : BOOLEAN, window : BOOLEAN, said : 0 .. MaxOwner, marked : BOOLEAN, resolved : Nat]
    /\ queue \in Seq(Calls) /\ turn \in [who : Callers \cup {"nobody"}, said : Nat, ok : BOOLEAN]
    /\ sup \in {"sleep", "intake"} /\ rel \in Lanes
    /\ worker \in [pc : {"idle", "prepare", "run", "refresh", "answer", "finish", "failed"},
                   why : {"none", "provenance", "deferred", "failed"}]
    /\ asked \in 0 .. MaxOwner /\ faults \in 0 .. MaxFaults

\* The worker and the release lane never act on the issue at once, even while
\* an error of a worker whose claim is already gone is still being handled.
OneLane == worker.pc = "idle" \/ rel \in {"idle", "select"}

\* AsyncSerial: when the worker or the lane has its refresh back, every comment
\* that was there when it asked is taken, although other calls of the intake
\* were running or waiting at that moment and the owner opened and closed the issue.
RefreshIsFresh ==
    turn.who \in {"worker", "release"} /\ turn.ok =>
        rec.cursor >= turn.said \/ rec.phase \in {"completed", "paused"}

\* The controller closes the issue only on a merged and verified release whose
\* evidence it posted, or on a resolution it posted for the input it processed,
\* whatever the intake did to the record between the check and the call.
CloseIsEarned ==
    [][hub'.issue # hub.issue /\ hub'.issue = "closed" /\ asked' = asked
       => \/ hub.marked /\ rec.merged /\ rec.verified
          \/ hub.resolved = rec.proc]_vars

\* Once the intake has paused a manually closed issue, nothing is merged and the
\* to-do item is not completed.  A retriage makes the intake take the controller's
\* own close for the owner's.
PausedIsQuiet ==
    [][rec.phase = "paused" /\ (\A i \in DOMAIN hub.said : hub.said[i] # "retriage")
       => /\ (hub'.pr = "merged" => hub.pr = "merged")
          /\ (todo'.done => (todo.done \/ asked' # asked))]_vars

\* A record in the release lane without a pull request to release: what a retriage
\* leaves when it is taken in the merge's last await.  No pass gets it out again.
Stranded == rec.phase = "pull-request" /\ ~rec.pr

\* Input that was taken in is processed by a worker, unless the issue is blocked,
\* paused or stranded: it is not lost to a completion, a merge or another input
\* under way.
InputHandled ==
    Pending(rec) ~> (~Pending(rec) \/ rec.phase \in {"blocked", "paused"} \/ Stranded)

\* docs/admin-issue-controller.md: input that arrives while the completion is in
\* flight reopens the issue the controller closed and queues a fresh generation.
\* The code starts one from finalizeIssue without reopening it.
FollowedInTheOpen ==
    [][rec'.gen > rec.gen /\ (rec.closed \/ rec.closing) => hub.issue = "open"]_vars
=============================================================================
