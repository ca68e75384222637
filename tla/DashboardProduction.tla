------------------------ MODULE DashboardProduction ------------------------
(***************************************************************************)
(* Production as the deployments change it: one remote host with its       *)
(* dashboard directory, the two URLs Home Assistant stores (the legacy     *)
(* card resource and the legacy wrapper) and the lease directory, and the  *)
(* workflows that change it, one remote call at a time.  A workflow runs a *)
(* program, a sequence of calls; a call may fail without effect, with its  *)
(* effect and a lost answer, or half done; a process may die between any   *)
(* two calls.  CI workflows are deploy-dashboard-ci.ts, the others run the *)
(* six actions of the release machine's production driver in the order the *)
(* release plan gives, each action a process of its own with its journal.  *)
(***************************************************************************)
EXTENDS Naturals, Sequences, FiniteSets

CONSTANTS Workflow, CI, NoOne,
          Candidate,     \* the commit of each workflow; master is linear and commits are numbered
          Base,          \* the commit production starts on
          Bundle,        \* the bundle each commit builds: equal when only docs or tests changed
          Runtime,       \* the commits that change Home Assistant files or the panel bridge
          MaxFaults, MaxCrashes, MaxExpiries

ASSUME ProductionConstants ==
    /\ CI \subseteq Workflow /\ NoOne \notin Workflow
    /\ Base \in Nat \ {0} /\ Candidate \in [Workflow -> Nat \ {0}] /\ Runtime \subseteq Nat
    /\ MaxFaults \in Nat /\ MaxCrashes \in Nat /\ MaxExpiries \in Nat

VARIABLES ha,        \* the remote host
          prog,      \* the program each workflow runs, or how it ended
          ip,        \* the call each program is at
          undo,      \* the compensation a failed call still has to try
          snap,      \* the captured production of each workflow
          attempt,   \* the journalled deploymentAttempt
          deployed,  \* the journalled deployment
          settled,   \* the commit served when the lease was last free
          faults, crashes, expiries

jobs == <<prog, ip, undo, snap, attempt, deployed>>
bounds == <<faults, crashes, expiries>>
vars == <<ha, prog, ip, undo, snap, attempt, deployed, settled, faults, crashes, expiries>>

-----------------------------------------------------------------------------
(* Directories: absent, half written or half removed, or a whole build with *)
(* or without a deployment.json of version 2.                              *)
Absent == [kind |-> "none", sha |-> 0, v2 |-> FALSE]
Half == [kind |-> "half", sha |-> 0, v2 |-> FALSE]
Build(n, r) == [kind |-> "whole", sha |-> n, v2 |-> r]
Built(w) == Build(Candidate[w], w \in CI)
Served(h) == <<h.remote, h.card, h.wrapper>>
NoCapture == <<Absent, 0, 0>>
Exists(d) == d.kind # "none"

Live(h) ==
    IF h.remote.kind = "whole" /\ h.card = h.remote.sha /\ h.wrapper = h.remote.sha
    THEN h.remote.sha ELSE 0

FreeLock == [by |-> NoOne, owned |-> FALSE, expired |-> FALSE]
Holds(w) == ha.lock.by = w /\ ha.lock.owned
ValidLease(w) == Holds(w) /\ ~ha.lock.expired

-----------------------------------------------------------------------------
(* The programs.  Calls that only read are merged with the next call that  *)
(* acts on what they read: the lease keeps everybody else away.            *)
Acquire == <<"lockDir", "lockOwner", "assert">>
Reconcile == <<"assert", "dropRemote", "putBack", "dropIncoming">>
DeployAssets == Reconcile \o <<"upload", "park", "promote", "mark">>
Metadata == <<"card", "wrapper">>

FinalizeRelease ==
    <<"noLock">> \o Reconcile \o
    <<"present", "dropIncoming", "dropPrevious", "unmark", "assert", "unlinkOwner", "rmLock">>
DeployProduction == <<"unchanged">> \o DeployAssets \o <<"assert", "assert">> \o Metadata
RollbackProduction ==
    Reconcile \o <<"guard", "assert", "unmark">> \o DeployAssets \o <<"assert">> \o Metadata \o <<"restored">>
VerifyRollback == Reconcile \o <<"restored">>

Programs ==
    [ciStart |-> <<"admit">> \o Acquire \o Reconcile \o <<"capture", "plan">>,
     ciKeep |-> <<"verifyKept", "http">> \o FinalizeRelease,
     ciDeploy |-> DeployProduction \o <<"verify", "http">> \o FinalizeRelease,
     ciAbort |-> FinalizeRelease,
     ciRollback |-> RollbackProduction \o VerifyRollback \o FinalizeRelease,
     rmCapture |-> Acquire \o <<"capture">>,
     rmRelease |-> <<"assert", "unlinkOwner", "rmLock">>,
     rmDeploy |-> <<"assert", "attempt">> \o DeployProduction \o <<"save">>,
     rmVerify |-> <<"assert", "verify", "attest">>,
     rmRollback |-> <<"assert">> \o RollbackProduction,
     rmVerifyRollback |-> <<"assert">> \o VerifyRollback,
     rmAccept |-> FinalizeRelease,
     rmReject |-> FinalizeRelease,
     rmGiveUp |-> FinalizeRelease]

Ends == {"kept", "deployed", "failed", "rolledBack", "rollbackFailed", "crashed",
         "accepted", "rejected", "abnormal"}

AfterSuccess ==
    [ciStart |-> "ciAbort", ciKeep |-> "kept", ciDeploy |-> "deployed", ciAbort |-> "failed",
     ciRollback |-> "rolledBack", rmCapture |-> "rmDeploy", rmRelease |-> "rmReject",
     rmDeploy |-> "rmVerify", rmVerify |-> "rmAccept", rmRollback |-> "rmVerifyRollback",
     rmVerifyRollback |-> "rmReject", rmAccept |-> "accepted", rmReject |-> "rejected",
     rmGiveUp |-> "abnormal"]

AfterError(p, i) ==
    IF p = "ciStart" THEN IF i <= 1 + Len(Acquire) THEN "failed" ELSE "ciAbort"
    ELSE IF p = "rmCapture" THEN IF i <= Len(Acquire) THEN "rmReject" ELSE "rmRelease"
    ELSE [ciKeep |-> "ciAbort", ciDeploy |-> "ciRollback", ciAbort |-> "failed",
          ciRollback |-> "rollbackFailed", rmRelease |-> "rmReject", rmDeploy |-> "rmRollback",
          rmVerify |-> "rmRollback", rmRollback |-> "rmGiveUp", rmVerifyRollback |-> "rmGiveUp",
          rmAccept |-> "abnormal", rmReject |-> "abnormal", rmGiveUp |-> "abnormal"][p]

\* A release-machine action that died is run again or counted as rejected.
AfterCrash(p) ==
    IF p \in {"rmCapture", "rmRelease"} THEN {"rmCapture", "rmReject"}
    ELSE {p, AfterError(p, 1)}

Running(w) == prog[w] \in DOMAIN Programs
Op(w) == Programs[prog[w]][ip[w]]
At(w, o) == Running(w) /\ undo[w] = "none" /\ Op(w) = o

Goto(w, p) == prog' = [prog EXCEPT ![w] = p] /\ ip' = [ip EXCEPT ![w] = 1]

Advance(w) ==
    IF ip[w] = Len(Programs[prog[w]]) THEN Goto(w, AfterSuccess[prog[w]])
    ELSE ip' = [ip EXCEPT ![w] = @ + 1] /\ UNCHANGED prog

Throw(w) == Goto(w, AfterError(prog[w], ip[w]))

Settle == settled' = IF ha'.lock.by = NoOne THEN Live(ha') ELSE settled
-----------------------------------------------------------------------------
(* One remote call: it succeeds, or fails with one of the states in broken. *)
Call(w, after, broken, retry) ==
    /\ \/ /\ ha' = after
          /\ Advance(w)
          /\ UNCHANGED <<undo, faults>>
       \/ /\ faults < MaxFaults
          /\ faults' = faults + 1
          /\ ha' \in broken \cup {ha, after}
          /\ undo' = [undo EXCEPT ![w] = retry]
          /\ IF retry = "none" THEN Throw(w) ELSE UNCHANGED <<prog, ip>>
    /\ Settle
    /\ UNCHANGED <<snap, attempt, deployed, crashes, expiries>>

(* A test of what was read: it passes, or throws; the read itself may fail. *)
Test(w, ok) ==
    /\ \/ ok /\ Advance(w) /\ UNCHANGED faults
       \/ ~ok /\ Throw(w) /\ UNCHANGED faults
       \/ faults < MaxFaults /\ faults' = faults + 1 /\ Throw(w)
    /\ UNCHANGED <<ha, undo, snap, attempt, deployed, settled, crashes, expiries>>

\* The runner controller's authorization and the reviewer's attestation may be denied.
Admit(w) == At(w, "admit") /\ \E granted \in BOOLEAN : Test(w, granted)
Attest(w) == At(w, "attest") /\ \E signed \in BOOLEAN : Test(w, signed)

\* Mutant: an expired lease of another workflow is taken over.
LockDirTakesOver(w) ==
    /\ At(w, "lockDir")
    /\ IF ha.lock.by = NoOne \/ ha.lock.expired
       THEN Call(w, [ha EXCEPT !.lock = [by |-> w, owned |-> FALSE, expired |-> FALSE]], {}, "none")
       ELSE Test(w, Holds(w))

\* acquireProductionLease: only a lease of one's own may be taken over.
LockDir(w) ==
    /\ At(w, "lockDir")
    /\ IF ha.lock.by = NoOne
       THEN Call(w, [ha EXCEPT !.lock = [by |-> w, owned |-> FALSE, expired |-> FALSE]], {}, "none")
       ELSE Test(w, Holds(w))

LockOwner(w) ==
    /\ At(w, "lockOwner")
    /\ Call(w, IF ValidLease(w) THEN ha
               ELSE [ha EXCEPT !.lock = [by |-> w, owned |-> TRUE, expired |-> FALSE]], {}, "none")

AssertLease(w) == At(w, "assert") /\ Test(w, ValidLease(w))

\* Mutant: the mark of a completed swap is not looked at.
DropRemoteUnmarked(w) ==
    /\ At(w, "dropRemote")
    /\ IF Exists(ha.remote) /\ Exists(ha.previous[w])
       THEN Call(w, [ha EXCEPT !.remote = Absent], {[ha EXCEPT !.remote = Half]}, "none")
       ELSE Test(w, TRUE)

\* reconcileAssetSwap: an unmarked swap is undone, the retained directory put back.
DropRemote(w) ==
    /\ At(w, "dropRemote")
    /\ IF Exists(ha.remote) /\ Exists(ha.previous[w]) /\ ~ha.completed[w]
       THEN Call(w, [ha EXCEPT !.remote = Absent], {[ha EXCEPT !.remote = Half]}, "none")
       ELSE Test(w, TRUE)

PutBack(w) ==
    /\ At(w, "putBack")
    /\ IF ~Exists(ha.remote) /\ Exists(ha.previous[w])
       THEN Call(w, [ha EXCEPT !.remote = ha.previous[w], !.previous[w] = Absent,
                               !.completed[w] = FALSE], {}, "none")
       ELSE Test(w, TRUE)

DropIncoming(w) ==
    /\ At(w, "dropIncoming")
    /\ IF Exists(ha.incoming[w])
       THEN Call(w, [ha EXCEPT !.incoming[w] = Absent], {[ha EXCEPT !.incoming[w] = Half]}, "none")
       ELSE Test(w, TRUE)

Capture(w) ==
    /\ At(w, "capture")
    /\ \/ snap' = [snap EXCEPT ![w] = Served(ha)] /\ Advance(w) /\ UNCHANGED faults
       \/ faults < MaxFaults /\ faults' = faults + 1 /\ Throw(w) /\ UNCHANGED snap
    /\ UNCHANGED <<ha, undo, attempt, deployed, settled, crashes, expiries>>

-----------------------------------------------------------------------------
(* The decision of the CI deployment, taken under the lease.               *)
Files(w) == snap[w][1]
Deployed(w) == snap[w][3]

\* verifyCurrentDeploymentRecord: a version 2 record names the URLs and its own bytes.
RecordVerified(w) ==
    Files(w).v2 => Files(w).kind = "whole" /\ snap[w][2] = Files(w).sha /\ snap[w][3] = Files(w).sha

Between(w) == {n \in Runtime : Deployed(w) < n /\ n <= Candidate[w]}

\* Mutant: any commit but the deployed one counts as forward.
ForwardOther(w) == Candidate[w] # Deployed(w) \/ ~Files(w).v2

ForwardNeeded(w) == Candidate[w] > Deployed(w) \/ (Candidate[w] = Deployed(w) /\ ~Files(w).v2)

Published(w) == Files(w).v2 /\ Bundle[Files(w).sha] = Bundle[Candidate[w]]

Refused(w) ==
    \/ ~RecordVerified(w)
    \/ Candidate[w] < Deployed(w) /\ ~Files(w).v2
    \/ ForwardNeeded(w) /\ Between(w) # {}

Plan(w) ==
    /\ At(w, "plan")
    /\ Goto(w, IF Refused(w) THEN "ciAbort"
               ELSE IF ForwardNeeded(w) /\ ~Published(w) THEN "ciDeploy" ELSE "ciKeep")
    /\ UNCHANGED <<ha, undo, snap, attempt, deployed, settled, bounds>>

Unchanged(w) == At(w, "unchanged") /\ Test(w, Served(ha) = snap[w])
VerifyKept(w) == At(w, "verifyKept") /\ Test(w, Served(ha) = snap[w] /\ Files(w).kind = "whole")

-----------------------------------------------------------------------------
(* deployAssets: a swap already marked complete is left alone.             *)
Rolling(w) == prog[w] \in {"ciRollback", "rmRollback"}
Source(w) == IF Rolling(w) THEN Files(w) ELSE Built(w)

Swap(w, op, after, broken, retry) ==
    /\ At(w, op)
    /\ IF ha.completed[w] THEN Test(w, TRUE) ELSE Call(w, after, broken, retry)

Upload(w) ==
    Swap(w, "upload", [ha EXCEPT !.incoming[w] = Source(w)], {[ha EXCEPT !.incoming[w] = Half]}, "none")

\* Mutant: the served directory is removed instead of kept beside the new one.
ParkByDelete(w) == Swap(w, "park", [ha EXCEPT !.remote = Absent], {}, "none")

\* Mutant: the retained directory does not carry the workflow's suffix.
ParkShared(w) == Swap(w, "park", [ha EXCEPT !.previous = ha.remote, !.remote = Absent], {}, "none")

Park(w) ==
    Swap(w, "park", IF Exists(ha.remote)
                    THEN [ha EXCEPT !.previous[w] = ha.remote, !.remote = Absent] ELSE ha, {}, "none")

Promote(w) ==
    Swap(w, "promote", [ha EXCEPT !.remote = ha.incoming[w], !.incoming[w] = Absent], {},
         IF Exists(ha.previous[w]) THEN "unpark" ELSE "none")

Mark(w) == Swap(w, "mark", [ha EXCEPT !.completed[w] = TRUE], {}, "none")

(* syncDashboardDeployment and restoreHomeAssistantProductionMetadata.     *)
CardUrl(w) == IF Rolling(w) THEN snap[w][2] ELSE Candidate[w]
WrapperUrl(w) == IF Rolling(w) THEN snap[w][3] ELSE Candidate[w]
Compensation(w) == IF Rolling(w) \/ snap[w][2] = Candidate[w] THEN "none" ELSE "uncard"

Card(w) == At(w, "card") /\ Call(w, [ha EXCEPT !.card = CardUrl(w)], {}, Compensation(w))

Wrapper(w) == At(w, "wrapper") /\ Call(w, [ha EXCEPT !.wrapper = WrapperUrl(w)], {}, Compensation(w))

\* The catch blocks: one attempt to take the step back, then the error goes on.
Undo(w) ==
    /\ Running(w) /\ undo[w] # "none"
    /\ \/ /\ ha' = IF undo[w] = "uncard" THEN [ha EXCEPT !.card = snap[w][2]]
                   ELSE IF Exists(ha.remote) \/ ~Exists(ha.previous[w]) THEN ha
                   ELSE [ha EXCEPT !.remote = ha.previous[w], !.previous[w] = Absent]
          /\ UNCHANGED faults
       \/ faults < MaxFaults /\ faults' = faults + 1 /\ UNCHANGED ha
    /\ undo' = [undo EXCEPT ![w] = "none"]
    /\ Throw(w)
    /\ Settle
    /\ UNCHANGED <<snap, attempt, deployed, crashes, expiries>>

Verify(w) ==
    /\ At(w, "verify")
    /\ Test(w, Served(ha) = IF w \in CI THEN <<Built(w), Candidate[w], Candidate[w]>> ELSE deployed[w])

\* Every published file is fetched again and compared with the build.
Http(w) == At(w, "http") /\ Test(w, ha.remote.kind = "whole")

-----------------------------------------------------------------------------
(* The journal of the release machine and the guards of a rollback.        *)
Attempt(w) ==
    /\ At(w, "attempt")
    /\ attempt' = [attempt EXCEPT ![w] = TRUE]
    /\ Advance(w)
    /\ UNCHANGED <<ha, undo, snap, deployed, settled, bounds>>

Save(w) ==
    /\ At(w, "save")
    /\ deployed' = [deployed EXCEPT ![w] = <<Built(w), ha.card, ha.wrapper>>]
    /\ Advance(w)
    /\ UNCHANGED <<ha, undo, snap, attempt, settled, bounds>>

OwnMetadata(w) == \/ ha.card = snap[w][2] /\ ha.wrapper = snap[w][3]
                  \/ ha.card = Candidate[w] /\ ha.wrapper = Candidate[w]

RollbackSafe(w) ==
    IF deployed[w] # NoCapture THEN Served(ha) = deployed[w]
    ELSE w \in CI \/ attempt[w] => OwnMetadata(w) /\ ha.remote \in {Files(w), Built(w)}

Guard(w) == At(w, "guard") /\ Test(w, snap[w] # NoCapture /\ RollbackSafe(w))

Restored(w) == At(w, "restored") /\ Test(w, Served(ha) = snap[w])

-----------------------------------------------------------------------------
(* finalizeRelease and releaseProductionLease.                             *)
NoLock(w) ==
    /\ At(w, "noLock")
    /\ IF ha.lock.by = NoOne
       THEN /\ Goto(w, AfterSuccess[prog[w]])
            /\ UNCHANGED <<ha, undo, snap, attempt, deployed, settled, bounds>>
       ELSE Test(w, TRUE)

Present(w) == At(w, "present") /\ Test(w, Exists(ha.remote))

DropPrevious(w) ==
    /\ At(w, "dropPrevious")
    /\ IF Exists(ha.previous[w])
       THEN Call(w, [ha EXCEPT !.previous[w] = Absent], {[ha EXCEPT !.previous[w] = Half]}, "none")
       ELSE Test(w, TRUE)

Unmark(w) == At(w, "unmark") /\ Call(w, [ha EXCEPT !.completed[w] = FALSE], {}, "none")

UnlinkOwner(w) == At(w, "unlinkOwner") /\ Call(w, [ha EXCEPT !.lock.owned = FALSE], {}, "none")

RmLock(w) == At(w, "rmLock") /\ Call(w, [ha EXCEPT !.lock = FreeLock], {}, "none")

-----------------------------------------------------------------------------
(* A process dies; a CI run is never resumed, its next attempt has another *)
(* identity.  It may die after the last call of its program, before the    *)
(* end is known.  A lease expires 24 hours after it was written.           *)
Crash(w) ==
    /\ Running(w) /\ crashes < MaxCrashes
    /\ crashes' = crashes + 1
    /\ \E p \in IF w \in CI THEN {"crashed"} ELSE AfterCrash(prog[w]) : Goto(w, p)
    /\ ha' \in {ha} \cup IF At(w, "rmLock") THEN {[ha EXCEPT !.lock = FreeLock]} ELSE {}
    /\ undo' = [undo EXCEPT ![w] = "none"]
    /\ Settle
    /\ UNCHANGED <<snap, attempt, deployed, faults, expiries>>

Expire ==
    /\ ha.lock.owned /\ ~ha.lock.expired /\ expiries < MaxExpiries
    /\ expiries' = expiries + 1
    /\ ha' = [ha EXCEPT !.lock.expired = TRUE]
    /\ UNCHANGED <<jobs, settled, faults, crashes>>

Init ==
    /\ ha = [remote |-> Build(Base, FALSE), card |-> Base, wrapper |-> Base, lock |-> FreeLock,
             incoming |-> [w \in Workflow |-> Absent], previous |-> [w \in Workflow |-> Absent],
             completed |-> [w \in Workflow |-> FALSE]]
    /\ prog = [w \in Workflow |-> IF w \in CI THEN "ciStart" ELSE "rmCapture"]
    /\ ip = [w \in Workflow |-> 1]
    /\ undo = [w \in Workflow |-> "none"]
    /\ snap = [w \in Workflow |-> NoCapture]
    /\ attempt = [w \in Workflow |-> FALSE]
    /\ deployed = [w \in Workflow |-> NoCapture]
    /\ settled = Base
    /\ faults = 0 /\ crashes = 0 /\ expiries = 0

Leasing(w) == Admit(w) \/ LockDir(w) \/ LockOwner(w) \/ AssertLease(w)
Reconciling(w) == DropRemote(w) \/ PutBack(w) \/ DropIncoming(w)
Deciding(w) == Capture(w) \/ Plan(w) \/ Unchanged(w) \/ VerifyKept(w) \/ Attempt(w) \/ Guard(w)
Swapping(w) == Upload(w) \/ Park(w) \/ Promote(w) \/ Mark(w) \/ Card(w) \/ Wrapper(w) \/ Undo(w)
Checking(w) == Verify(w) \/ Http(w) \/ Attest(w) \/ Save(w) \/ Restored(w)
Finalizing(w) == NoLock(w) \/ Present(w) \/ DropPrevious(w) \/ Unmark(w) \/ UnlinkOwner(w) \/ RmLock(w)

Step(w) == Leasing(w) \/ Reconciling(w) \/ Deciding(w) \/ Swapping(w) \/ Checking(w) \/ Finalizing(w)

Next == Expire \/ \E w \in Workflow : Step(w) \/ Crash(w)

Spec == Init /\ [][Next]_vars
-----------------------------------------------------------------------------
Content == [kind : {"none", "half", "whole"}, sha : Nat, v2 : BOOLEAN]
Captures == Content \X Nat \X Nat

\* Every variable has its shape; a call pointer stays within its program.
TypeOK ==
    /\ ha \in [remote : Content, card : Nat, wrapper : Nat,
               lock : [by : Workflow \cup {NoOne}, owned : BOOLEAN, expired : BOOLEAN],
               incoming : [Workflow -> Content], previous : [Workflow -> Content],
               completed : [Workflow -> BOOLEAN]]
    /\ prog \in [Workflow -> DOMAIN Programs \cup Ends]
    /\ ip \in [Workflow -> Nat \ {0}]
    /\ \A w \in Workflow : Running(w) => ip[w] <= Len(Programs[prog[w]])
    /\ undo \in [Workflow -> {"none", "unpark", "uncard"}]
    /\ snap \in [Workflow -> Captures] /\ deployed \in [Workflow -> Captures]
    /\ attempt \in [Workflow -> BOOLEAN]
    /\ settled \in Nat /\ faults \in Nat /\ crashes \in Nat /\ expiries \in Nat

\* The step is one of workflow w.
Moved(w) == <<prog[w], ip[w], undo[w]>>' # <<prog[w], ip[w], undo[w]>>

\* Whatever fails, dies or expires, a workflow changes what production serves only while the
\* lease directory holds its own owner record (assertProductionLease before every mutation).
HolderOnly ==
    [][\A w \in Workflow : Moved(w) /\ Served(ha') # Served(ha) => Holds(w)]_vars

\* Until a deployment starts to finalize, the captured directory is whole in one of its two
\* places, so that an interrupted swap can be undone from the host alone (reconcileAssetSwap).
Finalized(w) == prog[w] \in {"ciDeploy", "ciRollback"} /\ ip[w] > Len(Programs[prog[w]]) - Len(FinalizeRelease)
PriorRetained ==
    \A w \in Workflow :
        prog[w] \in {"ciDeploy", "rmDeploy", "rmVerify", "rmRollback"} /\ ~Finalized(w)
            /\ snap[w] # NoCapture /\ ha.lock.by = w
        => Files(w) \in {ha.remote, ha.previous[w]}

\* How a workflow ends is what happened: a deployment that reports success leaves its own commit
\* on all three of directory, card and wrapper, unless it had given the lease up and died before;
\* a no-op or a rollback leaves exactly the capture; and only a workflow whose end says so leaves
\* its lease behind.
TruthfulEnd ==
    [][\A w \in Workflow : prog'[w] # prog[w] =>
          /\ prog'[w] \in {"deployed", "accepted"} /\ ha.lock.by # NoOne => Live(ha') = Candidate[w]
          /\ prog'[w] \in {"kept", "rolledBack"} => Served(ha') = snap[w]
          /\ prog'[w] \in {"kept", "deployed", "rolledBack", "accepted"} => ha'.lock.by # w]_vars

\* A commit that changes Home Assistant files or the panel bridge is never passed over: what an
\* automatic deployment puts live, be it to roll it back later, has none between it and what
\* production settled on before the lease was taken, whatever another workflow was serving when
\* its own lease expired or its process died (resolveDeploymentLineage over what was captured).
RuntimeNeverSkipped ==
    [][\A w \in CI : Moved(w) /\ settled # 0 /\ Live(ha') # Live(ha)
          => ~\E n \in Runtime : settled < n /\ n <= Live(ha')]_vars

AP == INSTANCE AtomicPublication
          WITH live <- settled, holder <- ha.lock.by, Ordered <- CI, Unconditional <- Workflow \ CI

\* The lease, the swap and the rollback make every turn atomic: when the lease is free again
\* production is as it was or wholly on the turn's commit, and automatic turns never go back.
Publication == AP!Spec

\* Nobody but the workflow changes production here, so its rollback is never refused.
RollbackNotRefused == \A w \in CI : At(w, "guard") => RollbackSafe(w)
=============================================================================
