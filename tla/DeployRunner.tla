---------------------------- MODULE DeployRunner ----------------------------
(***************************************************************************)
(* The host controller that runs each deployment job on a runner of its    *)
(* own (ha-deploy-runner-controller.ts): it registers a just-in-time       *)
(* runner, starts its containers, waits until GitHub binds the job to it,  *)
(* opens the way to Home Assistant, authorizes the job, and takes          *)
(* everything away again.  A journal on disk tells a restarted controller  *)
(* how far its predecessor came.  Every call to GitHub, Docker or the disk *)
(* is a step of its own; it may fail, or take effect and lose its answer,  *)
(* and the process may die between any two.                                *)
(*                                                                         *)
(* A run stands for one attempt of a workflow with its one job for the     *)
(* controller; the names of its network, containers and runner derive from *)
(* it.  systemd keeps one controller process.                              *)
(***************************************************************************)
EXTENDS Naturals

CONSTANTS Runs, NoRun,
          Production,   \* the runs that deploy; the others are smoke runs
          Built,        \* the production runs with a successful build in the same attempt
          MaxFaults, MaxCrashes

ASSUME RunnerConstants ==
    /\ NoRun \notin Runs
    /\ Production \subseteq Runs /\ Built \subseteq Production
    /\ MaxFaults \in Nat /\ MaxCrashes \in Nat

VARIABLES proc,      \* the controller process
          lock,      \* controller.lock: absent, created, or with a pid
          journal,   \* active-operation.json
          dock,      \* Docker: networks, containers, and the authorization files in them
          hub,       \* GitHub: jobs, runner registrations, runs whose workflow was run again
          leaky,     \* the runs whose cleanup was incomplete or unseen (history)
          faults, crashes

vars == <<proc, lock, journal, dock, hub, leaky, faults, crashes>>

bounds == <<faults, crashes>>

-----------------------------------------------------------------------------
Kinds == {"github", "runner", "ssh", "api"}
Proxies == {"ssh", "api"}

\* authorizationForCandidate: reject without a same-attempt build.
Allowed(r) == r \notin Production \/ r \in Built

NeedsHa(r) == r \in Production /\ Allowed(r)

\* resourceContainerNames
Names(ha) == IF ha THEN Kinds ELSE Kinds \ Proxies

NoJournal == [run |-> NoRun, phase |-> "none", ha |-> FALSE]
Entry(r, phase, ha) == [run |-> r, phase |-> phase, ha |-> ha]

Idle == [at |-> "poll", run |-> NoRun, way |-> "run", todo |-> {},
         net |-> FALSE, failed |-> FALSE, incomplete |-> FALSE]
Down == [Idle EXCEPT !.at = "down"]

Job(r) == hub.job[r]
Unassigned(r) == Job(r).by = "none"

\* selectControllerCandidate: a queued, unassigned job with the run's own label.
Runnable(r) == Job(r).status = "queued" /\ Unassigned(r)
Candidates == {r \in Runs : Runnable(r)}

Go(l) == proc' = [proc EXCEPT !.at = l] /\ UNCHANGED lock

\* The catch of runCandidate: what was started is taken away.
Fail == proc' = [proc EXCEPT !.at = "settle", !.failed = TRUE] /\ UNCHANGED lock

\* An error that ends the process: its lock is released.
Exit == proc' = Down /\ lock' = "free"

Thrown == IF proc.way = "run" THEN Fail ELSE Exit

Fault == faults < MaxFaults /\ faults' = faults + 1
Fine == UNCHANGED faults

-----------------------------------------------------------------------------
(* acquireControllerLockFile: a lock whose owner is dead is taken over, an *)
(* empty one is left to the operator.                                      *)
Lock ==
    /\ proc.at = "down" /\ lock # "empty"
    /\ lock' = "empty"
    /\ proc' = [proc EXCEPT !.at = "pid"]
    /\ UNCHANGED <<journal, dock, hub, leaky, bounds>>

WritePid ==
    /\ proc.at = "pid"
    /\ lock' = "held"
    /\ proc' = [proc EXCEPT !.at = "reconcile"]
    /\ UNCHANGED <<journal, dock, hub, leaky, bounds>>

-----------------------------------------------------------------------------
(* reconcileActiveOperation                                                *)
Resume(way, l) ==
    /\ proc' = [proc EXCEPT !.at = l, !.run = journal.run, !.way = way, !.todo = Names(journal.ha)]
    /\ UNCHANGED lock

\* A completed job has its conclusion compared; recovery only reports a wrong one.
Conclude(r) ==
    IF proc.way = "run" /\ Job(r).ok # Allowed(r) THEN Fail
    ELSE /\ proc' = [proc EXCEPT !.at = "completed", !.failed = Job(r).ok # Allowed(r)]
         /\ UNCHANGED lock

\* assertAuthorizedRecoveryBinding, and the run still in the attempt that was authorized.
Recoverable(r) ==
    /\ r \notin hub.superseded
    /\ IF Job(r).status = "completed" THEN Job(r).by # "foreign"
       ELSE r \in hub.registered /\ Job(r).by = "ours"

ReconcileNothing == journal = NoJournal /\ proc' = Idle /\ UNCHANGED lock

\* Mutant: only a job that is still queued is undone.
ReconcileQueued ==
    /\ journal.phase = "planned"
    /\ IF Runnable(journal.run) THEN Resume("pre", "remove") ELSE Exit

ReconcilePlanned ==
    /\ journal.phase = "planned"
    /\ IF Unassigned(journal.run) THEN Resume("pre", "remove") ELSE Exit

\* Mutant: an authorized operation is undone like a terminal one.
ReconcileAnyTerminal == journal.phase \in {"authorized", "completed", "cleanup"} /\ Resume("terminal", "remove")

ReconcileTerminal == journal.phase \in {"completed", "cleanup"} /\ Resume("terminal", "remove")

ReconcileAuthorized ==
    /\ journal.phase = "authorized"
    /\ IF Recoverable(journal.run)
       THEN Resume("resume", IF Job(journal.run).status = "completed" THEN "concluded" ELSE "authorize")
       ELSE Exit

ReconcileDoubt == journal.phase \in {"assigned", "ha-enabled"} /\ Exit

Reconcile ==
    /\ proc.at = "reconcile"
    /\ \/ ReconcileNothing /\ Fine
       \/ ReconcilePlanned /\ Fine
       \/ ReconcileTerminal /\ Fine
       \/ ReconcileAuthorized /\ Fine
       \/ ReconcileDoubt /\ Fine
       \/ journal # NoJournal /\ Fault /\ Exit
    /\ UNCHANGED <<journal, dock, hub, leaky, crashes>>

-----------------------------------------------------------------------------
(* The poll loop: several runnable jobs are refused, one is looked at again. *)
FindCandidate ==
    /\ proc.at = "poll"
    /\ \E r \in Runs : Candidates = {r} /\ proc' = [Idle EXCEPT !.at = "validate", !.run = r]
    /\ UNCHANGED <<lock, journal, dock, hub, leaky, bounds>>

\* revalidateCandidate and validateControlPlane
Validate ==
    /\ proc.at = "validate"
    /\ UNCHANGED lock
    /\ \/ Runnable(proc.run) /\ proc' = [proc EXCEPT !.at = "plan"]
       \/ proc' = Idle
    /\ UNCHANGED <<journal, dock, hub, leaky, bounds>>

-----------------------------------------------------------------------------
(* runCandidate, call by call.                                             *)
Record(l, entry, then) ==
    /\ proc.at = l
    /\ \/ journal' = entry /\ then /\ Fine
       \/ UNCHANGED journal /\ Thrown /\ Fault
    /\ UNCHANGED <<dock, hub, leaky, crashes>>

Plan == Record("plan", Entry(proc.run, "planned", FALSE), Go("jit"))

\* generateJitConfiguration, and the journal write with the id of the runner: a run whose id
\* is not recorded is found by its name.
GenerateJit ==
    /\ proc.at = "jit"
    /\ \/ /\ proc.run \notin hub.registered
          /\ hub' = [hub EXCEPT !.registered = @ \union {proc.run}]
          /\ (Go("network") /\ Fine) \/ (Fail /\ Fault)
       \/ proc.run \in hub.registered /\ Fail /\ Fine /\ UNCHANGED hub
       \/ Fail /\ Fault /\ UNCHANGED hub
    /\ UNCHANGED <<journal, dock, leaky, crashes>>

\* The network counts as created only when the command reports it.
CreateNetwork ==
    /\ proc.at = "network"
    /\ \/ /\ proc.run \notin dock.networks
          /\ dock' = [dock EXCEPT !.networks = @ \union {proc.run}]
          /\ \/ /\ proc' = [proc EXCEPT !.at = "github", !.net = TRUE]
                /\ UNCHANGED <<lock, leaky>> /\ Fine
             \/ Fail /\ leaky' = leaky \union {proc.run} /\ Fault
       \/ proc.run \in dock.networks /\ Fail /\ Fine /\ UNCHANGED <<dock, leaky>>
       \/ Fail /\ Fault /\ UNCHANGED <<dock, leaky>>
    /\ UNCHANGED <<journal, hub, crashes>>

Container(k) == <<proc.run, k>>

\* startGithubProxy and startHomeAssistantProxy remove what they could not bring up.
StartProxy(k, next) ==
    /\ proc.at = k
    /\ \/ /\ Container(k) \notin dock.containers
          /\ dock' = [dock EXCEPT !.containers = @ \union {Container(k)}]
          /\ Go(next) /\ Fine
       \/ /\ dock' = [dock EXCEPT !.containers = @ \ {Container(k)}]
          /\ Fail
          /\ IF Container(k) \in dock.containers THEN Fine ELSE Fault
    /\ UNCHANGED <<journal, hub, leaky, crashes>>

StartGithubProxy == StartProxy("github", "runner")

StartRunner ==
    /\ proc.at = "runner"
    /\ \/ /\ Container("runner") \notin dock.containers
          /\ dock' = [dock EXCEPT !.containers = @ \union {Container("runner")}]
          /\ (Go("assignment") /\ Fine) \/ (Fail /\ Fault)
       \/ Container("runner") \in dock.containers /\ Fail /\ Fine /\ UNCHANGED dock
       \/ Fail /\ Fault /\ UNCHANGED dock
    /\ UNCHANGED <<journal, hub, leaky, crashes>>

\* Mutant: the binding to the own runner is not asserted.
WaitForAnyAssignment ==
    /\ proc.at = "assignment"
    /\ \/ ~Unassigned(proc.run) /\ Go("assigned") /\ Fine
       \/ Unassigned(proc.run) /\ Fail /\ Fine
       \/ Fail /\ Fault
    /\ UNCHANGED <<journal, dock, hub, leaky, crashes>>

\* The deadline may pass while the job has no runner.
WaitForAssignment ==
    /\ proc.at = "assignment"
    /\ \/ Job(proc.run).by = "ours" /\ Go("assigned") /\ Fine
       \/ Job(proc.run).by # "ours" /\ Fail /\ Fine
       \/ Fail /\ Fault
    /\ UNCHANGED <<journal, dock, hub, leaky, crashes>>

\* Mutant: the journal goes on saying planned.
AssignedUnrecorded ==
    Record("assigned", Entry(proc.run, "planned", FALSE),
           Go(IF NeedsHa(proc.run) THEN "revalidate" ELSE "authorized"))

Assigned ==
    Record("assigned", Entry(proc.run, "assigned", FALSE),
           Go(IF NeedsHa(proc.run) THEN "revalidate" ELSE "authorized"))

\* revalidateBeforeHomeAssistantAccess; the candidate may also have left master's line.
Revalidate ==
    /\ proc.at = "revalidate"
    /\ \/ /\ proc.run \notin hub.superseded
          /\ Job(proc.run).status = "running" /\ Job(proc.run).by = "ours"
          /\ Go("ssh")
       \/ Fail
    /\ UNCHANGED <<journal, dock, hub, leaky, bounds>>

StartSshProxy == StartProxy("ssh", "api")
StartApiProxy == StartProxy("api", "enabled")

Enabled == Record("enabled", Entry(proc.run, "ha-enabled", TRUE), Go("authorized"))

Authorized ==
    Record("authorized", Entry(proc.run, "authorized", NeedsHa(proc.run)), Go("authorize"))

\* docker exec into the runner, from runCandidate or from recovery.
AuthorizeRunner ==
    /\ proc.at = "authorize"
    /\ \/ /\ Container("runner") \in dock.containers
          /\ dock' = [dock EXCEPT !.authorized = @ \union {proc.run}]
          /\ (Go("wait") /\ Fine) \/ (Thrown /\ Fault)
       \/ Container("runner") \notin dock.containers /\ Thrown /\ Fine /\ UNCHANGED dock
       \/ Thrown /\ Fault /\ UNCHANGED dock
    /\ UNCHANGED <<journal, hub, leaky, crashes>>

\* The deadline may pass, and a poll of the job may fail.
WaitForCompletion ==
    /\ proc.at = "wait"
    /\ \/ Job(proc.run).status = "completed" /\ Conclude(proc.run) /\ Fine
       \/ Job(proc.run).status # "completed" /\ Thrown /\ Fine
       \/ Thrown /\ Fault
    /\ UNCHANGED <<journal, dock, hub, leaky, crashes>>

\* Recovery that found the job completed.
Concluded ==
    /\ proc.at = "concluded"
    /\ Conclude(proc.run)
    /\ UNCHANGED <<journal, dock, hub, leaky, bounds>>

Completed ==
    Record("completed", Entry(proc.run, "completed", journal.ha),
           Go(IF proc.way = "run" THEN "settle" ELSE "remove"))

-----------------------------------------------------------------------------
(* The end of runCandidate, and the cleanup every way of recovery shares.  *)
\* Without a network of its own the operation has no containers to remove.
Settle ==
    /\ proc.at = "settle"
    /\ IF proc.net
       THEN /\ proc' = [proc EXCEPT !.at = "remove", !.todo = Names(NeedsHa(proc.run))]
            /\ \/ journal' = Entry(proc.run, "cleanup", NeedsHa(proc.run)) /\ Fine
               \/ UNCHANGED journal /\ Fault
       ELSE /\ proc' = [proc EXCEPT !.at = "unregister"]
            /\ UNCHANGED journal /\ Fine
    /\ UNCHANGED <<lock, dock, hub, leaky, crashes>>

\* Only the two startup cleanups end the process; the others go on to the registration.
Incomplete(l) ==
    IF proc.way \in {"pre", "terminal"} THEN Exit /\ UNCHANGED leaky
    ELSE /\ proc' = [proc EXCEPT !.at = l, !.incomplete = TRUE]
         /\ leaky' = IF proc.way = "run" THEN leaky \union {proc.run} ELSE leaky
         /\ UNCHANGED lock

\* docker rm --force; the runner's authorization file is in its memory.
Removed(k) ==
    [dock EXCEPT !.containers = @ \ {Container(k)},
                 !.authorized = IF k = "runner" THEN @ \ {proc.run} ELSE @]

Rank == [k \in Kinds |-> CASE k = "github" -> 1 [] k = "runner" -> 2 [] k = "ssh" -> 3 [] k = "api" -> 4]

\* removeContainer: when docker answers neither rm nor inspect the container passes for removed.
Remove ==
    /\ proc.at = "remove"
    /\ \E k \in proc.todo :
          /\ \A j \in proc.todo : Rank[k] <= Rank[j]
          /\ \/ /\ dock' = Removed(k)
                /\ proc' = [proc EXCEPT !.todo = @ \ {k}]
                /\ UNCHANGED <<lock, leaky>> /\ Fine
             \/ /\ Container(k) \in dock.containers /\ Fault
                /\ \/ Incomplete("unregister")
                   \/ /\ proc' = [proc EXCEPT !.todo = @ \ {k}]
                      /\ leaky' = leaky \union {proc.run} /\ UNCHANGED lock
                /\ UNCHANGED dock
    /\ UNCHANGED <<journal, hub, crashes>>

\* Docker keeps a network that containers are attached to.
RemoveNetwork ==
    /\ proc.at = "remove" /\ proc.todo = {}
    /\ \/ /\ \A k \in Kinds : Container(k) \notin dock.containers
          /\ dock' = [dock EXCEPT !.networks = @ \ {proc.run}]
          /\ Go("unregister") /\ UNCHANGED leaky /\ Fine
       \/ /\ \E k \in Kinds : Container(k) \in dock.containers
          /\ Incomplete("unregister") /\ Fine /\ UNCHANGED dock
       \/ /\ proc.run \in dock.networks /\ Fault
          /\ \/ Incomplete("unregister")
             \/ Go("unregister") /\ leaky' = leaky \union {proc.run}
          /\ UNCHANGED dock
    /\ UNCHANGED <<journal, hub, crashes>>

Cleared == Go(IF proc.incomplete THEN "finish" ELSE "clear")

\* removeRunnerRegistrationForJournal; GitHub keeps the runner of a job that runs.
Unregister ==
    /\ proc.at = "unregister"
    /\ \/ /\ ~(Job(proc.run).status = "running" /\ Job(proc.run).by = "ours")
          /\ hub' = [hub EXCEPT !.registered = @ \ {proc.run}]
          /\ (Cleared /\ UNCHANGED leaky /\ Fine) \/ (Incomplete("finish") /\ Fault)
       \/ /\ Job(proc.run).status = "running" /\ Job(proc.run).by = "ours"
          /\ Incomplete("finish") /\ Fine /\ UNCHANGED hub
       \/ Incomplete("finish") /\ Fault /\ UNCHANGED hub
    /\ UNCHANGED <<journal, dock, crashes>>

\* clearActiveOperation
Clear ==
    /\ proc.at = "clear"
    /\ \/ journal' = NoJournal /\ Go("finish") /\ UNCHANGED leaky /\ Fine
       \/ Incomplete("finish") /\ Fault /\ UNCHANGED journal
    /\ UNCHANGED <<dock, hub, crashes>>

\* The loop reports a failure and polls on; a failed recovery ends the process.
Finish ==
    /\ proc.at = "finish"
    /\ IF proc.way = "resume" /\ (proc.failed \/ proc.incomplete)
       THEN Exit
       ELSE proc' = Idle /\ UNCHANGED lock
    /\ UNCHANGED <<journal, dock, hub, leaky, bounds>>

Crash ==
    /\ proc.at # "down" /\ crashes < MaxCrashes
    /\ crashes' = crashes + 1
    /\ proc' = Down
    /\ UNCHANGED <<lock, journal, dock, hub, leaky, faults>>

-----------------------------------------------------------------------------
(* GitHub, the runner in its container, and the job.                       *)
SetJob(r, status, by, ok) ==
    hub' = [hub EXCEPT !.job[r] = [status |-> status, by |-> by, ok |-> ok]]

\* The workflow lets one production job at a time leave its concurrency group.
Queue(r) ==
    /\ Job(r).status = "absent"
    /\ r \in Production => \A q \in Production : Job(q).status \in {"absent", "completed"}
    /\ SetJob(r, "queued", "none", FALSE)

Assign(r) ==
    /\ Job(r).status = "queued"
    /\ r \in hub.registered /\ <<r, "runner">> \in dock.containers
    /\ SetJob(r, "running", "ours", FALSE)

\* Another runner carries the label.
Foreign(r) == Job(r).status = "queued" /\ SetJob(r, "running", "foreign", FALSE)

Cancel(r) == Job(r).status = "queued" /\ SetJob(r, "completed", "none", FALSE)

\* The job passes its admission gate with an authorization to deploy and reaches Home Assistant.
CanSucceed(r) ==
    \/ Job(r).by = "foreign"
    \/ /\ r \in dock.authorized /\ Allowed(r)
       /\ \A k \in IF NeedsHa(r) THEN Kinds ELSE Kinds \ Proxies : <<r, k>> \in dock.containers

\* The registration goes with its one job.
JobEnds(r) ==
    /\ Job(r).status = "running"
    /\ \E ok \in BOOLEAN :
          /\ ok => CanSucceed(r)
          /\ hub' = [hub EXCEPT !.job[r] = [@ EXCEPT !.status = "completed", !.ok = ok],
                                !.registered = IF Job(r).by = "ours" THEN @ \ {r} ELSE @]

Rerun(r) ==
    /\ Job(r).status = "completed" /\ r \notin hub.superseded
    /\ hub' = [hub EXCEPT !.superseded = @ \union {r}]

Outside ==
    /\ \E r \in Runs : Queue(r) \/ Assign(r) \/ Foreign(r) \/ Cancel(r) \/ JobEnds(r) \/ Rerun(r)
    /\ UNCHANGED <<proc, lock, journal, dock, leaky, bounds>>

-----------------------------------------------------------------------------
Init ==
    /\ proc = Down /\ lock = "free" /\ journal = NoJournal
    /\ dock = [networks |-> {}, containers |-> {}, authorized |-> {}]
    /\ hub = [job |-> [r \in Runs |-> [status |-> "absent", by |-> "none", ok |-> FALSE]],
              registered |-> {}, superseded |-> {}]
    /\ leaky = {} /\ faults = 0 /\ crashes = 0

Controller ==
    \/ Lock \/ WritePid \/ Reconcile \/ FindCandidate \/ Validate
    \/ Plan \/ GenerateJit \/ CreateNetwork \/ StartGithubProxy \/ StartRunner
    \/ WaitForAssignment \/ Assigned \/ Revalidate \/ StartSshProxy \/ StartApiProxy
    \/ Enabled \/ Authorized \/ AuthorizeRunner \/ WaitForCompletion \/ Concluded \/ Completed
    \/ Settle \/ Remove \/ RemoveNetwork \/ Unregister \/ Clear \/ Finish

Next == Controller \/ Crash \/ Outside

Spec == Init /\ [][Next]_vars

\* systemd restarts the process and its waits have deadlines; a job has a time limit, and fails
\* when its runner is gone.
Fairness ==
    /\ WF_vars(Controller)
    /\ \A r \in Runs : WF_vars(JobEnds(r) /\ UNCHANGED <<proc, lock, journal, dock, leaky, bounds>>)

FairSpec == Spec /\ Fairness

-----------------------------------------------------------------------------
Labels == {"down", "pid", "reconcile", "poll", "validate", "plan", "jit", "network", "github", "runner",
           "assignment", "assigned", "revalidate", "ssh", "api", "enabled", "authorized", "authorize",
           "wait", "concluded", "completed", "settle", "remove", "unregister", "clear", "finish"}

Processes == [at : Labels, run : Runs \union {NoRun}, way : {"run", "pre", "terminal", "resume"},
              todo : SUBSET Kinds, net : BOOLEAN, failed : BOOLEAN, incomplete : BOOLEAN]

Journals == [run : Runs \union {NoRun}, ha : BOOLEAN,
             phase : {"none", "planned", "assigned", "ha-enabled", "authorized", "completed", "cleanup"}]

Docks == [networks : SUBSET Runs, containers : SUBSET (Runs \X Kinds), authorized : SUBSET Runs]

Jobs == [status : {"absent", "queued", "running", "completed"}, by : {"none", "ours", "foreign"}, ok : BOOLEAN]
Hubs == [job : [Runs -> Jobs], registered : SUBSET Runs, superseded : SUBSET Runs]

\* Types of the process, the journal and what it left in Docker and on GitHub.
TypeOK ==
    /\ proc \in Processes /\ lock \in {"free", "empty", "held"} /\ journal \in Journals
    /\ dock \in Docks /\ hub \in Hubs
    /\ leaky \subseteq Runs /\ faults \in 0..MaxFaults /\ crashes \in 0..MaxCrashes

\* Trust follows the binding: a job is authorized, and Home Assistant opened for it, only while
\* GitHub has bound it to the runner made for it; Home Assistant only for an admitted deployment.
TrustFollowsBinding ==
    \A r \in Runs :
        /\ r \in dock.authorized => Job(r).by = "ours"
        /\ \A k \in Proxies : <<r, k>> \in dock.containers => NeedsHa(r) /\ Job(r).by = "ours"

\* Whatever an operation leaves in Docker or on GitHub the journal names, so that a restarted
\* controller finds it, unless its cleanup was incomplete: a container for Home Assistant is named
\* from the moment recovery would act without the operator, and a journal that recovery undoes
\* without looking, or that does not tell of an authorization, has opened and authorized nothing.
NothingForgotten ==
    \A r \in Runs \ leaky :
        /\ r \in dock.networks \union hub.registered => journal.run = r
        /\ \A k \in Kinds : <<r, k>> \in dock.containers =>
              journal.run = r /\ (k \in Names(journal.ha) \/ journal.phase = "assigned")
        /\ r \in dock.authorized => journal.run = r /\ journal.phase \in {"authorized", "completed", "cleanup"}

\* Recovery spares a job at work: the runner of an authorized, running job is taken away only by
\* the process that gave the operation up, or after it was recorded as given up.
RecoverySparesJob ==
    [][\A r \in dock.authorized \ dock'.authorized :
          Job(r).status = "running" => proc.way = "run" \/ journal.phase = "cleanup"]_vars

\* What a restart leaves to the operator.
Doubt ==
    \/ lock = "empty" /\ proc.at = "down"
    \/ journal.phase \in {"assigned", "ha-enabled"}
    \/ journal.phase = "planned" /\ ~Unassigned(journal.run)
    \/ journal.phase = "authorized" /\ (journal.run \in hub.superseded \/ Job(journal.run).by = "foreign")
    \/ journal.run \in leaky

\* Every operation ends: the journal of a run is cleared, or replaced, or left to the operator,
\* whatever calls fail and wherever the process dies.
OperationEnds == (journal # NoJournal) ~> (journal = NoJournal \/ Doubt)
=============================================================================
