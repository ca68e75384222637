------------------------- MODULE DeployRunnerProofs -------------------------
(***************************************************************************)
(* Proofs about DeployRunner: for any runs of either kind, and any number  *)
(* of faults and crashes, trust follows the binding, nothing an operation  *)
(* leaves behind is forgotten, and recovery spares a job at work.          *)
(* The inductive invariant has two halves.  Left is what holds of Docker,  *)
(* GitHub and the journal at any time, so that a crash cannot disturb it;  *)
(* Stands is what the label of the controller adds.  An action is shown to *)
(* keep Left first, and Stands from where it goes.                         *)
(***************************************************************************)
EXTENDS DeployRunner, TLAPS

-----------------------------------------------------------------------------
(* The labels of the controller, by what has been done when they are met.  *)
Planning == {"jit", "network", "github", "runner", "assignment", "assigned"}
Opening == {"revalidate", "ssh", "api", "enabled"}
Ending == {"authorize", "wait", "concluded", "completed"}
Leaving == {"settle", "remove", "unregister", "clear", "finish"}

\* Only runCandidate passes these.
RunOnly == {"validate", "plan", "settle", "authorized"} \union Planning \union Opening
Working == RunOnly \union Ending \union Leaving

Gone(r) ==
    /\ r \notin dock.networks /\ r \notin dock.authorized
    /\ \A k \in Kinds : <<r, k>> \notin dock.containers

\* Nothing is in the journal, or only what an incomplete cleanup left.
Free == journal = NoJournal \/ journal.run \in leaky

\* A job has a runner once it runs.
Bound == \A r \in Runs : Job(r).status \in {"absent", "queued"} => Unassigned(r)

\* An authorization lives in the runner's container.
InRunner == \A r \in dock.authorized : <<r, "runner">> \in dock.containers

\* What the journal tells at any time.
Journalled ==
    /\ journal = NoJournal \/ (journal.run \in Runs /\ journal.phase # "none")
    /\ journal.phase \in {"planned", "assigned", "ha-enabled"} => journal.run \notin dock.authorized
    /\ journal.phase = "completed" => Job(journal.run).status = "completed"

\* Where the operation of runCandidate or of recovery stands.
Forward ==
    /\ proc.at \in RunOnly => proc.way = "run"
    /\ proc.at \in Working => proc.run \in Runs
    /\ proc.at \in {"poll", "validate", "plan"} => Free
    /\ proc.at = "plan" => proc.run \notin dock.authorized
    /\ proc.at \in Planning => journal.run = proc.run /\ journal.phase = "planned"
    /\ proc.at \in Opening => journal.run = proc.run /\ journal.phase = "assigned"
    /\ proc.at = "authorized" => journal.run = proc.run /\ journal.phase \in {"assigned", "ha-enabled"}
    /\ proc.at \in Ending =>
          journal.run = proc.run /\ journal.phase = "authorized" /\ proc.way \in {"run", "resume"}
    /\ proc.at \in Opening \union {"assigned", "authorized", "authorize"} => Job(proc.run).by = "ours"
    /\ proc.at \in Opening => NeedsHa(proc.run)
    /\ proc.at \in {"concluded", "completed"} => Job(proc.run).status = "completed"

\* Without a network nothing was started.
Started ==
    proc.at \in {"plan", "settle", "authorized"} \union Planning \union Opening \union Ending =>
        \/ proc.way # "run"
        \/ proc.net
        \/ proc.at \in {"plan", "jit", "network", "settle"} /\ (Gone(proc.run) \/ proc.run \in leaky)

\* How far the operation has been taken away.
Backward ==
    /\ proc.at \in Leaving /\ proc.way = "run" =>
          /\ Free \/ journal.run = proc.run
          /\ proc.incomplete => proc.run \in leaky
    /\ proc.at \in Leaving \ {"finish"} =>
          /\ proc.way = "pre" => journal.run = proc.run /\ journal.phase = "planned"
          /\ proc.way = "terminal" => journal.run = proc.run /\ journal.phase \in {"completed", "cleanup"}
          /\ proc.way = "resume" => journal.run = proc.run /\ journal.phase = "completed"
    /\ proc.at \in Leaving /\ proc.way \in {"pre", "terminal"} => ~proc.incomplete
    /\ proc.at \notin {"unregister", "finish"} => ~proc.incomplete
    /\ proc.at = "unregister" => proc.incomplete \/ Gone(proc.run) \/ proc.run \in leaky
    /\ proc.at = "clear" => (Gone(proc.run) /\ proc.run \notin hub.registered) \/ proc.run \in leaky
    /\ proc.at = "finish" => IF proc.way = "run" THEN Free ELSE journal = NoJournal \/ proc.incomplete

Left ==
    /\ journal \in Journals /\ dock \in Docks /\ hub \in Hubs /\ leaky \subseteq Runs
    /\ Bound /\ InRunner /\ Journalled /\ TrustFollowsBinding /\ NothingForgotten

Stands == proc \in Processes /\ Forward /\ Started /\ Backward

RunnerInv == Left /\ Stands

-----------------------------------------------------------------------------
(* Where control goes.                                                     *)
LEMMA LeftStays == ASSUME Left, UNCHANGED <<journal, dock, hub, leaky>> PROVE Left'
  BY DEF Left, Bound, InRunner, Journalled, TrustFollowsBinding, NothingForgotten, Job, Unassigned, Names

LEMMA DownIsTyped ==
  /\ Down \in Processes /\ Down.at = "down" /\ ~Down.incomplete
  /\ Idle \in Processes /\ Idle.at = "poll" /\ ~Idle.incomplete
  BY DEF Down, Idle, Processes, Labels

LEMMA ExitStands == ASSUME proc' = Down PROVE Stands'
  BY DownIsTyped DEF Stands, Forward, Started, Backward, RunOnly, Working, Planning, Opening, Ending, Leaving

LEMMA IdleStands == ASSUME proc' = Idle, Free' PROVE Stands'
  BY DownIsTyped DEF Stands, Forward, Started, Backward, RunOnly, Working, Planning, Opening, Ending, Leaving

LEMMA AtOf ==
  ASSUME proc \in Processes, NEW l \in Labels, proc' = [proc EXCEPT !.at = l]
  PROVE  /\ proc' \in Processes /\ proc'.at = l /\ proc'.run = proc.run /\ proc'.way = proc.way
         /\ proc'.net = proc.net /\ proc'.incomplete = proc.incomplete /\ proc'.todo = proc.todo
  BY DEF Processes

LEMMA FailOf ==
  ASSUME proc \in Processes, Fail
  PROVE  /\ proc' \in Processes /\ proc'.at = "settle" /\ proc'.run = proc.run /\ proc'.way = proc.way
         /\ proc'.net = proc.net /\ proc'.incomplete = proc.incomplete
  BY DEF Processes, Labels, Fail

\* The catch of runCandidate.
LEMMA FailStands ==
  ASSUME Stands, Fail, proc.way = "run", proc.run \in Runs, ~proc.incomplete,
         Free' \/ journal'.run = proc.run,
         proc.net \/ Gone(proc.run)' \/ proc.run \in leaky'
  PROVE  Stands'
<1>1. /\ proc' \in Processes /\ proc'.at = "settle" /\ proc'.run = proc.run /\ proc'.way = "run"
      /\ proc'.net = proc.net /\ ~proc'.incomplete
  BY FailOf DEF Stands
<1>3. Forward' /\ Backward'
  BY <1>1 DEF Forward, Backward, RunOnly, Working, Planning, Opening, Ending, Leaving
<1>4. Started'
  BY <1>1 DEF Started, Gone, Planning, Opening, Ending
<1>5. QED
  BY <1>1, <1>3, <1>4 DEF Stands


-----------------------------------------------------------------------------
(* Starting, and reconcileActiveOperation.                                 *)
LEMMA LockKeeps == ASSUME RunnerInv, Lock \/ WritePid PROVE RunnerInv'
<1>1. Left'
  BY LeftStays DEF RunnerInv, Lock, WritePid
<1>2. PICK l \in {"pid", "reconcile"} : proc' = [proc EXCEPT !.at = l] /\ proc.at \in {"down", "pid"}
  BY DEF Lock, WritePid
<1>3. /\ proc' \in Processes /\ proc'.at \in {"pid", "reconcile"} /\ proc'.incomplete = proc.incomplete
  BY <1>2, AtOf DEF RunnerInv, Stands, Labels
<1>4. ~proc.incomplete
  BY <1>2 DEF RunnerInv, Stands, Backward
<1>5. Stands'
  BY <1>3, <1>4 DEF Stands, Forward, Started, Backward, RunOnly, Working, Planning, Opening, Ending, Leaving
<1>6. QED
  BY <1>1, <1>5 DEF RunnerInv

LEMMA ResumeOf ==
  ASSUME proc \in Processes, journal \in Journals, NEW w \in {"pre", "terminal", "resume"},
         NEW l \in Labels, Resume(w, l)
  PROVE  /\ proc' \in Processes /\ proc'.at = l /\ proc'.run = journal.run /\ proc'.way = w
         /\ proc'.incomplete = proc.incomplete
<1>1. Names(journal.ha) \in SUBSET Kinds
  BY DEF Names
<1>2. QED
  BY <1>1 DEF Processes, Journals, Resume

LEMMA ReconcileKeeps == ASSUME RunnerInv, Reconcile PROVE RunnerInv'
<1>1. Left' /\ Left /\ Stands /\ proc.at = "reconcile" /\ ~proc.incomplete
  BY LeftStays DEF RunnerInv, Reconcile, Stands, Backward
<1>2. UNCHANGED <<journal, dock, hub, leaky>>
  BY DEF Reconcile
<1>3. CASE ReconcileNothing
  BY <1>1, <1>2, <1>3, IdleStands DEF ReconcileNothing, Free, RunnerInv
<1>4. CASE proc' = Down
  BY <1>1, <1>4, ExitStands DEF RunnerInv
<1>5. CASE Resume("pre", "remove") /\ journal.phase = "planned"
  <2>1. /\ proc' \in Processes /\ proc'.at = "remove" /\ proc'.run = journal.run /\ proc'.way = "pre"
        /\ ~proc'.incomplete /\ journal.run \in Runs
    BY <1>1, <1>5, ResumeOf DEF Left, Stands, Journalled, NoJournal, Labels
  <2>2. Stands'
    BY <1>2, <1>5, <2>1 DEF Stands, Forward, Started, Backward, RunOnly, Working, Planning, Opening, Ending, Leaving
  <2>3. QED
    BY <1>1, <2>2 DEF RunnerInv
<1>6. CASE Resume("terminal", "remove") /\ journal.phase \in {"completed", "cleanup"}
  <2>1. /\ proc' \in Processes /\ proc'.at = "remove" /\ proc'.run = journal.run /\ proc'.way = "terminal"
        /\ ~proc'.incomplete /\ journal.run \in Runs
    BY <1>1, <1>6, ResumeOf DEF Left, Stands, Journalled, NoJournal, Labels
  <2>2. Stands'
    BY <1>2, <1>6, <2>1 DEF Stands, Forward, Started, Backward, RunOnly, Working, Planning, Opening, Ending, Leaving
  <2>3. QED
    BY <1>1, <2>2 DEF RunnerInv
<1>7. CASE /\ journal.phase = "authorized" /\ Recoverable(journal.run)
           /\ Resume("resume", IF Job(journal.run).status = "completed" THEN "concluded" ELSE "authorize")
  <2>1. /\ proc' \in Processes /\ proc'.run = journal.run /\ proc'.way = "resume" /\ ~proc'.incomplete
        /\ proc'.at = IF Job(journal.run).status = "completed" THEN "concluded" ELSE "authorize"
        /\ journal.run \in Runs
    BY <1>1, <1>7, ResumeOf DEF Left, Stands, Journalled, NoJournal, Labels
  <2>2. proc'.at = "authorize" => Job(journal.run).by = "ours"
    BY <1>7, <2>1 DEF Recoverable
  <2>3. Stands'
    BY <1>2, <1>7, <2>1, <2>2
       DEF Stands, Forward, Started, Backward, RunOnly, Working, Planning, Opening, Ending, Leaving, Job
  <2>4. QED
    BY <1>1, <2>3 DEF RunnerInv
<1>8. QED
  BY <1>3, <1>4, <1>5, <1>6, <1>7
     DEF Reconcile, ReconcilePlanned, ReconcileTerminal, ReconcileAuthorized, ReconcileDoubt, Exit

LEMMA CrashKeeps == ASSUME RunnerInv, Crash PROVE RunnerInv'
  BY LeftStays, ExitStands DEF RunnerInv, Crash

-----------------------------------------------------------------------------
(* The poll loop.                                                          *)
LEMMA FindKeeps == ASSUME RunnerInv, FindCandidate PROVE RunnerInv'
<1>1. Left' /\ proc.at = "poll" /\ UNCHANGED <<journal, leaky>> /\ Free
  BY LeftStays DEF RunnerInv, FindCandidate, Stands, Forward
<1>2. PICK r \in Runs : proc' = [Idle EXCEPT !.at = "validate", !.run = r]
  BY DEF FindCandidate
<1>3. /\ proc' \in Processes /\ proc'.at = "validate" /\ proc'.run \in Runs /\ proc'.way = "run"
      /\ ~proc'.incomplete
  BY <1>2 DEF Idle, Processes, Labels
<1>4. Free'
  BY <1>1 DEF Free
<1>5. Stands'
  BY <1>3, <1>4 DEF Stands, Forward, Started, Backward, RunOnly, Working, Planning, Opening, Ending, Leaving
<1>6. QED
  BY <1>1, <1>5 DEF RunnerInv

LEMMA ValidateKeeps == ASSUME RunnerInv, Validate PROVE RunnerInv'
<1>1. /\ Left' /\ proc.at = "validate" /\ UNCHANGED <<journal, dock, hub, leaky>> /\ Free /\ ~proc.incomplete
      /\ proc.run \in Runs /\ proc.way = "run" /\ proc \in Processes
  BY LeftStays DEF RunnerInv, Validate, Stands, Forward, Backward, RunOnly, Working
<1>2. Free'
  BY <1>1 DEF Free
<1>3. CASE proc' = Idle
  BY <1>1, <1>2, <1>3, IdleStands DEF RunnerInv
<1>4. CASE Runnable(proc.run) /\ proc' = [proc EXCEPT !.at = "plan"]
  <2>1. /\ proc' \in Processes /\ proc'.at = "plan" /\ proc'.run = proc.run /\ proc'.way = "run"
        /\ ~proc'.incomplete
    BY <1>1, <1>4, AtOf DEF Labels
  <2>2. proc.run \notin dock.authorized
    BY <1>1, <1>4 DEF RunnerInv, Left, TrustFollowsBinding, Runnable, Unassigned
  <2>3. Gone(proc.run) \/ proc.run \in leaky
    <3>1. journal.run # proc.run \/ proc.run \in leaky
      BY <1>1, RunnerConstants DEF Free, NoJournal
    <3>2. QED
      BY <1>1, <2>2, <3>1 DEF RunnerInv, Left, NothingForgotten, Gone
  <2>4. Stands'
    BY <1>1, <1>2, <2>1, <2>2, <2>3
       DEF Stands, Forward, Started, Backward, RunOnly, Working, Planning, Opening, Ending, Leaving, Gone
  <2>5. QED
    BY <1>1, <2>4 DEF RunnerInv
<1>5. QED
  BY <1>3, <1>4 DEF Validate


-----------------------------------------------------------------------------
(* runCandidate up to the authorization.                                   *)
LEMMA EntryOf ==
  ASSUME NEW r \in Runs, NEW b \in BOOLEAN,
         NEW p \in {"planned", "assigned", "ha-enabled", "authorized", "completed", "cleanup"}
  PROVE  /\ Entry(r, p, b) \in Journals /\ Entry(r, p, b).run = r /\ Entry(r, p, b).phase = p
         /\ Entry(r, p, b).ha = b
  BY DEF Entry, Journals

\* What every label of runCandidate knows.
LEMMA Candidate ==
  ASSUME RunnerInv, proc.at \in RunOnly \ {"settle"}
  PROVE  /\ proc \in Processes /\ proc.run \in Runs /\ proc.run # NoRun /\ proc.way = "run" /\ ~proc.incomplete
         /\ proc.at \notin {"validate", "plan"} => journal.run = proc.run
         /\ proc.at # "validate" => proc.net \/ Gone(proc.run) \/ proc.run \in leaky
  BY RunnerConstants DEF RunnerInv, Stands, Forward, Started, Backward, RunOnly, Working, Planning, Opening

LEMMA PlanKeeps == ASSUME RunnerInv, Plan PROVE RunnerInv'
<1>1. /\ proc.at = "plan" /\ UNCHANGED <<dock, hub, leaky>> /\ Left /\ Stands
      /\ Free /\ proc.run \notin dock.authorized
  BY DEF RunnerInv, Plan, Record, Stands, Forward
<1>2. /\ proc \in Processes /\ proc.run \in Runs /\ proc.run # NoRun /\ proc.way = "run" /\ ~proc.incomplete
      /\ proc.net \/ Gone(proc.run) \/ proc.run \in leaky
  BY <1>1, Candidate DEF RunOnly
<1>3. CASE journal' = Entry(proc.run, "planned", FALSE) /\ Go("jit")
  <2>1. /\ journal' \in Journals /\ journal'.run = proc.run /\ journal'.phase = "planned" /\ journal'.ha = FALSE
    BY <1>2, <1>3, EntryOf
  <2>2. \A r \in Runs \ leaky : r # proc.run => journal.run # r
    BY <1>1, RunnerConstants DEF Free, NoJournal
  <2>3. proc.run \in leaky \/ journal.run # proc.run
    BY <1>1, <1>2 DEF Free, NoJournal
  <2>4. NothingForgotten'
    BY <1>1, <2>1, <2>2, <2>3, RunnerConstants DEF Left, NothingForgotten, Free, NoJournal
  <2>5. Left'
    BY <1>1, <1>2, <2>1, <2>4 DEF Left, Bound, InRunner, Journalled, TrustFollowsBinding, Job, Unassigned
  <2>6. /\ proc' \in Processes /\ proc'.at = "jit" /\ proc'.run = proc.run /\ proc'.way = "run"
        /\ proc'.net = proc.net /\ ~proc'.incomplete
    BY <1>2, <1>3, AtOf DEF Go, Labels
  <2>7. Stands'
    BY <1>1, <1>2, <2>1, <2>6
       DEF Stands, Forward, Started, Backward, RunOnly, Working, Planning, Opening, Ending, Leaving, Gone
  <2>8. QED
    BY <2>5, <2>7 DEF RunnerInv
<1>4. CASE UNCHANGED journal /\ Thrown
  <2>1. Fail /\ Left' /\ Free'
    BY <1>1, <1>2, <1>4, LeftStays DEF Thrown, Free
  <2>2. Gone(proc.run) => Gone(proc.run)'
    BY <1>1, <1>2, <2>1, FailOf DEF Gone
  <2>3. Stands'
    BY <1>1, <1>2, <2>1, <2>2, FailStands
  <2>4. QED
    BY <2>1, <2>3 DEF RunnerInv
<1>5. QED
  BY <1>3, <1>4 DEF Plan, Record

\* A registration of the run the journal names.
LEMMA Registers ==
  ASSUME Left, NEW r \in Runs, journal.run = r, hub' = [hub EXCEPT !.registered = @ \union {r}],
         UNCHANGED <<journal, dock, leaky>>
  PROVE  Left' /\ hub'.job = hub.job
<1>1. hub' \in Hubs /\ hub'.job = hub.job /\ hub'.registered = hub.registered \union {r}
  BY DEF Left, Hubs
<1>2. Bound' /\ InRunner' /\ Journalled' /\ TrustFollowsBinding' /\ NothingForgotten'
  BY <1>1 DEF Left, Bound, InRunner, Journalled, TrustFollowsBinding, NothingForgotten, Job, Unassigned
<1>3. QED
  BY <1>1, <1>2 DEF Left

LEMMA JitKeeps == ASSUME RunnerInv, GenerateJit PROVE RunnerInv'
<1>1. /\ proc.at = "jit" /\ UNCHANGED <<journal, dock, leaky>> /\ Left /\ Stands
      /\ journal.run = proc.run /\ journal.phase = "planned"
  BY DEF RunnerInv, GenerateJit, Stands, Forward, Planning
<1>2. /\ proc \in Processes /\ proc.run \in Runs /\ proc.run # NoRun /\ proc.way = "run" /\ ~proc.incomplete
      /\ proc.net \/ Gone(proc.run) \/ proc.run \in leaky
  BY <1>1, Candidate DEF RunOnly, Planning
<1>3. Left' /\ hub'.job = hub.job
  <2>1. CASE hub' = [hub EXCEPT !.registered = @ \union {proc.run}]
    BY <1>1, <1>2, <2>1, Registers
  <2>2. CASE UNCHANGED hub
    BY <1>1, <2>2, LeftStays
  <2>3. QED
    BY <2>1, <2>2 DEF GenerateJit
<1>4. CASE Go("network")
  <2>1. /\ proc' \in Processes /\ proc'.at = "network" /\ proc'.run = proc.run /\ proc'.way = "run"
        /\ proc'.net = proc.net /\ ~proc'.incomplete
    BY <1>2, <1>4, AtOf DEF Go, Labels
  <2>2. Stands'
    BY <1>1, <1>2, <2>1
       DEF Stands, Forward, Started, Backward, RunOnly, Working, Planning, Opening, Ending, Leaving, Gone
  <2>3. QED
    BY <1>3, <2>2 DEF RunnerInv
<1>5. CASE Fail
  <2>1. Gone(proc.run) => Gone(proc.run)'
    BY <1>1, <1>2, <1>5, FailOf DEF Gone
  <2>2. Stands'
    BY <1>1, <1>2, <1>5, <2>1, FailStands
  <2>3. QED
    BY <1>3, <2>2 DEF RunnerInv
<1>6. QED
  BY <1>4, <1>5 DEF GenerateJit

LEMMA NetworkKeeps == ASSUME RunnerInv, CreateNetwork PROVE RunnerInv'
<1>1. /\ proc.at = "network" /\ UNCHANGED <<journal, hub>> /\ Left /\ Stands
      /\ journal.run = proc.run /\ journal.phase = "planned"
  BY DEF RunnerInv, CreateNetwork, Stands, Forward, Planning
<1>2. /\ proc \in Processes /\ proc.run \in Runs /\ proc.run # NoRun /\ proc.way = "run" /\ ~proc.incomplete
      /\ proc.net \/ Gone(proc.run) \/ proc.run \in leaky
  BY <1>1, Candidate DEF RunOnly, Planning
<1>3. CASE /\ dock' = [dock EXCEPT !.networks = @ \union {proc.run}]
           /\ \/ proc' = [proc EXCEPT !.at = "github", !.net = TRUE] /\ UNCHANGED leaky
              \/ Fail /\ leaky' = leaky \union {proc.run}
  <2>1. /\ dock' \in Docks /\ dock'.networks = dock.networks \union {proc.run}
        /\ dock'.containers = dock.containers /\ dock'.authorized = dock.authorized
    BY <1>1, <1>2, <1>3 DEF Left, Docks
  <2>2. leaky' \subseteq Runs /\ leaky \subseteq leaky'
    BY <1>1, <1>2, <1>3 DEF Left
  <2>3. Bound' /\ InRunner' /\ Journalled' /\ TrustFollowsBinding' /\ NothingForgotten'
    BY <1>1, <2>1, <2>2
       DEF Left, Bound, InRunner, Journalled, TrustFollowsBinding, NothingForgotten, Job, Unassigned
  <2>4. Left'
    BY <1>1, <2>1, <2>2, <2>3 DEF Left
  <2>5. CASE proc' = [proc EXCEPT !.at = "github", !.net = TRUE] /\ UNCHANGED leaky
    <3>1. /\ proc' \in Processes /\ proc'.at = "github" /\ proc'.run = proc.run /\ proc'.way = "run"
          /\ proc'.net = TRUE /\ ~proc'.incomplete
      BY <1>2, <2>5 DEF Processes, Labels
    <3>2. Stands'
      BY <1>1, <1>2, <3>1
         DEF Stands, Forward, Started, Backward, RunOnly, Working, Planning, Opening, Ending, Leaving, Gone
    <3>3. QED
      BY <2>4, <3>2 DEF RunnerInv
  <2>6. CASE Fail /\ leaky' = leaky \union {proc.run}
    <3>1. Stands'
      BY <1>1, <1>2, <2>6, FailStands
    <3>2. QED
      BY <2>4, <3>1 DEF RunnerInv
  <2>7. QED
    BY <1>3, <2>5, <2>6
<1>4. CASE Fail /\ UNCHANGED <<dock, leaky>>
  <2>1. Gone(proc.run) => Gone(proc.run)'
    BY <1>2, <1>4, FailOf DEF Gone
  <2>2. Stands'
    BY <1>1, <1>2, <1>4, <2>1, FailStands
  <2>3. QED
    BY <1>1, <1>4, <2>2, LeftStays DEF RunnerInv
<1>5. QED
  BY <1>3, <1>4 DEF CreateNetwork


\* A container of the operation is brought up, or taken down again.
LEMMA Adds ==
  ASSUME Left, NEW r \in Runs, NEW k \in Kinds, journal.run = r,
         dock' = [dock EXCEPT !.containers = @ \union {<<r, k>>}],
         k \in Names(journal.ha) \/ journal.phase = "assigned",
         k \in Proxies => NeedsHa(r) /\ Job(r).by = "ours",
         UNCHANGED <<journal, hub, leaky>>
  PROVE  Left'
<1>1. /\ dock' \in Docks /\ dock'.networks = dock.networks
      /\ dock'.containers = dock.containers \union {<<r, k>>} /\ dock'.authorized = dock.authorized
  BY DEF Left, Docks
<1>2. Bound' /\ InRunner' /\ Journalled'
  BY <1>1 DEF Left, Bound, InRunner, Journalled, Job, Unassigned
<1>3. TrustFollowsBinding'
  BY <1>1 DEF Left, TrustFollowsBinding, Job, NeedsHa, Allowed, Proxies
<1>4. NothingForgotten'
  BY <1>1 DEF Left, NothingForgotten, Names
<1>5. QED
  BY <1>1, <1>2, <1>3, <1>4 DEF Left

LEMMA TakesDown ==
  ASSUME Left, NEW r \in Runs, NEW k \in Kinds,
         dock' = [dock EXCEPT !.containers = @ \ {<<r, k>>}],
         k # "runner" \/ r \notin dock.authorized,
         UNCHANGED <<journal, hub, leaky>>
  PROVE  Left'
<1>1. /\ dock' \in Docks /\ dock'.networks = dock.networks
      /\ dock'.containers = dock.containers \ {<<r, k>>} /\ dock'.authorized = dock.authorized
  BY DEF Left, Docks
<1>2. Bound' /\ InRunner' /\ Journalled'
  BY <1>1 DEF Left, Bound, InRunner, Journalled, Job, Unassigned
<1>3. TrustFollowsBinding' /\ NothingForgotten'
  BY <1>1 DEF Left, TrustFollowsBinding, NothingForgotten, Names, Job, NeedsHa, Allowed
<1>4. QED
  BY <1>1, <1>2, <1>3 DEF Left

\* The labels at which a container or a record of runCandidate goes on to the next.
LEMMA NetIsUp ==
  ASSUME RunnerInv, proc.at \in (Planning \ {"jit", "network"}) \union Opening \union {"authorized"}
  PROVE  proc.net
  BY Candidate DEF RunnerInv, Stands, Started, Planning, Opening, RunOnly

LEMMA ProxyKeeps ==
  ASSUME RunnerInv,
         NEW k \in {"github", "ssh", "api"}, NEW l \in Labels, StartProxy(k, l),
         \/ k = "github" /\ l = "runner"
         \/ k = "ssh" /\ l = "api"
         \/ k = "api" /\ l = "enabled"
  PROVE  RunnerInv'
<1>1. /\ proc.at = k /\ UNCHANGED <<journal, hub, leaky>> /\ Left /\ Stands
  BY DEF RunnerInv, StartProxy
<1>2. /\ proc \in Processes /\ proc.run \in Runs /\ proc.way = "run" /\ ~proc.incomplete
      /\ journal.run = proc.run /\ proc.net
  BY <1>1, Candidate, NetIsUp DEF RunOnly, Planning, Opening
<1>3. /\ k \in Names(journal.ha) \/ journal.phase = "assigned"
      /\ k \in Proxies => NeedsHa(proc.run) /\ Job(proc.run).by = "ours"
      /\ k \in Kinds /\ k # "runner"
  BY <1>1 DEF Stands, Forward, Planning, Opening, Names, Kinds, Proxies
<1>4. CASE dock' = [dock EXCEPT !.containers = @ \union {Container(k)}] /\ Go(l)
  <2>1. Left'
    BY <1>1, <1>2, <1>3, <1>4, Adds DEF Container
  <2>2. /\ proc' \in Processes /\ proc'.at = l /\ proc'.run = proc.run /\ proc'.way = "run"
        /\ proc'.net /\ ~proc'.incomplete
    BY <1>2, <1>4, AtOf DEF Go
  <2>3. Stands'
    BY <1>1, <1>2, <2>2
       DEF Stands, Forward, Started, Backward, RunOnly, Working, Planning, Opening, Ending, Leaving, Job, NeedsHa,
           Allowed
  <2>4. QED
    BY <2>1, <2>3 DEF RunnerInv
<1>5. CASE dock' = [dock EXCEPT !.containers = @ \ {Container(k)}] /\ Fail
  <2>1. Left'
    BY <1>1, <1>2, <1>3, <1>5, TakesDown DEF Container
  <2>2. Stands'
    BY <1>1, <1>2, <1>5, FailStands
  <2>3. QED
    BY <2>1, <2>2 DEF RunnerInv
<1>6. QED
  BY <1>4, <1>5 DEF StartProxy

LEMMA ProxiesKeep ==
  ASSUME RunnerInv, StartGithubProxy \/ StartSshProxy \/ StartApiProxy PROVE RunnerInv'
  BY ProxyKeeps DEF StartGithubProxy, StartSshProxy, StartApiProxy, Labels

LEMMA RunnerKeeps == ASSUME RunnerInv, StartRunner PROVE RunnerInv'
<1>1. /\ proc.at = "runner" /\ UNCHANGED <<journal, hub, leaky>> /\ Left /\ Stands
  BY DEF RunnerInv, StartRunner
<1>2. /\ proc \in Processes /\ proc.run \in Runs /\ proc.way = "run" /\ ~proc.incomplete
      /\ journal.run = proc.run /\ proc.net
  BY <1>1, Candidate, NetIsUp DEF RunOnly, Planning, Opening
<1>3. Left'
  <2>1. CASE dock' = [dock EXCEPT !.containers = @ \union {Container("runner")}]
    BY <1>1, <1>2, <2>1, Adds DEF Container, Names, Kinds, Proxies
  <2>2. CASE UNCHANGED dock
    BY <1>1, <2>2, LeftStays
  <2>3. QED
    BY <2>1, <2>2 DEF StartRunner
<1>4. CASE Go("assignment")
  <2>1. /\ proc' \in Processes /\ proc'.at = "assignment" /\ proc'.run = proc.run /\ proc'.way = "run"
        /\ proc'.net /\ ~proc'.incomplete
    BY <1>2, <1>4, AtOf DEF Go, Labels
  <2>2. Stands'
    BY <1>1, <1>2, <2>1 DEF Stands, Forward, Started, Backward, RunOnly, Working, Planning, Opening, Ending, Leaving
  <2>3. QED
    BY <1>3, <2>2 DEF RunnerInv
<1>5. CASE Fail
  BY <1>1, <1>2, <1>3, <1>5, FailStands DEF RunnerInv
<1>6. QED
  BY <1>4, <1>5 DEF StartRunner


LEMMA AssignmentKeeps == ASSUME RunnerInv, WaitForAssignment PROVE RunnerInv'
<1>1. /\ proc.at = "assignment" /\ UNCHANGED <<journal, dock, hub, leaky>> /\ Left /\ Left' /\ Stands
  BY LeftStays DEF RunnerInv, WaitForAssignment
<1>2. /\ proc \in Processes /\ proc.run \in Runs /\ proc.way = "run" /\ ~proc.incomplete
      /\ journal.run = proc.run /\ proc.net
  BY <1>1, Candidate, NetIsUp DEF RunOnly, Planning, Opening
<1>3. CASE Job(proc.run).by = "ours" /\ Go("assigned")
  <2>1. /\ proc' \in Processes /\ proc'.at = "assigned" /\ proc'.run = proc.run /\ proc'.way = "run"
        /\ proc'.net /\ ~proc'.incomplete
    BY <1>2, <1>3, AtOf DEF Go, Labels
  <2>2. Stands'
    BY <1>1, <1>2, <1>3, <2>1
       DEF Stands, Forward, Started, Backward, RunOnly, Working, Planning, Opening, Ending, Leaving, Job
  <2>3. QED
    BY <1>1, <2>2 DEF RunnerInv
<1>4. CASE Fail
  BY <1>1, <1>2, <1>4, FailStands DEF RunnerInv
<1>5. QED
  BY <1>3, <1>4 DEF WaitForAssignment

LEMMA RevalidateKeeps == ASSUME RunnerInv, Revalidate PROVE RunnerInv'
<1>1. /\ proc.at = "revalidate" /\ UNCHANGED <<journal, dock, hub, leaky>> /\ Left /\ Left' /\ Stands
  BY LeftStays DEF RunnerInv, Revalidate
<1>2. /\ proc \in Processes /\ proc.run \in Runs /\ proc.way = "run" /\ ~proc.incomplete
      /\ journal.run = proc.run /\ proc.net
  BY <1>1, Candidate, NetIsUp DEF RunOnly, Planning, Opening
<1>3. CASE Go("ssh")
  <2>1. /\ proc' \in Processes /\ proc'.at = "ssh" /\ proc'.run = proc.run /\ proc'.way = "run"
        /\ proc'.net /\ ~proc'.incomplete
    BY <1>2, <1>3, AtOf DEF Go, Labels
  <2>2. Stands'
    BY <1>1, <1>2, <1>3, <2>1
       DEF Stands, Forward, Started, Backward, RunOnly, Working, Planning, Opening, Ending, Leaving, Job, NeedsHa,
           Allowed
  <2>3. QED
    BY <1>1, <2>2 DEF RunnerInv
<1>4. CASE Fail
  BY <1>1, <1>2, <1>4, FailStands DEF RunnerInv
<1>5. QED
  BY <1>3, <1>4 DEF Revalidate

\* A record of the journal's own run that names what there is of it.
LEMMA Records ==
  ASSUME Left, NEW r \in Runs, journal.run = r, NEW b \in BOOLEAN,
         NEW p \in {"assigned", "ha-enabled", "authorized", "completed", "cleanup"},
         journal' = Entry(r, p, b), UNCHANGED <<dock, hub, leaky>>,
         \/ p = "assigned" \/ r \in leaky
         \/ \A k \in Kinds : <<r, k>> \in dock.containers => k \in Names(b),
         p \in {"assigned", "ha-enabled"} => r \notin dock.authorized,
         p = "completed" => Job(r).status = "completed"
  PROVE  Left' /\ journal'.run = r /\ journal'.phase = p /\ journal'.ha = b
<1>1. journal' \in Journals /\ journal'.run = r /\ journal'.phase = p /\ journal'.ha = b
  BY EntryOf
<1>2. Bound' /\ InRunner' /\ TrustFollowsBinding'
  BY DEF Left, Bound, InRunner, TrustFollowsBinding, Job, Unassigned
<1>3. Journalled'
  BY <1>1 DEF Left, Journalled, Job
<1>4. NothingForgotten'
  BY <1>1 DEF Left, NothingForgotten
<1>5. QED
  BY <1>1, <1>2, <1>3, <1>4 DEF Left

\* Only an operation that needs Home Assistant has proxies, so these names are all.
LEMMA NamesAll ==
  ASSUME Left, NEW r \in Runs, NEW k \in Kinds, <<r, k>> \in dock.containers
  PROVE  k \in Names(NeedsHa(r))
  BY DEF Left, TrustFollowsBinding, Names, Kinds, Proxies

LEMMA NeedsHaIsBoolean == \A r \in Runs : NeedsHa(r) \in BOOLEAN
  BY DEF NeedsHa, Allowed

LEMMA AssignedKeeps == ASSUME RunnerInv, Assigned PROVE RunnerInv'
<1>1. /\ proc.at = "assigned" /\ UNCHANGED <<dock, hub, leaky>> /\ Left /\ Stands /\ Job(proc.run).by = "ours"
      /\ journal.phase = "planned"
  BY DEF RunnerInv, Assigned, Record, Stands, Forward, Planning
<1>2. /\ proc \in Processes /\ proc.run \in Runs /\ proc.way = "run" /\ ~proc.incomplete
      /\ journal.run = proc.run /\ proc.net
  BY <1>1, Candidate, NetIsUp DEF RunOnly, Planning, Opening
<1>3. proc.run \notin dock.authorized
  BY <1>1, <1>2 DEF Left, Journalled
<1>4. CASE /\ journal' = Entry(proc.run, "assigned", FALSE)
           /\ Go(IF NeedsHa(proc.run) THEN "revalidate" ELSE "authorized")
  <2>1. Left' /\ journal'.run = proc.run /\ journal'.phase = "assigned"
    BY <1>1, <1>2, <1>3, <1>4, Records
  <2>2. /\ proc' \in Processes /\ proc'.at = IF NeedsHa(proc.run) THEN "revalidate" ELSE "authorized"
        /\ proc'.run = proc.run /\ proc'.way = "run" /\ proc'.net /\ ~proc'.incomplete
    BY <1>2, <1>4, AtOf DEF Go, Labels
  <2>3. Job(proc.run)'.by = "ours" /\ (proc'.at = "revalidate" => NeedsHa(proc.run)')
    BY <1>1, <2>2 DEF Job, NeedsHa, Allowed
  <2>4. Stands'
    BY <1>1, <1>2, <2>1, <2>2, <2>3
       DEF Stands, Forward, Started, Backward, RunOnly, Working, Planning, Opening, Ending, Leaving, Job, NeedsHa,
           Allowed
  <2>5. QED
    BY <2>1, <2>4 DEF RunnerInv
<1>5. CASE UNCHANGED journal /\ Thrown
  BY <1>1, <1>2, <1>5, FailStands, LeftStays DEF RunnerInv, Thrown
<1>6. QED
  BY <1>4, <1>5 DEF Assigned, Record

LEMMA EnabledKeeps == ASSUME RunnerInv, Enabled PROVE RunnerInv'
<1>1. /\ proc.at = "enabled" /\ UNCHANGED <<dock, hub, leaky>> /\ Left /\ Stands /\ Job(proc.run).by = "ours"
      /\ journal.phase = "assigned"
  BY DEF RunnerInv, Enabled, Record, Stands, Forward, Opening
<1>2. /\ proc \in Processes /\ proc.run \in Runs /\ proc.way = "run" /\ ~proc.incomplete
      /\ journal.run = proc.run /\ proc.net
  BY <1>1, Candidate, NetIsUp DEF RunOnly, Planning, Opening
<1>3. proc.run \notin dock.authorized /\ \A k \in Kinds : k \in Names(TRUE)
  BY <1>1, <1>2 DEF Left, Journalled, Names
<1>4. CASE journal' = Entry(proc.run, "ha-enabled", TRUE) /\ Go("authorized")
  <2>1. Left' /\ journal'.run = proc.run /\ journal'.phase = "ha-enabled"
    BY <1>1, <1>2, <1>3, <1>4, Records
  <2>2. /\ proc' \in Processes /\ proc'.at = "authorized"
        /\ proc'.run = proc.run /\ proc'.way = "run" /\ proc'.net /\ ~proc'.incomplete
    BY <1>2, <1>4, AtOf DEF Go, Labels
  <2>3. Stands'
    BY <1>1, <1>2, <2>1, <2>2
       DEF Stands, Forward, Started, Backward, RunOnly, Working, Planning, Opening, Ending, Leaving, Job
  <2>4. QED
    BY <2>1, <2>3 DEF RunnerInv
<1>5. CASE UNCHANGED journal /\ Thrown
  BY <1>1, <1>2, <1>5, FailStands, LeftStays DEF RunnerInv, Thrown
<1>6. QED
  BY <1>4, <1>5 DEF Enabled, Record

LEMMA AuthorizedKeeps == ASSUME RunnerInv, Authorized PROVE RunnerInv'
<1>1. /\ proc.at = "authorized" /\ UNCHANGED <<dock, hub, leaky>> /\ Left /\ Stands /\ Job(proc.run).by = "ours"
  BY DEF RunnerInv, Authorized, Record, Stands, Forward
<1>2. /\ proc \in Processes /\ proc.run \in Runs /\ proc.way = "run" /\ ~proc.incomplete
      /\ journal.run = proc.run /\ proc.net
  BY <1>1, Candidate, NetIsUp DEF RunOnly, Planning, Opening
<1>3. CASE journal' = Entry(proc.run, "authorized", NeedsHa(proc.run)) /\ Go("authorize")
  <2>1. \A k \in Kinds : <<proc.run, k>> \in dock.containers => k \in Names(NeedsHa(proc.run))
    BY <1>1, <1>2, NamesAll
  <2>2. Left' /\ journal'.run = proc.run /\ journal'.phase = "authorized"
    BY <1>1, <1>2, <1>3, <2>1, NeedsHaIsBoolean, Records
  <2>3. /\ proc' \in Processes /\ proc'.at = "authorize"
        /\ proc'.run = proc.run /\ proc'.way = "run" /\ proc'.net /\ ~proc'.incomplete
    BY <1>2, <1>3, AtOf DEF Go, Labels
  <2>4. Stands'
    BY <1>1, <1>2, <2>2, <2>3
       DEF Stands, Forward, Started, Backward, RunOnly, Working, Planning, Opening, Ending, Leaving, Job
  <2>5. QED
    BY <2>2, <2>4 DEF RunnerInv
<1>4. CASE UNCHANGED journal /\ Thrown
  BY <1>1, <1>2, <1>4, FailStands, LeftStays DEF RunnerInv, Thrown
<1>5. QED
  BY <1>3, <1>4 DEF Authorized, Record


-----------------------------------------------------------------------------
(* The authorization and the end of the job, in runCandidate and recovery. *)
LEMMA Ends ==
  ASSUME RunnerInv, proc.at \in Ending
  PROVE  /\ proc \in Processes /\ proc.run \in Runs /\ ~proc.incomplete
         /\ journal.run = proc.run /\ journal.phase = "authorized" /\ journal.run # NoRun
         /\ proc.way = "run" => proc.net
  BY RunnerConstants DEF RunnerInv, Stands, Forward, Started, Backward, Working, Planning, Opening, Ending

LEMMA ThrownStands ==
  ASSUME RunnerInv, proc.at \in Ending, Thrown, UNCHANGED journal
  PROVE  Stands'
<1>1. CASE proc.way = "run"
  <2>1. Fail /\ proc.run \in Runs /\ ~proc.incomplete /\ proc.net /\ journal'.run = proc.run
    BY <1>1, Ends DEF Thrown
  <2>2. QED
    BY <1>1, <2>1, FailStands DEF RunnerInv
<1>2. CASE proc.way # "run"
  BY <1>2, ExitStands DEF Thrown, Exit
<1>3. QED
  BY <1>1, <1>2

LEMMA AuthorizeKeeps == ASSUME RunnerInv, AuthorizeRunner PROVE RunnerInv'
<1>1. /\ proc.at = "authorize" /\ UNCHANGED <<journal, hub, leaky>> /\ Left /\ Stands /\ Job(proc.run).by = "ours"
  BY DEF RunnerInv, AuthorizeRunner, Stands, Forward
<1>2. /\ proc \in Processes /\ proc.run \in Runs /\ ~proc.incomplete
      /\ journal.run = proc.run /\ journal.phase = "authorized" /\ (proc.way = "run" => proc.net)
  BY <1>1, Ends DEF Ending
<1>3. Left'
  <2>1. CASE /\ Container("runner") \in dock.containers
             /\ dock' = [dock EXCEPT !.authorized = @ \union {proc.run}]
    <3>1. /\ dock' \in Docks /\ dock'.networks = dock.networks /\ dock'.containers = dock.containers
          /\ dock'.authorized = dock.authorized \union {proc.run}
      BY <1>1, <1>2, <2>1 DEF Left, Docks
    <3>2. Bound' /\ InRunner' /\ Journalled'
      BY <1>1, <1>2, <2>1, <3>1 DEF Left, Bound, InRunner, Journalled, Container, Job, Unassigned
    <3>3. TrustFollowsBinding' /\ NothingForgotten'
      BY <1>1, <1>2, <3>1 DEF Left, TrustFollowsBinding, NothingForgotten, Job, NeedsHa, Allowed, Names
    <3>4. QED
      BY <1>1, <3>1, <3>2, <3>3 DEF Left
  <2>2. CASE UNCHANGED dock
    BY <1>1, <2>2, LeftStays
  <2>3. QED
    BY <2>1, <2>2 DEF AuthorizeRunner
<1>4. CASE Go("wait")
  <2>1. /\ proc' \in Processes /\ proc'.at = "wait" /\ proc'.run = proc.run /\ proc'.way = proc.way
        /\ proc'.net = proc.net /\ ~proc'.incomplete
    BY <1>2, <1>4, AtOf DEF Go, Labels
  <2>2. Stands'
    BY <1>1, <1>2, <2>1 DEF Stands, Forward, Started, Backward, RunOnly, Working, Planning, Opening, Ending, Leaving
  <2>3. QED
    BY <1>3, <2>2 DEF RunnerInv
<1>5. CASE Thrown
  BY <1>1, <1>3, <1>5, ThrownStands DEF RunnerInv, Ending
<1>6. QED
  BY <1>4, <1>5 DEF AuthorizeRunner

LEMMA ConcludeStands ==
  ASSUME RunnerInv, proc.at \in {"wait", "concluded"}, Job(proc.run).status = "completed", Conclude(proc.run),
         UNCHANGED <<journal, dock, hub, leaky>>
  PROVE  RunnerInv'
<1>1. Left' /\ Left /\ Stands
  BY LeftStays DEF RunnerInv
<1>2. /\ proc \in Processes /\ proc.run \in Runs /\ ~proc.incomplete
      /\ journal.run = proc.run /\ journal.phase = "authorized" /\ (proc.way = "run" => proc.net)
  BY Ends DEF Ending
<1>3. CASE Fail /\ proc.way = "run"
  BY <1>1, <1>2, <1>3, FailStands DEF RunnerInv
<1>4. CASE proc' = [proc EXCEPT !.at = "completed", !.failed = Job(proc.run).ok # Allowed(proc.run)]
  <2>1. (Job(proc.run).ok # Allowed(proc.run)) \in BOOLEAN
    OBVIOUS
  <2>2. /\ proc' \in Processes /\ proc'.at = "completed" /\ proc'.run = proc.run /\ proc'.way = proc.way
        /\ proc'.net = proc.net /\ ~proc'.incomplete
    BY <1>2, <1>4, <2>1 DEF Processes, Labels
  <2>3. Job(proc.run)'.status = "completed"
    BY <2>2 DEF Job
  <2>4. Stands'
    BY <1>1, <1>2, <2>2, <2>3
       DEF Stands, Forward, Started, Backward, RunOnly, Working, Planning, Opening, Ending, Leaving, Job
  <2>5. QED
    BY <1>1, <2>4 DEF RunnerInv
<1>5. QED
  BY <1>3, <1>4 DEF Conclude

LEMMA WaitKeeps == ASSUME RunnerInv, WaitForCompletion PROVE RunnerInv'
<1>1. proc.at = "wait" /\ UNCHANGED <<journal, dock, hub, leaky>> /\ Left'
  BY LeftStays DEF RunnerInv, WaitForCompletion
<1>2. CASE Job(proc.run).status = "completed" /\ Conclude(proc.run)
  BY <1>1, <1>2, ConcludeStands
<1>3. CASE Thrown
  BY <1>1, <1>3, ThrownStands DEF RunnerInv, Ending
<1>4. QED
  BY <1>2, <1>3 DEF WaitForCompletion

LEMMA ConcludedKeeps == ASSUME RunnerInv, Concluded PROVE RunnerInv'
<1>1. proc.at = "concluded" /\ Conclude(proc.run) /\ UNCHANGED <<journal, dock, hub, leaky>>
  BY DEF Concluded
<1>2. Job(proc.run).status = "completed"
  BY <1>1 DEF RunnerInv, Stands, Forward
<1>3. QED
  BY <1>1, <1>2, ConcludeStands

LEMMA CompletedKeeps == ASSUME RunnerInv, Completed PROVE RunnerInv'
<1>1. /\ proc.at = "completed" /\ UNCHANGED <<dock, hub, leaky>> /\ Left /\ Stands
      /\ Job(proc.run).status = "completed"
  BY DEF RunnerInv, Completed, Record, Stands, Forward
<1>2. /\ proc \in Processes /\ proc.run \in Runs /\ ~proc.incomplete /\ (proc.way = "run" => proc.net)
      /\ journal.run = proc.run /\ journal.phase = "authorized" /\ journal.ha \in BOOLEAN
  BY <1>1, Ends DEF Ending, Left, Journals
<1>3. CASE /\ journal' = Entry(proc.run, "completed", journal.ha)
           /\ Go(IF proc.way = "run" THEN "settle" ELSE "remove")
  <2>1. proc.run \in leaky \/ \A k \in Kinds : <<proc.run, k>> \in dock.containers => k \in Names(journal.ha)
    BY <1>1, <1>2 DEF Left, NothingForgotten
  <2>2. Left' /\ journal'.run = proc.run /\ journal'.phase = "completed"
    BY <1>1, <1>2, <1>3, <2>1, Records
  <2>3. /\ proc' \in Processes /\ proc'.at = IF proc.way = "run" THEN "settle" ELSE "remove"
        /\ proc'.run = proc.run /\ proc'.way = proc.way /\ proc'.net = proc.net /\ ~proc'.incomplete
    BY <1>2, <1>3, AtOf DEF Go, Labels
  <2>4. proc.way \in {"run", "resume"}
    BY <1>1 DEF Stands, Forward, Ending
  <2>5. Stands'
    BY <1>1, <1>2, <2>2, <2>3, <2>4
       DEF Stands, Forward, Started, Backward, RunOnly, Working, Planning, Opening, Ending, Leaving
  <2>6. QED
    BY <2>2, <2>5 DEF RunnerInv
<1>4. CASE UNCHANGED journal /\ Thrown
  BY <1>1, <1>4, LeftStays, ThrownStands DEF RunnerInv, Ending
<1>5. QED
  BY <1>3, <1>4 DEF Completed, Record


-----------------------------------------------------------------------------
(* The cleanup.                                                            *)
LEMMA Leaves ==
  ASSUME RunnerInv, proc.at \in Leaving
  PROVE  proc \in Processes /\ proc.run \in Runs
  BY DEF RunnerInv, Stands, Forward, Working

\* What is taken away leaves less to forget.
LEMMA Shrinks ==
  ASSUME Left, UNCHANGED journal, leaky \subseteq leaky', leaky' \subseteq Runs,
         hub' \in Hubs, hub'.job = hub.job, hub'.registered \subseteq hub.registered,
         dock' \in Docks, dock'.networks \subseteq dock.networks, dock'.containers \subseteq dock.containers,
         dock'.authorized \subseteq dock.authorized, InRunner'
  PROVE  Left'
<1>1. Bound' /\ Journalled'
  BY DEF Left, Bound, Journalled, Job, Unassigned
<1>2. TrustFollowsBinding'
  BY DEF Left, TrustFollowsBinding, Job, NeedsHa, Allowed
<1>3. NothingForgotten'
  BY DEF Left, NothingForgotten, Names
<1>4. QED
  BY <1>1, <1>2, <1>3 DEF Left

LEMMA LeakyGrows ==
  ASSUME Left, UNCHANGED <<journal, dock, hub>>, leaky \subseteq leaky', leaky' \subseteq Runs
  PROVE  Left'
<1>1. InRunner'
  BY DEF Left, InRunner
<1>2. QED
  BY <1>1, Shrinks DEF Left

LEMMA IncompleteGrows ==
  ASSUME NEW l, Incomplete(l), leaky \subseteq Runs, proc.run \in Runs
  PROVE  leaky \subseteq leaky' /\ leaky' \subseteq Runs
  BY DEF Incomplete

LEMMA IncompleteStands ==
  ASSUME RunnerInv, proc.at \in {"remove", "unregister", "clear"}, NEW l \in {"unregister", "finish"},
         Incomplete(l), UNCHANGED journal
  PROVE  Stands'
<1>1. proc \in Processes /\ proc.run \in Runs
  BY Leaves DEF Leaving
<1>2. CASE proc' = Down
  BY <1>2, ExitStands
<1>3. CASE /\ proc.way \notin {"pre", "terminal"}
           /\ proc' = [proc EXCEPT !.at = l, !.incomplete = TRUE]
           /\ leaky' = IF proc.way = "run" THEN leaky \union {proc.run} ELSE leaky
  <2>1. /\ proc' \in Processes /\ proc'.at = l /\ proc'.run = proc.run /\ proc'.way = proc.way
        /\ proc'.incomplete = TRUE
    BY <1>1, <1>3 DEF Processes, Labels
  <2>2. proc.way = "run" => Free' \/ journal.run = proc.run
    BY <1>3 DEF RunnerInv, Stands, Backward, Leaving, Free
  <2>3. proc.way = "run" => Free' \/ (journal.run = proc.run /\ proc.run \in leaky')
    BY <1>3, <2>2
  <2>4. proc.way = "run" => Free'
    BY <2>3 DEF Free
  <2>5. proc.way = "resume" => journal.run = proc.run /\ journal.phase = "completed"
    BY DEF RunnerInv, Stands, Backward, Leaving
  <2>6. QED
    BY <1>1, <1>3, <2>1, <2>4, <2>5
       DEF Stands, Forward, Started, Backward, RunOnly, Working, Planning, Opening, Ending, Leaving
<1>4. QED
  BY <1>2, <1>3 DEF Incomplete, Exit

LEMMA SettleKeeps == ASSUME RunnerInv, Settle PROVE RunnerInv'
<1>1. /\ proc.at = "settle" /\ UNCHANGED <<dock, hub, leaky>> /\ Left /\ Stands
      /\ Free \/ journal.run = proc.run
      /\ proc.way = "run" /\ ~proc.incomplete
      /\ proc.net \/ Gone(proc.run) \/ proc.run \in leaky
  BY DEF RunnerInv, Settle, Stands, Forward, Started, Backward, RunOnly, Leaving
<1>2. proc \in Processes /\ proc.run \in Runs
  BY <1>1, Leaves DEF Leaving
<1>3. CASE proc.net
  <2>1. proc' = [proc EXCEPT !.at = "remove", !.todo = Names(NeedsHa(proc.run))]
    BY <1>3 DEF Settle
  <2>2. Names(NeedsHa(proc.run)) \in SUBSET Kinds
    BY DEF Names
  <2>3. /\ proc' \in Processes /\ proc'.at = "remove" /\ proc'.run = proc.run /\ proc'.way = "run"
        /\ ~proc'.incomplete
    BY <1>1, <1>2, <2>1, <2>2 DEF Processes, Labels
  <2>4. CASE journal' = Entry(proc.run, "cleanup", NeedsHa(proc.run))
    <3>1. /\ journal' \in Journals /\ journal'.run = proc.run /\ journal'.phase = "cleanup"
          /\ journal'.ha = NeedsHa(proc.run)
      BY <1>2, <2>4, EntryOf, NeedsHaIsBoolean
    <3>2. \A k \in Kinds : <<proc.run, k>> \in dock.containers => k \in Names(NeedsHa(proc.run))
      BY <1>1, <1>2, NamesAll
    <3>3. \A r \in Runs \ leaky : r # proc.run => journal.run # r
      BY <1>1, RunnerConstants DEF Free, NoJournal
    <3>4. NothingForgotten'
      BY <1>1, <3>1, <3>2, <3>3 DEF Left, NothingForgotten
    <3>5. Bound' /\ InRunner' /\ Journalled' /\ TrustFollowsBinding'
      BY <1>1, <1>2, <3>1 DEF Left, Bound, InRunner, Journalled, TrustFollowsBinding, Job, Unassigned
    <3>6. Left'
      BY <1>1, <3>1, <3>4, <3>5 DEF Left
    <3>7. Stands'
      BY <1>2, <2>3, <3>1
         DEF Stands, Forward, Started, Backward, RunOnly, Working, Planning, Opening, Ending, Leaving
    <3>8. QED
      BY <3>6, <3>7 DEF RunnerInv
  <2>5. CASE UNCHANGED journal
    <3>1. Left' /\ (Free' \/ journal'.run = proc.run)
      BY <1>1, <2>5, LeftStays DEF Free
    <3>2. Stands'
      BY <1>2, <2>3, <3>1
         DEF Stands, Forward, Started, Backward, RunOnly, Working, Planning, Opening, Ending, Leaving
    <3>3. QED
      BY <3>1, <3>2 DEF RunnerInv
  <2>6. QED
    BY <1>3, <2>4, <2>5 DEF Settle
<1>4. CASE ~proc.net
  <2>1. proc' = [proc EXCEPT !.at = "unregister"] /\ UNCHANGED journal
    BY <1>4 DEF Settle
  <2>2. /\ proc' \in Processes /\ proc'.at = "unregister" /\ proc'.run = proc.run /\ proc'.way = "run"
        /\ ~proc'.incomplete
    BY <1>1, <1>2, <2>1, AtOf DEF Labels
  <2>3. Left' /\ (Free' \/ journal'.run = proc.run)
    BY <1>1, <2>1, LeftStays DEF Free
  <2>4. Stands'
    BY <1>1, <1>2, <1>4, <2>2, <2>3
       DEF Stands, Forward, Started, Backward, RunOnly, Working, Planning, Opening, Ending, Leaving, Gone
  <2>5. QED
    BY <2>3, <2>4 DEF RunnerInv
<1>5. QED
  BY <1>3, <1>4


LEMMA RemoveKeeps == ASSUME RunnerInv, Remove PROVE RunnerInv'
<1>1. /\ proc.at = "remove" /\ UNCHANGED <<journal, hub>> /\ Left /\ Stands
  BY DEF RunnerInv, Remove
<1>2. proc \in Processes /\ proc.run \in Runs /\ ~proc.incomplete
  BY <1>1, Leaves DEF Leaving, Stands, Backward
<1>3. PICK k \in proc.todo :
        \/ /\ dock' = Removed(k)
           /\ proc' = [proc EXCEPT !.todo = @ \ {k}]
           /\ UNCHANGED leaky
        \/ Incomplete("unregister") /\ UNCHANGED dock
        \/ /\ proc' = [proc EXCEPT !.todo = @ \ {k}]
           /\ leaky' = leaky \union {proc.run} /\ UNCHANGED dock
  BY DEF Remove
<1>4. CASE Incomplete("unregister") /\ UNCHANGED dock
  <2>1. leaky \subseteq leaky' /\ leaky' \subseteq Runs
    BY <1>1, <1>2, <1>4, IncompleteGrows DEF Left
  <2>2. Left' /\ Stands'
    BY <1>1, <1>4, <2>1, LeakyGrows, IncompleteStands
  <2>3. QED
    BY <2>2 DEF RunnerInv
<1>5. CASE proc' = [proc EXCEPT !.todo = @ \ {k}] /\ leaky \subseteq leaky'
  <2>1. /\ proc' \in Processes /\ proc'.at = "remove" /\ proc'.run = proc.run /\ proc'.way = proc.way
        /\ ~proc'.incomplete
    BY <1>1, <1>2, <1>5 DEF Processes
  <2>2. Free => Free'
    BY <1>1, <1>5 DEF Free
  <2>3. Stands'
    BY <1>1, <1>2, <2>1, <2>2
       DEF Stands, Forward, Started, Backward, RunOnly, Working, Planning, Opening, Ending, Leaving
  <2>4. CASE dock' = Removed(k) /\ UNCHANGED leaky
    <3>1. /\ dock' \in Docks /\ dock'.networks = dock.networks
          /\ dock'.containers = dock.containers \ {<<proc.run, k>>}
          /\ dock'.authorized = IF k = "runner" THEN dock.authorized \ {proc.run} ELSE dock.authorized
      BY <1>1, <2>4 DEF Left, Docks, Removed, Container
    <3>2. InRunner'
      BY <1>1, <3>1 DEF Left, InRunner
    <3>3. Left'
      BY <1>1, <2>4, <3>1, <3>2, Shrinks DEF Left
    <3>4. QED
      BY <2>3, <3>3 DEF RunnerInv
  <2>5. CASE UNCHANGED dock /\ leaky' = leaky \union {proc.run}
    <3>1. leaky' \subseteq Runs
      BY <1>1, <1>2, <2>5 DEF Left
    <3>2. QED
      BY <1>1, <1>5, <2>3, <2>5, <3>1, LeakyGrows DEF RunnerInv
  <2>6. CASE Incomplete("unregister") /\ UNCHANGED dock
    BY <1>4, <2>6
  <2>7. QED
    BY <1>3, <2>4, <2>5, <2>6
<1>6. QED
  BY <1>3, <1>4, <1>5

LEMMA NetworkRemoveKeeps == ASSUME RunnerInv, RemoveNetwork PROVE RunnerInv'
<1>1. /\ proc.at = "remove" /\ UNCHANGED <<journal, hub>> /\ Left /\ Stands
  BY DEF RunnerInv, RemoveNetwork
<1>2. proc \in Processes /\ proc.run \in Runs /\ ~proc.incomplete
  BY <1>1, Leaves DEF Leaving, Stands, Backward
<1>3. CASE Incomplete("unregister") /\ UNCHANGED dock
  <2>1. leaky \subseteq leaky' /\ leaky' \subseteq Runs
    BY <1>1, <1>2, <1>3, IncompleteGrows DEF Left
  <2>2. Left' /\ Stands'
    BY <1>1, <1>3, <2>1, LeakyGrows, IncompleteStands
  <2>3. QED
    BY <2>2 DEF RunnerInv
<1>4. ASSUME Go("unregister"), leaky \subseteq leaky', Gone(proc.run)' \/ proc.run \in leaky'
      PROVE  Stands'
  <2>1. /\ proc' \in Processes /\ proc'.at = "unregister" /\ proc'.run = proc.run /\ proc'.way = proc.way
        /\ ~proc'.incomplete
    BY <1>2, <1>4, AtOf DEF Go, Labels
  <2>2. Free => Free'
    BY <1>1, <1>4 DEF Free
  <2>3. Gone(proc.run)' \/ proc'.run \in leaky'
    BY <1>4, <2>1
  <2>4. Stands'
    BY <1>1, <1>2, <2>1, <2>2, <2>3
       DEF Stands, Forward, Started, Backward, RunOnly, Working, Planning, Opening, Ending, Leaving
  <2>5. QED
    BY <2>4
<1>5. CASE /\ \A k \in Kinds : Container(k) \notin dock.containers
           /\ dock' = [dock EXCEPT !.networks = @ \ {proc.run}]
           /\ Go("unregister") /\ UNCHANGED leaky
  <2>1. /\ dock' \in Docks /\ dock'.networks = dock.networks \ {proc.run}
        /\ dock'.containers = dock.containers /\ dock'.authorized = dock.authorized
    BY <1>1, <1>5 DEF Left, Docks
  <2>2. InRunner'
    BY <1>1, <2>1 DEF Left, InRunner
  <2>3. Left'
    BY <1>1, <1>5, <2>1, <2>2, Shrinks DEF Left
  <2>4. proc.run \notin dock.authorized
    BY <1>1, <1>5 DEF Left, InRunner, Container, Kinds
  <2>5. proc'.run = proc.run
    BY <1>2, <1>5, AtOf DEF Go, Labels
  <2>6. Gone(proc.run)'
    BY <1>5, <2>1, <2>4, <2>5 DEF Gone, Container
  <2>7. QED
    BY <1>4, <1>5, <2>3, <2>6 DEF RunnerInv
<1>6. CASE Go("unregister") /\ leaky' = leaky \union {proc.run} /\ UNCHANGED dock
  <2>1. leaky \subseteq leaky' /\ leaky' \subseteq Runs
    BY <1>1, <1>2, <1>6 DEF Left
  <2>2. proc'.run = proc.run
    BY <1>2, <1>6, AtOf DEF Go, Labels
  <2>3. QED
    BY <1>1, <1>4, <1>6, <2>1, <2>2, LeakyGrows DEF RunnerInv
<1>7. QED
  BY <1>3, <1>5, <1>6 DEF RemoveNetwork

LEMMA UnregisterKeeps == ASSUME RunnerInv, Unregister PROVE RunnerInv'
<1>1. /\ proc.at = "unregister" /\ UNCHANGED <<journal, dock>> /\ Left /\ Stands /\ InRunner'
  BY DEF RunnerInv, Unregister, Left, InRunner
<1>2. proc \in Processes /\ proc.run \in Runs
  BY <1>1, Leaves DEF Leaving
<1>3. /\ hub' \in Hubs /\ hub'.job = hub.job /\ hub'.registered \subseteq hub.registered
      /\ hub' # hub => hub'.registered = hub.registered \ {proc.run}
  BY <1>1 DEF Left, Hubs, Unregister
<1>4. CASE Incomplete("finish")
  <2>1. leaky \subseteq leaky' /\ leaky' \subseteq Runs
    BY <1>1, <1>2, <1>4, IncompleteGrows DEF Left
  <2>2. Left'
    BY <1>1, <1>3, <2>1, Shrinks DEF Left
  <2>3. Stands'
    BY <1>1, <1>4, IncompleteStands
  <2>4. QED
    BY <2>2, <2>3 DEF RunnerInv
<1>5. CASE Cleared /\ UNCHANGED leaky /\ hub' = [hub EXCEPT !.registered = @ \ {proc.run}]
  <2>1. /\ proc' \in Processes /\ proc'.at = IF proc.incomplete THEN "finish" ELSE "clear"
        /\ proc'.run = proc.run /\ proc'.way = proc.way /\ proc'.incomplete = proc.incomplete
    BY <1>2, <1>5, AtOf DEF Cleared, Go, Labels
  <2>2. Left'
    BY <1>1, <1>3, <1>5, Shrinks DEF Left
  <2>3. proc.run \notin hub'.registered
    BY <1>1, <1>5 DEF Left, Hubs
  <2>4. /\ Free => Free'
        /\ proc.incomplete /\ proc.way = "run" => Free'
    BY <1>1, <1>5 DEF Free, Stands, Backward, Leaving
  <2>5. CASE proc.incomplete
    <3>1. Stands'
      BY <1>1, <1>2, <1>5, <2>1, <2>4, <2>5
         DEF Stands, Forward, Started, Backward, RunOnly, Working, Planning, Opening, Ending, Leaving
    <3>2. QED
      BY <2>2, <3>1 DEF RunnerInv
  <2>6. CASE ~proc.incomplete
    <3>1. (Gone(proc.run)' /\ proc.run \notin hub'.registered) \/ proc.run \in leaky'
      BY <1>1, <1>5, <2>1, <2>3, <2>6 DEF Stands, Backward, Gone
    <3>2. Stands'
      BY <1>1, <1>2, <1>5, <2>1, <2>4, <2>6, <3>1
         DEF Stands, Forward, Started, Backward, RunOnly, Working, Planning, Opening, Ending, Leaving
    <3>3. QED
      BY <2>2, <3>2 DEF RunnerInv
  <2>7. QED
    BY <2>5, <2>6
<1>6. QED
  BY <1>4, <1>5 DEF Unregister

LEMMA ClearKeeps == ASSUME RunnerInv, Clear PROVE RunnerInv'
<1>1. /\ proc.at = "clear" /\ UNCHANGED <<dock, hub>> /\ Left /\ Stands
  BY DEF RunnerInv, Clear
<1>2. proc \in Processes /\ proc.run \in Runs /\ ~proc.incomplete
  BY <1>1, Leaves DEF Leaving, Stands, Backward
<1>3. CASE Incomplete("finish") /\ UNCHANGED journal
  <2>1. leaky \subseteq leaky' /\ leaky' \subseteq Runs
    BY <1>1, <1>2, <1>3, IncompleteGrows DEF Left
  <2>2. Left' /\ Stands'
    BY <1>1, <1>3, <2>1, LeakyGrows, IncompleteStands
  <2>3. QED
    BY <2>2 DEF RunnerInv
<1>4. CASE journal' = NoJournal /\ Go("finish") /\ UNCHANGED leaky
  <2>1. /\ journal' \in Journals /\ journal'.phase = "none" /\ journal'.run = NoRun
    BY <1>4 DEF NoJournal, Journals
  <2>2. (Gone(proc.run) /\ proc.run \notin hub.registered) \/ proc.run \in leaky
    BY <1>1 DEF Stands, Backward
  <2>3. \A r \in Runs \ leaky : r # proc.run => journal.run # r
    BY <1>1, RunnerConstants DEF Stands, Backward, Leaving, Free, NoJournal, Processes
  <2>4. \A r \in Runs \ leaky : Gone(r) /\ r \notin hub.registered
    BY <1>1, <2>2, <2>3 DEF Left, NothingForgotten, Gone
  <2>5. NothingForgotten'
    BY <1>1, <1>4, <2>4 DEF NothingForgotten, Gone
  <2>6. Left'
    BY <1>1, <1>4, <2>1, <2>5 DEF Left, Bound, InRunner, Journalled, TrustFollowsBinding, Job, Unassigned
  <2>7. /\ proc' \in Processes /\ proc'.at = "finish" /\ proc'.run = proc.run /\ proc'.way = proc.way
        /\ ~proc'.incomplete
    BY <1>2, <1>4, AtOf DEF Go, Labels
  <2>8. Stands'
    BY <1>2, <1>4, <2>7
       DEF Stands, Forward, Started, Backward, RunOnly, Working, Planning, Opening, Ending, Leaving, Free
  <2>9. QED
    BY <2>6, <2>8 DEF RunnerInv
<1>5. QED
  BY <1>3, <1>4 DEF Clear

LEMMA FinishKeeps == ASSUME RunnerInv, Finish PROVE RunnerInv'
<1>1. /\ proc.at = "finish" /\ UNCHANGED <<journal, dock, hub, leaky>> /\ Left' /\ Stands
  BY LeftStays DEF RunnerInv, Finish
<1>2. CASE proc' = Down
  BY <1>1, <1>2, ExitStands DEF RunnerInv
<1>3. CASE proc' = Idle /\ ~(proc.way = "resume" /\ proc.incomplete)
  <2>1. Free'
    BY <1>1, <1>3 DEF Stands, Backward, Leaving, Processes, Free
  <2>2. QED
    BY <1>1, <1>3, <2>1, IdleStands DEF RunnerInv
<1>4. QED
  BY <1>2, <1>3 DEF Finish, Exit


-----------------------------------------------------------------------------
(* GitHub and the job.                                                     *)
LEMMA HubMoves ==
  ASSUME RunnerInv, UNCHANGED <<proc, journal, dock, leaky>>, hub' \in Hubs,
         hub'.registered \subseteq hub.registered,
         \A r \in Runs : /\ Job(r).by = "ours" => Job(r)'.by = "ours"
                         /\ Job(r).status = "completed" => Job(r)'.status = "completed"
                         /\ Job(r)'.status \in {"absent", "queued"} => Job(r)'.by = "none"
  PROVE  RunnerInv'
<1>1. Left /\ Stands
  BY DEF RunnerInv
<1>2. Bound'
  BY DEF Bound, Unassigned, Job
<1>3. InRunner'
  BY <1>1 DEF Left, InRunner
<1>4. Journalled'
  <2>1. journal.phase = "completed" => journal.run \in Runs
    BY <1>1 DEF Left, Journalled, NoJournal
  <2>2. QED
    BY <1>1, <2>1 DEF Left, Journalled, Job
<1>5. TrustFollowsBinding'
  BY <1>1 DEF Left, TrustFollowsBinding, NeedsHa, Allowed, Docks, Job
<1>6. NothingForgotten'
  BY <1>1 DEF Left, NothingForgotten, Names
<1>7. Left'
  BY <1>1, <1>2, <1>3, <1>4, <1>5, <1>6 DEF Left
<1>8. Forward'
  <2>1. proc.at \in Working => proc.run \in Runs
    BY <1>1 DEF Stands, Forward
  <2>2. QED
    BY <1>1, <2>1
       DEF Stands, Forward, Free, RunOnly, Working, Planning, Opening, Ending, Leaving, Job, NeedsHa, Allowed
<1>9. Started' /\ Backward'
  BY <1>1 DEF Stands, Started, Backward, Free, Gone
<1>10. QED
  BY <1>1, <1>7, <1>8, <1>9 DEF RunnerInv, Stands

LEMMA SetJobOf ==
  ASSUME hub \in Hubs, NEW r \in Runs, NEW status \in {"queued", "running", "completed"},
         NEW by \in {"none", "ours", "foreign"}, NEW ok \in BOOLEAN, SetJob(r, status, by, ok)
  PROVE  /\ hub' \in Hubs /\ hub'.registered = hub.registered
         /\ hub'.job[r].status = status /\ hub'.job[r].by = by
         /\ \A q \in Runs : q # r => hub'.job[q] = hub.job[q]
<1>1. hub'.job = [hub.job EXCEPT ![r] = [status |-> status, by |-> by, ok |-> ok]]
  BY DEF SetJob, Hubs
<1>2. [status |-> status, by |-> by, ok |-> ok] \in Jobs
  BY DEF Jobs
<1>3. hub'.job \in [Runs -> Jobs]
  BY <1>1, <1>2 DEF Hubs
<1>4. hub' \in Hubs /\ hub'.registered = hub.registered
  BY <1>3 DEF SetJob, Hubs
<1>5. QED
  BY <1>1, <1>4 DEF Hubs

LEMMA EndOf ==
  ASSUME hub \in Hubs, NEW r \in Runs, JobEnds(r)
  PROVE  /\ hub' \in Hubs /\ hub'.registered \subseteq hub.registered
         /\ hub'.job[r].status = "completed" /\ hub'.job[r].by = hub.job[r].by
         /\ \A q \in Runs : q # r => hub'.job[q] = hub.job[q]
<1>1. PICK ok \in BOOLEAN :
        hub' = [hub EXCEPT !.job[r] = [@ EXCEPT !.status = "completed", !.ok = ok],
                           !.registered = IF Job(r).by = "ours" THEN @ \ {r} ELSE @]
  BY DEF JobEnds
<1>2. hub.job[r] \in Jobs /\ hub.job \in [Runs -> Jobs]
  BY DEF Hubs
<1>3. [hub.job[r] EXCEPT !.status = "completed", !.ok = ok] \in Jobs
  BY <1>2 DEF Jobs
<1>4. hub'.job = [hub.job EXCEPT ![r] = [hub.job[r] EXCEPT !.status = "completed", !.ok = ok]]
  BY <1>1 DEF Hubs
<1>5. hub'.job \in [Runs -> Jobs]
  BY <1>2, <1>3, <1>4
<1>6. hub'.registered = IF Job(r).by = "ours" THEN hub.registered \ {r} ELSE hub.registered
  BY <1>1 DEF Hubs
<1>7. hub' \in Hubs /\ hub'.registered \subseteq hub.registered
  BY <1>1, <1>5, <1>6 DEF Hubs
<1>8. hub'.job[r] = [hub.job[r] EXCEPT !.status = "completed", !.ok = ok]
  BY <1>2, <1>4
<1>9. QED
  BY <1>2, <1>4, <1>7, <1>8 DEF Jobs

LEMMA OutsideKeeps == ASSUME RunnerInv, Outside PROVE RunnerInv'
<1>1. UNCHANGED <<proc, journal, dock, leaky>> /\ hub \in Hubs /\ Bound
  BY DEF RunnerInv, Outside, Left
<1>2. PICK r \in Runs : Queue(r) \/ Assign(r) \/ Foreign(r) \/ Cancel(r) \/ JobEnds(r) \/ Rerun(r)
  BY DEF Outside
<1>3. \A q \in Runs : Job(q).status \in {"absent", "queued"} => Job(q).by = "none"
  BY <1>1 DEF Bound, Unassigned
<1>4. CASE Queue(r)
  <2>1. SetJob(r, "queued", "none", FALSE) /\ Job(r).status = "absent"
    BY <1>4 DEF Queue
  <2>2. QED
    BY <1>1, <1>3, <2>1, SetJobOf, HubMoves DEF Job
<1>5. CASE Assign(r)
  <2>1. SetJob(r, "running", "ours", FALSE) /\ Job(r).status = "queued"
    BY <1>5 DEF Assign
  <2>2. QED
    BY <1>1, <1>3, <2>1, SetJobOf, HubMoves DEF Job
<1>6. CASE Foreign(r)
  <2>1. SetJob(r, "running", "foreign", FALSE) /\ Job(r).status = "queued"
    BY <1>6 DEF Foreign
  <2>2. QED
    BY <1>1, <1>3, <2>1, SetJobOf, HubMoves DEF Job
<1>7. CASE Cancel(r)
  <2>1. SetJob(r, "completed", "none", FALSE) /\ Job(r).status = "queued"
    BY <1>7 DEF Cancel
  <2>2. QED
    BY <1>1, <1>3, <2>1, SetJobOf, HubMoves DEF Job
<1>8. CASE JobEnds(r)
  <2>1. /\ hub' \in Hubs /\ hub'.registered \subseteq hub.registered
        /\ hub'.job[r].status = "completed" /\ hub'.job[r].by = hub.job[r].by
        /\ \A q \in Runs : q # r => hub'.job[q] = hub.job[q]
    BY <1>1, <1>8, EndOf
  <2>2. QED
    BY <1>1, <1>3, <2>1, HubMoves DEF Job
<1>9. CASE Rerun(r)
  <2>1. hub' \in Hubs /\ hub'.job = hub.job /\ hub'.registered = hub.registered
    BY <1>1, <1>9 DEF Rerun, Hubs
  <2>2. QED
    BY <1>1, <1>3, <2>1, HubMoves DEF Job
<1>10. QED
  BY <1>2, <1>4, <1>5, <1>6, <1>7, <1>8, <1>9

-----------------------------------------------------------------------------
LEMMA ControllerKeeps == ASSUME RunnerInv, Controller PROVE RunnerInv'
<1>1. CASE Lock \/ WritePid \/ Reconcile \/ FindCandidate \/ Validate
  BY <1>1, LockKeeps, ReconcileKeeps, FindKeeps, ValidateKeeps
<1>2. CASE Plan \/ GenerateJit \/ CreateNetwork \/ StartGithubProxy \/ StartRunner
  BY <1>2, PlanKeeps, JitKeeps, NetworkKeeps, ProxiesKeep, RunnerKeeps
<1>3. CASE WaitForAssignment \/ Assigned \/ Revalidate \/ StartSshProxy \/ StartApiProxy \/ Enabled
  BY <1>3, AssignmentKeeps, AssignedKeeps, RevalidateKeeps, ProxiesKeep, EnabledKeeps
<1>4. CASE Authorized \/ AuthorizeRunner \/ WaitForCompletion \/ Concluded \/ Completed
  BY <1>4, AuthorizedKeeps, AuthorizeKeeps, WaitKeeps, ConcludedKeeps, CompletedKeeps
<1>5. CASE Settle \/ Remove \/ RemoveNetwork \/ Unregister \/ Clear \/ Finish
  BY <1>5, SettleKeeps, RemoveKeeps, NetworkRemoveKeeps, UnregisterKeeps, ClearKeeps, FinishKeeps
<1>6. QED
  BY <1>1, <1>2, <1>3, <1>4, <1>5 DEF Controller

LEMMA StutterKeeps == ASSUME RunnerInv, UNCHANGED vars PROVE RunnerInv'
<1>1. UNCHANGED <<proc, journal, dock, hub, leaky>>
  BY DEF vars
<1>2. Left'
  BY <1>1, LeftStays DEF RunnerInv
<1>3. Stands'
  BY <1>1 DEF RunnerInv, Stands, Forward, Started, Backward, Free, Gone, Job, NeedsHa, Allowed
<1>4. QED
  BY <1>2, <1>3 DEF RunnerInv

LEMMA InitRunner == ASSUME Init PROVE RunnerInv
<1>1. hub.job \in [Runs -> Jobs] /\ hub.registered = {} /\ hub.superseded = {}
  BY DEF Init, Jobs
<1>2. journal \in Journals /\ dock \in Docks /\ leaky \subseteq Runs
  BY DEF Init, NoJournal, Journals, Docks
<1>3. hub \in Hubs
  BY DEF Init, Hubs, Jobs
<1>4. Bound
  BY DEF Init, Bound, Unassigned, Job
<1>5. InRunner /\ Journalled /\ TrustFollowsBinding /\ NothingForgotten
  BY <1>1 DEF Init, InRunner, Journalled, TrustFollowsBinding, NothingForgotten, NoJournal
<1>6. Stands
  BY DownIsTyped DEF Init, Stands, Forward, Started, Backward, RunOnly, Working, Planning, Opening, Ending, Leaving
<1>7. QED
  BY <1>2, <1>3, <1>4, <1>5, <1>6 DEF RunnerInv, Left

(* The invariant behind the theorems below: what the journal, Docker and    *)
(* GitHub hold at any time, even after a crash, and what each label of      *)
(* ha-deploy-runner-controller.ts adds to it.                               *)
THEOREM RunnerInvariant == Spec => []RunnerInv
<1>1. Init => RunnerInv
  BY InitRunner
<1>2. RunnerInv /\ [Next]_vars => RunnerInv'
  BY ControllerKeeps, CrashKeeps, OutsideKeeps, StutterKeeps DEF Next
<1>3. QED
  BY <1>1, <1>2, PTL DEF Spec

(* waitForAssignment, revalidateBeforeHomeAssistantAccess and the binding   *)
(* asserted in recovery: only the job GitHub bound to the runner made for   *)
(* it is authorized, and only an admitted deployment reaches Home Assistant.*)
THEOREM OnlyTheBoundIsTrusted == Spec => []TrustFollowsBinding
<1>1. RunnerInv => TrustFollowsBinding
  BY DEF RunnerInv, Left
<1>2. QED
  BY <1>1, RunnerInvariant, PTL

(* writeActiveOperation before every call, clearActiveOperation after the   *)
(* last: unless a cleanup was incomplete, the journal names whatever there  *)
(* is in Docker or on GitHub, wherever the process dies.                    *)
THEOREM JournalNamesAll == Spec => []NothingForgotten
<1>1. RunnerInv => NothingForgotten
  BY DEF RunnerInv, Left
<1>2. QED
  BY <1>1, RunnerInvariant, PTL

\* An authorization goes with its runner's container.
LEMMA Spares ==
  ASSUME RunnerInv, [Next]_vars, NEW r \in dock.authorized \ dock'.authorized,
         Job(r).status = "running"
  PROVE  proc.way = "run" \/ journal.phase = "cleanup"
<1>1. Left /\ Stands /\ dock \in Docks
  BY DEF RunnerInv, Left
<1>2. CASE Remove
  <2>1. PICK k \in proc.todo : dock' = Removed(k) \/ UNCHANGED dock
    BY <1>2 DEF Remove
  <2>2. dock' = Removed(k) /\ r = proc.run
    BY <1>1, <2>1 DEF Docks, Removed
  <2>3. proc.at = "remove" /\ r \in Runs
    BY <1>1, <1>2, <2>2 DEF Remove, Docks
  <2>4. CASE proc.way = "pre"
    BY <1>1, <2>2, <2>3, <2>4 DEF Stands, Backward, Leaving, Left, Journalled
  <2>5. CASE proc.way \in {"terminal", "resume"}
    BY <1>1, <2>2, <2>3, <2>5 DEF Stands, Backward, Leaving, Left, Journalled
  <2>6. QED
    BY <1>1, <2>4, <2>5 DEF Stands, Processes
<1>3. CASE ~Remove
  <2>1. CASE StartGithubProxy \/ StartSshProxy \/ StartApiProxy \/ StartRunner \/ CreateNetwork \/ RemoveNetwork
    BY <1>1, <2>1 DEF StartGithubProxy, StartSshProxy, StartApiProxy, StartProxy, StartRunner, CreateNetwork,
                      RemoveNetwork, Docks
  <2>2. CASE AuthorizeRunner
    BY <1>1, <2>2 DEF AuthorizeRunner, Docks
  <2>3. CASE UNCHANGED dock
    BY <2>3
  <2>4. QED
    BY <1>3, <2>1, <2>2, <2>3
       DEF Next, Controller, Lock, WritePid, Reconcile, FindCandidate, Validate, Plan, Record, GenerateJit,
           WaitForAssignment, Assigned, Revalidate, Enabled, Authorized, WaitForCompletion, Concluded, Completed,
           Settle, Unregister, Clear, Finish, Crash, Outside, vars
<1>4. QED
  BY <1>2, <1>3

(* reconcileActiveOperation: recovery undoes without looking only what was  *)
(* never authorized, or what the journal says has completed or was given    *)
(* up; the runner of an authorized job at work is left alone.               *)
THEOREM RecoveryIsCareful == Spec => RecoverySparesJob
<1>1. RunnerInv /\ [Next]_vars =>
        [\A r \in dock.authorized \ dock'.authorized :
             Job(r).status = "running" => proc.way = "run" \/ journal.phase = "cleanup"]_vars
  BY Spares
<1>2. QED
  BY <1>1, RunnerInvariant, PTL DEF Spec, RecoverySparesJob

-----------------------------------------------------------------------------
(* Types.                                                                  *)
Counted == lock \in {"free", "empty", "held"} /\ faults \in 0..MaxFaults /\ crashes \in 0..MaxCrashes

Counts == (Fault \/ Fine) /\ UNCHANGED crashes /\ lock' \in {lock, "free", "empty", "held"}

LEMMA StartCounts == ASSUME Lock \/ WritePid \/ Reconcile \/ FindCandidate \/ Validate PROVE Counts
<1>1. CASE Lock \/ WritePid
  BY <1>1 DEF Counts, Lock, WritePid, Fine, bounds
<1>2. CASE Reconcile
  BY <1>2 DEF Counts, Reconcile, ReconcileNothing, ReconcilePlanned, ReconcileTerminal, ReconcileAuthorized,
              ReconcileDoubt, Resume, Exit
<1>3. CASE FindCandidate \/ Validate
  BY <1>3 DEF Counts, FindCandidate, Validate, Fine, bounds
<1>4. QED
  BY <1>1, <1>2, <1>3

LEMMA RunCounts ==
  ASSUME \/ Plan \/ GenerateJit \/ CreateNetwork \/ StartGithubProxy \/ StartRunner
         \/ WaitForAssignment \/ Assigned \/ Revalidate \/ StartSshProxy \/ StartApiProxy
         \/ Enabled \/ Authorized
  PROVE  Counts
<1>1. CASE Plan \/ Assigned \/ Enabled \/ Authorized
  BY <1>1 DEF Counts, Plan, Assigned, Enabled, Authorized, Record, Go, Thrown, Fail, Exit
<1>2. CASE GenerateJit
  BY <1>2 DEF Counts, GenerateJit, Go, Fail
<1>3. CASE CreateNetwork
  BY <1>3 DEF Counts, CreateNetwork, Fail
<1>4. CASE StartGithubProxy \/ StartSshProxy \/ StartApiProxy
  BY <1>4 DEF Counts, StartGithubProxy, StartSshProxy, StartApiProxy, StartProxy, Go, Fail
<1>5. CASE StartRunner \/ WaitForAssignment \/ Revalidate
  BY <1>5 DEF Counts, StartRunner, WaitForAssignment, Revalidate, Go, Fail, Fine, bounds
<1>6. QED
  BY <1>1, <1>2, <1>3, <1>4, <1>5

LEMMA EndCounts ==
  ASSUME \/ AuthorizeRunner \/ WaitForCompletion \/ Concluded \/ Completed
         \/ Settle \/ Remove \/ RemoveNetwork \/ Unregister \/ Clear \/ Finish
  PROVE  Counts
<1>1. CASE AuthorizeRunner \/ WaitForCompletion \/ Concluded \/ Completed
  BY <1>1 DEF Counts, AuthorizeRunner, WaitForCompletion, Concluded, Completed, Conclude, Record, Go, Thrown, Fail,
              Exit, Fine, bounds
<1>2. CASE Settle \/ Finish
  BY <1>2 DEF Counts, Settle, Finish, Exit, Fine, bounds
<1>3. CASE Remove
  BY <1>3 DEF Counts, Remove, Incomplete, Exit
<1>4. CASE RemoveNetwork
  BY <1>4 DEF Counts, RemoveNetwork, Incomplete, Exit, Go
<1>5. CASE Unregister \/ Clear
  BY <1>5 DEF Counts, Unregister, Clear, Cleared, Incomplete, Exit, Go
<1>6. QED
  BY <1>1, <1>2, <1>3, <1>4, <1>5

LEMMA CountedKeeps == ASSUME Counted, [Next]_vars PROVE Counted'
<1>1. CASE Counts
  BY <1>1, RunnerConstants DEF Counts, Counted, Fault, Fine
<1>2. CASE Crash
  BY <1>2, RunnerConstants DEF Crash, Counted
<1>3. CASE Outside \/ UNCHANGED vars
  BY <1>3 DEF Outside, vars, bounds, Counted
<1>4. QED
  BY <1>1, <1>2, <1>3, StartCounts, RunCounts, EndCounts DEF Next, Controller

(* Types of ha-deploy-runner-controller.ts: the controller is at one of its *)
(* labels, and the journal, Docker and GitHub keep their shapes.            *)
THEOREM RunnerTypes == Spec => []TypeOK
<1>1. Init => Counted
  BY RunnerConstants DEF Init, Counted
<1>2. Spec => []Counted
  BY <1>1, CountedKeeps, PTL DEF Spec
<1>3. RunnerInv /\ Counted => TypeOK
  BY DEF RunnerInv, Left, Stands, Counted, TypeOK
<1>4. QED
  BY <1>2, <1>3, RunnerInvariant, PTL
=============================================================================
