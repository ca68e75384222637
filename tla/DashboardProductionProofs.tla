---------------------- MODULE DashboardProductionProofs ----------------------
(***************************************************************************)
(* Proofs about DashboardProduction: for any workflows, commits, faults,   *)
(* deaths and expiries, only the holder of the lease changes production,   *)
(* what was captured can be put back, ends are truthful, and every turn is *)
(* atomic.  The invariant speaks of the place a program is at by what it   *)
(* has called since: Since(p, i, op, others) says that before its i-th     *)
(* call program p called op, and none of others after that.  What the      *)
(* programs themselves say of that is read off their texts, one program at *)
(* a time, in the lemmas on places; a step is then judged by three lemmas: *)
(* ActsEffects (what it may change on the host), ActsMoves (where it       *)
(* leaves control) and NextSplits (everybody else is left undisturbed).    *)
(***************************************************************************)
EXTENDS DashboardProduction, TLAPS

Names == {"ciStart", "ciKeep", "ciDeploy", "ciAbort", "ciRollback", "rmCapture", "rmRelease", "rmDeploy",
          "rmVerify", "rmRollback", "rmVerifyRollback", "rmAccept", "rmReject", "rmGiveUp"}
CiNames == {"ciStart", "ciKeep", "ciDeploy", "ciAbort", "ciRollback"}
CiEnds == {"kept", "deployed", "failed", "rolledBack", "rollbackFailed", "crashed"}

Since(p, i, op, others) ==
    \E j \in 1..(i - 1) : Programs[p][j] = op /\ \A k \in (j + 1)..(i - 1) : Programs[p][k] \notin others

-----------------------------------------------------------------------------
(* The programs, call by call.                                             *)
Reads(p, q) == Len(Programs[p]) = Len(q) /\ \A i \in 1..Len(q) : Programs[p][i] = q[i]

LEMMA CiStartReads == Reads("ciStart",
  <<"admit", "lockDir", "lockOwner", "assert", "assert", "dropRemote", "putBack", "dropIncoming",
  "capture", "plan">>)
  BY DEF Reads, Programs, Acquire, Reconcile, DeployAssets, Metadata, FinalizeRelease,
     DeployProduction, RollbackProduction, VerifyRollback

LEMMA CiKeepReads == Reads("ciKeep",
  <<"verifyKept", "http", "noLock", "assert", "dropRemote", "putBack", "dropIncoming", "present",
  "dropIncoming", "dropPrevious", "unmark", "assert", "unlinkOwner", "rmLock">>)
  BY DEF Reads, Programs, Acquire, Reconcile, DeployAssets, Metadata, FinalizeRelease,
     DeployProduction, RollbackProduction, VerifyRollback

LEMMA CiDeployReads == Reads("ciDeploy",
  <<"unchanged", "assert", "dropRemote", "putBack", "dropIncoming", "upload", "park", "promote",
  "mark", "assert", "assert", "card", "wrapper", "verify", "http", "noLock", "assert", "dropRemote",
  "putBack", "dropIncoming", "present", "dropIncoming", "dropPrevious", "unmark", "assert",
  "unlinkOwner", "rmLock">>)
  BY DEF Reads, Programs, Acquire, Reconcile, DeployAssets, Metadata, FinalizeRelease,
     DeployProduction, RollbackProduction, VerifyRollback

LEMMA CiAbortReads == Reads("ciAbort",
  <<"noLock", "assert", "dropRemote", "putBack", "dropIncoming", "present", "dropIncoming",
  "dropPrevious", "unmark", "assert", "unlinkOwner", "rmLock">>)
  BY DEF Reads, Programs, Acquire, Reconcile, DeployAssets, Metadata, FinalizeRelease,
     DeployProduction, RollbackProduction, VerifyRollback

LEMMA CiRollbackReads == Reads("ciRollback",
  <<"assert", "dropRemote", "putBack", "dropIncoming", "guard", "assert", "unmark", "assert",
  "dropRemote", "putBack", "dropIncoming", "upload", "park", "promote", "mark", "assert", "card",
  "wrapper", "restored", "assert", "dropRemote", "putBack", "dropIncoming", "restored", "noLock",
  "assert", "dropRemote", "putBack", "dropIncoming", "present", "dropIncoming", "dropPrevious",
  "unmark", "assert", "unlinkOwner", "rmLock">>)
  BY DEF Reads, Programs, Acquire, Reconcile, DeployAssets, Metadata, FinalizeRelease,
     DeployProduction, RollbackProduction, VerifyRollback

LEMMA RmCaptureReads == Reads("rmCapture", <<"lockDir", "lockOwner", "assert", "capture">>)
  BY DEF Reads, Programs, Acquire, Reconcile, DeployAssets, Metadata, FinalizeRelease,
     DeployProduction, RollbackProduction, VerifyRollback

LEMMA RmReleaseReads == Reads("rmRelease", <<"assert", "unlinkOwner", "rmLock">>)
  BY DEF Reads, Programs, Acquire, Reconcile, DeployAssets, Metadata, FinalizeRelease,
     DeployProduction, RollbackProduction, VerifyRollback

LEMMA RmDeployReads == Reads("rmDeploy",
  <<"assert", "attempt", "unchanged", "assert", "dropRemote", "putBack", "dropIncoming", "upload",
  "park", "promote", "mark", "assert", "assert", "card", "wrapper", "save">>)
  BY DEF Reads, Programs, Acquire, Reconcile, DeployAssets, Metadata, FinalizeRelease,
     DeployProduction, RollbackProduction, VerifyRollback

LEMMA RmVerifyReads == Reads("rmVerify", <<"assert", "verify", "attest">>)
  BY DEF Reads, Programs, Acquire, Reconcile, DeployAssets, Metadata, FinalizeRelease,
     DeployProduction, RollbackProduction, VerifyRollback

LEMMA RmRollbackReads == Reads("rmRollback",
  <<"assert", "assert", "dropRemote", "putBack", "dropIncoming", "guard", "assert", "unmark",
  "assert", "dropRemote", "putBack", "dropIncoming", "upload", "park", "promote", "mark", "assert",
  "card", "wrapper", "restored">>)
  BY DEF Reads, Programs, Acquire, Reconcile, DeployAssets, Metadata, FinalizeRelease,
     DeployProduction, RollbackProduction, VerifyRollback

LEMMA RmVerifyRollbackReads == Reads("rmVerifyRollback",
  <<"assert", "assert", "dropRemote", "putBack", "dropIncoming", "restored">>)
  BY DEF Reads, Programs, Acquire, Reconcile, DeployAssets, Metadata, FinalizeRelease,
     DeployProduction, RollbackProduction, VerifyRollback

LEMMA RmAcceptReads == Reads("rmAccept",
  <<"noLock", "assert", "dropRemote", "putBack", "dropIncoming", "present", "dropIncoming",
  "dropPrevious", "unmark", "assert", "unlinkOwner", "rmLock">>)
  BY DEF Reads, Programs, Acquire, Reconcile, DeployAssets, Metadata, FinalizeRelease,
     DeployProduction, RollbackProduction, VerifyRollback

LEMMA RmRejectReads == Reads("rmReject",
  <<"noLock", "assert", "dropRemote", "putBack", "dropIncoming", "present", "dropIncoming",
  "dropPrevious", "unmark", "assert", "unlinkOwner", "rmLock">>)
  BY DEF Reads, Programs, Acquire, Reconcile, DeployAssets, Metadata, FinalizeRelease,
     DeployProduction, RollbackProduction, VerifyRollback

LEMMA RmGiveUpReads == Reads("rmGiveUp",
  <<"noLock", "assert", "dropRemote", "putBack", "dropIncoming", "present", "dropIncoming",
  "dropPrevious", "unmark", "assert", "unlinkOwner", "rmLock">>)
  BY DEF Reads, Programs, Acquire, Reconcile, DeployAssets, Metadata, FinalizeRelease,
     DeployProduction, RollbackProduction, VerifyRollback

LEMMA NamesOfPrograms == DOMAIN Programs = Names
  BY DEF Programs, Names

LEMMA ProgramsHaveCalls == \A p \in Names : Len(Programs[p]) \in Nat \ {0}
<1>1. \A p \in {"ciStart", "ciKeep", "ciAbort"} : Len(Programs[p]) \in Nat \ {0}
  BY CiStartReads, CiKeepReads, CiAbortReads DEF Reads
<1>2. \A p \in {"ciDeploy", "ciRollback"} : Len(Programs[p]) \in Nat \ {0}
  <2>1. Len(Programs["ciDeploy"]) \in Nat \ {0}
    BY CiDeployReads DEF Reads
  <2>2. Len(Programs["ciRollback"]) \in Nat \ {0}
    BY CiRollbackReads DEF Reads
  <2>3. QED
    BY <2>1, <2>2
<1>3. \A p \in {"rmCapture", "rmRelease", "rmDeploy", "rmVerify", "rmRollback"} : Len(Programs[p]) \in Nat \ {0}
  BY RmCaptureReads, RmReleaseReads, RmDeployReads, RmVerifyReads, RmRollbackReads DEF Reads
<1>4. \A p \in {"rmVerifyRollback", "rmAccept", "rmReject", "rmGiveUp"} : Len(Programs[p]) \in Nat \ {0}
  BY RmVerifyRollbackReads, RmAcceptReads, RmRejectReads, RmGiveUpReads DEF Reads
<1>5. QED
  BY <1>1, <1>2, <1>3, <1>4 DEF Names

\* No call comes after the end of a program; a call that was made stays the last of its kind
\* until another of those named is made.
LEMMA SinceNothing == ASSUME NEW p, NEW op, NEW others PROVE ~Since(p, 1, op, others)
  BY DEF Since

LEMMA SinceNext ==
  ASSUME NEW p, NEW op, NEW others, NEW i \in Nat \ {0}, Since(p, i + 1, op, others)
  PROVE  Programs[p][i] = op \/ (Since(p, i, op, others) /\ Programs[p][i] \notin others)
  BY DEF Since

-----------------------------------------------------------------------------
(* Shapes.                                                                 *)
Host == [remote : Content, card : Nat, wrapper : Nat,
         lock : [by : Workflow \cup {NoOne}, owned : BOOLEAN, expired : BOOLEAN],
         incoming : [Workflow -> Content], previous : [Workflow -> Content],
         completed : [Workflow -> BOOLEAN]]

Control ==
    /\ prog \in [Workflow -> DOMAIN Programs \cup Ends]
    /\ ip \in [Workflow -> Nat \ {0}]
    /\ \A w \in Workflow : Running(w) => ip[w] <= Len(Programs[prog[w]])
    /\ undo \in [Workflow -> {"none", "unpark", "uncard"}]

Journals ==
    /\ snap \in [Workflow -> Captures] /\ deployed \in [Workflow -> Captures]
    /\ attempt \in [Workflow -> BOOLEAN]

Counters == settled \in Nat /\ faults \in Nat /\ crashes \in Nat /\ expiries \in Nat

LEMMA Shapes == TypeOK <=> ha \in Host /\ Control /\ Journals /\ Counters
  BY DEF TypeOK, Host, Control, Journals, Counters

LEMMA Directories ==
  ASSUME NEW w \in Workflow, Journals
  PROVE  Absent \in Content /\ Half \in Content /\ Built(w) \in Content /\ Files(w) \in Content
         /\ Source(w) \in Content /\ CardUrl(w) \in Nat /\ WrapperUrl(w) \in Nat
  BY ProductionConstants DEF Absent, Half, Built, Build, Files, Source, CardUrl, WrapperUrl, Content, Journals,
     Captures

LEMMA LiveIsCommit == ASSUME NEW h \in Host PROVE Live(h) \in Nat /\ Served(h) \in Captures
  BY DEF Live, Served, Host, Content, Captures

-----------------------------------------------------------------------------
(* Where control goes.                                                     *)
LEMMA Destinations ==
  ASSUME NEW p \in Names, NEW i
  PROVE  /\ AfterSuccess[p] \in Names \cup Ends /\ AfterError(p, i) \in Names \cup Ends
         /\ AfterCrash(p) \subseteq Names \cup Ends
         /\ p \in CiNames => AfterSuccess[p] \in CiNames \cup CiEnds /\ AfterError(p, i) \in CiNames \cup CiEnds
         /\ p \notin CiNames => /\ AfterSuccess[p] \notin CiNames \cup CiEnds
                                /\ AfterError(p, i) \notin CiNames \cup CiEnds
                                /\ AfterCrash(p) \cap (CiNames \cup CiEnds) = {}
<1>1. AfterError(p, i) \in Names \cup Ends
  BY DEF AfterError, Names, Ends
<1>2. AfterError(p, 1) \in Names \cup Ends
  BY DEF AfterError, Names, Ends
<1>3. p \in CiNames => AfterError(p, i) \in CiNames \cup CiEnds
  BY DEF AfterError, Names, CiNames, CiEnds
<1>4. p \notin CiNames => /\ AfterError(p, i) \notin CiNames \cup CiEnds
                          /\ AfterError(p, 1) \notin CiNames \cup CiEnds
  BY DEF AfterError, Names, CiNames, CiEnds
<1>5. AfterSuccess[p] \in Names \cup Ends /\ (p \in CiNames <=> AfterSuccess[p] \in CiNames \cup CiEnds)
  BY DEF AfterSuccess, Names, Ends, CiNames, CiEnds
<1>6. QED
  BY <1>1, <1>2, <1>3, <1>4, <1>5 DEF AfterCrash, Names, CiNames, CiEnds

LEMMA GotoControl ==
  ASSUME Control, NEW w \in Workflow, NEW p \in Names \cup Ends, Goto(w, p),
         undo' \in [Workflow -> {"none", "unpark", "uncard"}]
  PROVE  Control'
<1>1. prog' \in [Workflow -> DOMAIN Programs \cup Ends] /\ ip' \in [Workflow -> Nat \ {0}]
  BY NamesOfPrograms DEF Control, Goto
<1>2. ASSUME NEW v \in Workflow, Running(v)' PROVE (ip[v] <= Len(Programs[prog[v]]))'
  BY <1>2, NamesOfPrograms, ProgramsHaveCalls DEF Control, Goto, Running
<1>3. QED
  BY <1>1, <1>2 DEF Control

LEMMA AdvanceControl ==
  ASSUME Control, NEW w \in Workflow, Running(w), Advance(w),
         undo' \in [Workflow -> {"none", "unpark", "uncard"}]
  PROVE  Control'
<1>1. prog[w] \in Names
  BY NamesOfPrograms DEF Running
<1>2. CASE ip[w] = Len(Programs[prog[w]])
  BY <1>1, <1>2, GotoControl, Destinations DEF Advance
<1>3. CASE ip[w] # Len(Programs[prog[w]])
  <2>1. prog' = prog /\ ip' = [ip EXCEPT ![w] = @ + 1]
    BY <1>3 DEF Advance
  <2>2. Len(Programs[prog[w]]) \in Nat /\ ip[w] < Len(Programs[prog[w]])
    BY <1>1, <1>3, ProgramsHaveCalls DEF Control
  <2>3. QED
    BY <2>1, <2>2 DEF Control, Running
<1>4. QED
  BY <1>2, <1>3

LEMMA ThrowControl ==
  ASSUME Control, NEW w \in Workflow, Running(w), Throw(w),
         undo' \in [Workflow -> {"none", "unpark", "uncard"}]
  PROVE  Control'
  BY NamesOfPrograms, Destinations, GotoControl DEF Throw, Running

-----------------------------------------------------------------------------
(* Every step keeps the shapes.                                            *)
LEMMA CallShape ==
  ASSUME TypeOK, NEW w \in Workflow, Running(w), NEW after \in Host, NEW broken \in SUBSET Host,
         NEW retry \in {"none", "unpark", "uncard"}, Call(w, after, broken, retry)
  PROVE  TypeOK'
<1>1. ha' \in Host /\ Counters'
  <2>1. ha' \in Host
    BY Shapes DEF Call
  <2>2. QED
    BY <2>1, Shapes, LiveIsCommit DEF Call, Counters, Settle
<1>2. Control'
  <2>1. undo' \in [Workflow -> {"none", "unpark", "uncard"}]
    BY Shapes DEF Call, Control
  <2>2. CASE Advance(w)
    BY <2>1, <2>2, Shapes, AdvanceControl
  <2>3. CASE Throw(w)
    BY <2>1, <2>3, Shapes, ThrowControl
  <2>4. CASE UNCHANGED <<prog, ip>>
    BY <2>1, <2>4, Shapes DEF Control, Running
  <2>5. QED
    BY <2>2, <2>3, <2>4 DEF Call
<1>3. Journals'
  BY Shapes DEF Call, Journals
<1>4. QED
  BY <1>1, <1>2, <1>3 DEF TypeOK, Host, Control, Journals, Counters

LEMMA TestShape ==
  ASSUME TypeOK, NEW w \in Workflow, Running(w), NEW ok \in BOOLEAN, Test(w, ok)
  PROVE  TypeOK'
<1>1. ha' \in Host /\ Counters' /\ Journals'
  BY Shapes DEF Test, Counters, Journals
<1>2. undo' \in [Workflow -> {"none", "unpark", "uncard"}]
  BY Shapes DEF Test, Control
<1>3. Control'
  BY <1>2, Shapes, AdvanceControl, ThrowControl DEF Test
<1>4. QED
  BY <1>1, <1>3 DEF TypeOK, Host, Control, Journals, Counters

LEMMA DirectoryUpdates ==
  ASSUME TypeOK, NEW w \in Workflow, NEW d \in Content
  PROVE  /\ [ha EXCEPT !.remote = d] \in Host /\ [ha EXCEPT !.incoming[w] = d] \in Host
         /\ [ha EXCEPT !.previous[w] = d] \in Host
  BY Shapes DEF Host

LEMMA UrlUpdates ==
  ASSUME TypeOK, NEW n \in Nat
  PROVE  [ha EXCEPT !.card = n] \in Host /\ [ha EXCEPT !.wrapper = n] \in Host
  BY Shapes DEF Host

LEMMA FlagUpdates ==
  ASSUME TypeOK, NEW w \in Workflow, NEW b \in BOOLEAN
  PROVE  /\ [ha EXCEPT !.completed[w] = b] \in Host /\ [ha EXCEPT !.lock.owned = b] \in Host
         /\ [ha EXCEPT !.lock = [by |-> w, owned |-> b, expired |-> FALSE]] \in Host
<1>1. [ha EXCEPT !.completed[w] = b] \in Host
  BY Shapes DEF Host
<1>2. [ha EXCEPT !.lock.owned = b] \in Host
  BY Shapes DEF Host
<1>3. [ha EXCEPT !.lock = [by |-> w, owned |-> b, expired |-> FALSE]] \in Host
  BY Shapes DEF Host
<1>4. QED
  BY <1>1, <1>2, <1>3

LEMMA FreeUpdate == ASSUME TypeOK PROVE [ha EXCEPT !.lock = FreeLock] \in Host
  BY Shapes DEF Host, FreeLock

LEMMA SwapUpdates ==
  ASSUME TypeOK, NEW w \in Workflow
  PROVE  /\ [ha EXCEPT !.remote = ha.previous[w], !.previous[w] = Absent, !.completed[w] = FALSE] \in Host
         /\ [ha EXCEPT !.remote = ha.previous[w], !.previous[w] = Absent] \in Host
         /\ [ha EXCEPT !.previous[w] = ha.remote, !.remote = Absent] \in Host
         /\ [ha EXCEPT !.remote = ha.incoming[w], !.incoming[w] = Absent] \in Host
<1>1. ha \in Host
  BY Shapes
<1>2. Absent \in Content
  BY DEF Absent, Content
<1>3. QED
  BY <1>1, <1>2 DEF Host

LEMMA LeasingShape == ASSUME TypeOK, NEW w \in Workflow, Leasing(w) PROVE TypeOK'
<1>1. CASE Admit(w)
  BY <1>1, TestShape DEF Admit, At
<1>2. CASE LockDir(w)
  <2>1. Holds(w) \in BOOLEAN
    BY DEF Holds
  <2>2. QED
    BY <1>2, <2>1, TestShape, CallShape, FlagUpdates DEF LockDir, At
<1>3. CASE LockOwner(w)
  BY <1>3, Shapes, CallShape, FlagUpdates DEF LockOwner, At
<1>4. CASE AssertLease(w)
  <2>1. ValidLease(w) \in BOOLEAN
    BY DEF ValidLease
  <2>2. QED
    BY <1>4, <2>1, TestShape DEF AssertLease, At
<1>5. QED
  BY <1>1, <1>2, <1>3, <1>4 DEF Leasing

LEMMA ReconcilingShape == ASSUME TypeOK, NEW w \in Workflow, Reconciling(w) PROVE TypeOK'
<1>1. /\ [ha EXCEPT !.remote = Absent] \in Host /\ [ha EXCEPT !.remote = Half] \in Host
      /\ [ha EXCEPT !.incoming[w] = Absent] \in Host /\ [ha EXCEPT !.incoming[w] = Half] \in Host
  BY Shapes, Directories, DirectoryUpdates
<1>2. CASE DropRemote(w)
  BY <1>1, <1>2, TestShape, CallShape DEF DropRemote, At
<1>3. CASE PutBack(w)
  BY <1>3, SwapUpdates, TestShape, CallShape DEF PutBack, At
<1>4. CASE DropIncoming(w)
  BY <1>1, <1>4, TestShape, CallShape DEF DropIncoming, At
<1>5. QED
  BY <1>2, <1>3, <1>4 DEF Reconciling

\* A step that only records something and goes on.
LEMMA RecordShape ==
  ASSUME TypeOK, NEW w \in Workflow, Running(w), Journals', UNCHANGED <<ha, undo>>, Counters',
         Advance(w) \/ Throw(w) \/ \E p \in Names \cup Ends : Goto(w, p)
  PROVE  TypeOK'
<1>1. undo' \in [Workflow -> {"none", "unpark", "uncard"}]
  BY Shapes DEF Control
<1>2. Control'
  BY <1>1, Shapes, AdvanceControl, ThrowControl, GotoControl
<1>3. ha' \in Host
  BY Shapes
<1>4. QED
  BY <1>2, <1>3 DEF TypeOK, Host, Control, Journals, Counters

LEMMA DecidingShape == ASSUME TypeOK, NEW w \in Workflow, Deciding(w) PROVE TypeOK'
<1>1. CASE Capture(w)
  <2>1. Journals'
    BY <1>1, Shapes, LiveIsCommit DEF Capture, Journals
  <2>2. Counters'
    BY <1>1, Shapes DEF Capture, Counters
  <2>3. QED
    BY <1>1, <2>1, <2>2, RecordShape DEF Capture, At
<1>2. CASE Plan(w)
  <2>1. Journals' /\ Counters'
    BY <1>2, Shapes DEF Plan, Journals, Counters, bounds
  <2>2. \E p \in Names : Goto(w, p)
    BY <1>2 DEF Plan, Names
  <2>3. QED
    BY <1>2, <2>1, <2>2, RecordShape DEF Plan, At
<1>3. CASE Unchanged(w)
  BY <1>3, TestShape DEF Unchanged, At
<1>4. CASE VerifyKept(w)
  BY <1>4, TestShape DEF VerifyKept, At
<1>5. CASE Attempt(w)
  <2>1. Journals' /\ Counters'
    BY <1>5, Shapes DEF Attempt, Journals, Counters, bounds
  <2>2. QED
    BY <1>5, <2>1, RecordShape DEF Attempt, At
<1>6. CASE Guard(w)
  <2>1. (snap[w] # NoCapture /\ RollbackSafe(w)) \in BOOLEAN
    OBVIOUS
  <2>2. QED
    BY <1>6, <2>1, TestShape DEF Guard, At
<1>7. QED
  BY <1>1, <1>2, <1>3, <1>4, <1>5, <1>6 DEF Deciding

LEMMA SwapShape ==
  ASSUME TypeOK, NEW w \in Workflow, NEW op, NEW after \in Host, NEW broken \in SUBSET Host,
         NEW retry \in {"none", "unpark", "uncard"}, Swap(w, op, after, broken, retry)
  PROVE  TypeOK'
  BY CallShape, TestShape DEF Swap, At

LEMMA SwappingShape == ASSUME TypeOK, NEW w \in Workflow, Swapping(w) PROVE TypeOK'
<1>1. /\ Journals /\ ha \in Host
      /\ Source(w) \in Content /\ Half \in Content /\ CardUrl(w) \in Nat /\ WrapperUrl(w) \in Nat
  BY Shapes, Directories
<1>2. CASE Upload(w)
  <2>1. [ha EXCEPT !.incoming[w] = Source(w)] \in Host /\ [ha EXCEPT !.incoming[w] = Half] \in Host
    BY <1>1, DirectoryUpdates
  <2>2. QED
    BY <1>2, <2>1, SwapShape DEF Upload
<1>3. CASE Park(w)
  <2> DEFINE after == IF Exists(ha.remote) THEN [ha EXCEPT !.previous[w] = ha.remote, !.remote = Absent] ELSE ha
  <2>1. after \in Host
    BY <1>1, SwapUpdates
  <2>2. QED
    BY <1>3, <2>1, SwapShape DEF Park
<1>4. CASE Promote(w)
  BY <1>4, SwapUpdates, SwapShape DEF Promote
<1>5. CASE Mark(w)
  BY <1>5, FlagUpdates, SwapShape DEF Mark
<1>6. Compensation(w) \in {"none", "uncard"}
  BY DEF Compensation
<1>7. CASE Card(w)
  <2>1. [ha EXCEPT !.card = CardUrl(w)] \in Host
    BY <1>1, UrlUpdates
  <2>2. QED
    BY <1>6, <1>7, <2>1, CallShape DEF Card, At
<1>8. CASE Wrapper(w)
  <2>1. [ha EXCEPT !.wrapper = WrapperUrl(w)] \in Host
    BY <1>1, UrlUpdates
  <2>2. QED
    BY <1>6, <1>8, <2>1, CallShape DEF Wrapper, At
<1>9. CASE Undo(w)
  <2>1. snap[w][2] \in Nat
    BY <1>1 DEF Journals, Captures
  <2>2. [ha EXCEPT !.card = snap[w][2]] \in Host
    BY <2>1, UrlUpdates
  <2>3. ha' \in Host
    BY <1>1, <1>9, <2>2, SwapUpdates DEF Undo
  <2>4. Counters' /\ Journals'
    BY <1>9, <2>3, Shapes, LiveIsCommit DEF Undo, Settle, Counters, Journals
  <2>5. undo' \in [Workflow -> {"none", "unpark", "uncard"}]
    BY <1>9, Shapes DEF Undo, Control
  <2>6. Control'
    BY <1>9, <2>5, Shapes, ThrowControl DEF Undo
  <2>7. QED
    BY <2>3, <2>4, <2>6 DEF TypeOK, Host, Control, Journals, Counters
<1>10. QED
  BY <1>2, <1>3, <1>4, <1>5, <1>7, <1>8, <1>9 DEF Swapping

LEMMA CheckingShape == ASSUME TypeOK, NEW w \in Workflow, Checking(w) PROVE TypeOK'
<1>1. CASE Verify(w)
  BY <1>1, TestShape DEF Verify, At
<1>2. CASE Http(w)
  BY <1>2, TestShape DEF Http, At
<1>3. CASE Attest(w)
  BY <1>3, TestShape DEF Attest, At
<1>4. CASE Save(w)
  <2>1. <<Built(w), ha.card, ha.wrapper>> \in Captures
    BY Shapes, Directories DEF Captures, Host
  <2>2. Journals' /\ Counters'
    BY <1>4, <2>1, Shapes DEF Save, Journals, Counters, bounds
  <2>3. QED
    BY <1>4, <2>2, RecordShape DEF Save, At
<1>5. CASE Restored(w)
  BY <1>5, TestShape DEF Restored, At
<1>6. QED
  BY <1>1, <1>2, <1>3, <1>4, <1>5 DEF Checking

LEMMA FinalizingShape == ASSUME TypeOK, NEW w \in Workflow, Finalizing(w) PROVE TypeOK'
<1>1. CASE NoLock(w)
  <2>1. CASE ha.lock.by = NoOne
    <3>1. Journals' /\ Counters'
      BY <1>1, <2>1, Shapes DEF NoLock, Journals, Counters, bounds
    <3>2. prog[w] \in Names
      BY <1>1, NamesOfPrograms DEF NoLock, At, Running
    <3>3. \E p \in Names \cup Ends : Goto(w, p)
      BY <1>1, <2>1, <3>2, Destinations DEF NoLock
    <3>4. QED
      BY <1>1, <2>1, <3>1, <3>3, RecordShape DEF NoLock, At
  <2>2. CASE ha.lock.by # NoOne
    BY <1>1, <2>2, TestShape DEF NoLock, At
  <2>3. QED
    BY <2>1, <2>2
<1>2. CASE Present(w)
  <2>1. Exists(ha.remote) \in BOOLEAN
    BY DEF Exists
  <2>2. QED
    BY <1>2, <2>1, TestShape DEF Present, At
<1>3. CASE DropPrevious(w)
  <2>1. [ha EXCEPT !.previous[w] = Absent] \in Host /\ [ha EXCEPT !.previous[w] = Half] \in Host
    BY Shapes, Directories, DirectoryUpdates
  <2>2. QED
    BY <1>3, <2>1, TestShape, CallShape DEF DropPrevious, At
<1>4. CASE Unmark(w)
  BY <1>4, FlagUpdates, CallShape DEF Unmark, At
<1>5. CASE UnlinkOwner(w)
  BY <1>5, FlagUpdates, CallShape DEF UnlinkOwner, At
<1>6. CASE RmLock(w)
  BY <1>6, FreeUpdate, CallShape DEF RmLock, At
<1>7. QED
  BY <1>1, <1>2, <1>3, <1>4, <1>5, <1>6 DEF Finalizing

LEMMA CrashShape == ASSUME TypeOK, NEW w \in Workflow, Crash(w) PROVE TypeOK'
<1>1. ha' \in Host
  BY Shapes, FreeUpdate DEF Crash
<1>2. Counters' /\ Journals'
  BY <1>1, Shapes, LiveIsCommit DEF Crash, Settle, Counters, Journals
<1>3. undo' \in [Workflow -> {"none", "unpark", "uncard"}]
  BY Shapes DEF Crash, Control
<1>4. \E p \in Names \cup Ends : Goto(w, p)
  <2>1. prog[w] \in Names /\ "crashed" \in Ends
    BY NamesOfPrograms DEF Crash, Running, Ends
  <2>2. QED
    BY <2>1, Destinations DEF Crash
<1>5. Control'
  BY <1>3, <1>4, Shapes, GotoControl
<1>6. QED
  BY <1>1, <1>2, <1>5 DEF TypeOK, Host, Control, Journals, Counters

LEMMA ExpireShape == ASSUME TypeOK, Expire PROVE TypeOK'
<1>1. ha' \in Host
  BY Shapes DEF Expire, Host
<1>2. Counters' /\ Journals' /\ Control'
  BY Shapes DEF Expire, Counters, Journals, Control, Running, jobs
<1>3. QED
  BY <1>1, <1>2 DEF TypeOK, Host, Control, Journals, Counters

LEMMA NextShape == ASSUME TypeOK, [Next]_vars PROVE TypeOK'
<1>1. CASE UNCHANGED vars
  BY <1>1 DEF vars, TypeOK, Running
<1>2. CASE Expire
  BY <1>2, ExpireShape
<1>3. ASSUME NEW w \in Workflow, Step(w) \/ Crash(w) PROVE TypeOK'
  BY <1>3, LeasingShape, ReconcilingShape, DecidingShape, SwappingShape, CheckingShape, FinalizingShape,
     CrashShape DEF Step
<1>4. QED
  BY <1>1, <1>2, <1>3 DEF Next

LEMMA InitShape == ASSUME Init PROVE TypeOK
<1>1. ha \in Host
  BY ProductionConstants DEF Init, Host, FreeLock, Build, Absent, Content
<1>2. Control
  BY NamesOfPrograms, ProgramsHaveCalls DEF Init, Control, Running, Names
<1>3. NoCapture \in Captures
  BY DEF NoCapture, Absent, Captures, Content
<1>4. Journals /\ Counters
  BY <1>3, ProductionConstants DEF Init, Journals, Counters
<1>5. QED
  BY <1>1, <1>2, <1>4, Shapes

\* The variables keep their shapes and every call pointer stays within its program.
THEOREM ProductionTypes == Spec => []TypeOK
<1>1. Init => TypeOK
  BY InitShape
<1>2. TypeOK /\ [Next]_vars => TypeOK'
  BY NextShape
<1>3. QED
  BY <1>1, <1>2, PTL DEF Spec

-----------------------------------------------------------------------------
(* What the programs have called by the time they make a call.             *)
Releasing == {"unlinkOwner", "rmLock"}
Unasserted == {"admit", "lockDir", "lockOwner", "assert", "verifyKept", "http", "noLock", "unchanged", "rmLock"}
AssertedAt(p, i) == Programs[p][i] \notin Unasserted => Since(p, i, "assert", Releasing)

\* assertProductionLease comes before every call that changes or judges production.
LEMMA AssertedFirst ==
  \A p \in Names : \A i \in 1..Len(Programs[p]) : AssertedAt(p, i)
<1>1. \A i \in 1..Len(Programs["ciStart"]) : AssertedAt("ciStart", i)
  BY CiStartReads DEF Reads, Since, AssertedAt, Releasing, Unasserted
<1>2. \A i \in 1..Len(Programs["ciKeep"]) : AssertedAt("ciKeep", i)
  BY CiKeepReads DEF Reads, Since, AssertedAt, Releasing, Unasserted
<1>3. \A i \in 1..Len(Programs["ciDeploy"]) : AssertedAt("ciDeploy", i)
  BY CiDeployReads DEF Reads, Since, AssertedAt, Releasing, Unasserted
<1>4. \A i \in 1..Len(Programs["ciAbort"]) : AssertedAt("ciAbort", i)
  BY CiAbortReads DEF Reads, Since, AssertedAt, Releasing, Unasserted
<1>5. \A i \in 1..Len(Programs["ciRollback"]) : AssertedAt("ciRollback", i)
  BY CiRollbackReads DEF Reads, Since, AssertedAt, Releasing, Unasserted
<1>6. \A i \in 1..Len(Programs["rmCapture"]) : AssertedAt("rmCapture", i)
  BY RmCaptureReads DEF Reads, Since, AssertedAt, Releasing, Unasserted
<1>7. \A i \in 1..Len(Programs["rmRelease"]) : AssertedAt("rmRelease", i)
  BY RmReleaseReads DEF Reads, Since, AssertedAt, Releasing, Unasserted
<1>8. \A i \in 1..Len(Programs["rmDeploy"]) : AssertedAt("rmDeploy", i)
  BY RmDeployReads DEF Reads, Since, AssertedAt, Releasing, Unasserted
<1>9. \A i \in 1..Len(Programs["rmVerify"]) : AssertedAt("rmVerify", i)
  BY RmVerifyReads DEF Reads, Since, AssertedAt, Releasing, Unasserted
<1>10. \A i \in 1..Len(Programs["rmRollback"]) : AssertedAt("rmRollback", i)
  BY RmRollbackReads DEF Reads, Since, AssertedAt, Releasing, Unasserted
<1>11. \A i \in 1..Len(Programs["rmVerifyRollback"]) : AssertedAt("rmVerifyRollback", i)
  BY RmVerifyRollbackReads DEF Reads, Since, AssertedAt, Releasing, Unasserted
<1>12. \A i \in 1..Len(Programs["rmAccept"]) : AssertedAt("rmAccept", i)
  BY RmAcceptReads DEF Reads, Since, AssertedAt, Releasing, Unasserted
<1>13. \A i \in 1..Len(Programs["rmReject"]) : AssertedAt("rmReject", i)
  BY RmRejectReads DEF Reads, Since, AssertedAt, Releasing, Unasserted
<1>14. \A i \in 1..Len(Programs["rmGiveUp"]) : AssertedAt("rmGiveUp", i)
  BY RmGiveUpReads DEF Reads, Since, AssertedAt, Releasing, Unasserted
<1>15. QED
  BY <1>1, <1>2, <1>3, <1>4, <1>5, <1>6, <1>7, <1>8, <1>9, <1>10, <1>11, <1>12, <1>13, <1>14 DEF Names

\* The lease directory comes before its owner record, and goes after it.
LeaseOrderAt(p, i) ==
    /\ Programs[p][i] \in {"lockOwner", "rmLock"} => i > 1
    /\ i > 1 => /\ Programs[p][i] = "lockOwner" => Programs[p][i - 1] = "lockDir"
                /\ Programs[p][i] = "rmLock" => Programs[p][i - 1] = "unlinkOwner"

LEMMA LeaseOrder ==
  \A p \in Names : \A i \in 1..Len(Programs[p]) : LeaseOrderAt(p, i)
<1>1. \A i \in 1..Len(Programs["ciStart"]) : LeaseOrderAt("ciStart", i)
  BY CiStartReads DEF Reads, LeaseOrderAt
<1>2. \A i \in 1..Len(Programs["ciKeep"]) : LeaseOrderAt("ciKeep", i)
  BY CiKeepReads DEF Reads, LeaseOrderAt
<1>3. \A i \in 1..Len(Programs["ciDeploy"]) : LeaseOrderAt("ciDeploy", i)
  BY CiDeployReads DEF Reads, LeaseOrderAt
<1>4. \A i \in 1..Len(Programs["ciAbort"]) : LeaseOrderAt("ciAbort", i)
  BY CiAbortReads DEF Reads, LeaseOrderAt
<1>5. \A i \in 1..Len(Programs["ciRollback"]) : LeaseOrderAt("ciRollback", i)
  BY CiRollbackReads DEF Reads, LeaseOrderAt
<1>6. \A i \in 1..Len(Programs["rmCapture"]) : LeaseOrderAt("rmCapture", i)
  BY RmCaptureReads DEF Reads, LeaseOrderAt
<1>7. \A i \in 1..Len(Programs["rmRelease"]) : LeaseOrderAt("rmRelease", i)
  BY RmReleaseReads DEF Reads, LeaseOrderAt
<1>8. \A i \in 1..Len(Programs["rmDeploy"]) : LeaseOrderAt("rmDeploy", i)
  BY RmDeployReads DEF Reads, LeaseOrderAt
<1>9. \A i \in 1..Len(Programs["rmVerify"]) : LeaseOrderAt("rmVerify", i)
  BY RmVerifyReads DEF Reads, LeaseOrderAt
<1>10. \A i \in 1..Len(Programs["rmRollback"]) : LeaseOrderAt("rmRollback", i)
  BY RmRollbackReads DEF Reads, LeaseOrderAt
<1>11. \A i \in 1..Len(Programs["rmVerifyRollback"]) : LeaseOrderAt("rmVerifyRollback", i)
  BY RmVerifyRollbackReads DEF Reads, LeaseOrderAt
<1>12. \A i \in 1..Len(Programs["rmAccept"]) : LeaseOrderAt("rmAccept", i)
  BY RmAcceptReads DEF Reads, LeaseOrderAt
<1>13. \A i \in 1..Len(Programs["rmReject"]) : LeaseOrderAt("rmReject", i)
  BY RmRejectReads DEF Reads, LeaseOrderAt
<1>14. \A i \in 1..Len(Programs["rmGiveUp"]) : LeaseOrderAt("rmGiveUp", i)
  BY RmGiveUpReads DEF Reads, LeaseOrderAt
<1>15. QED
  BY <1>1, <1>2, <1>3, <1>4, <1>5, <1>6, <1>7, <1>8, <1>9, <1>10, <1>11, <1>12, <1>13, <1>14 DEF Names

-----------------------------------------------------------------------------
(* What a step of one workflow may change.                                 *)
Acts(w) == Step(w) \/ Crash(w)

\* The host: each part changes only by the calls that name it, and only for the workflow itself.
Effects(w) ==
    /\ \A v \in Workflow \ {w} : ha'.previous[v] = ha.previous[v] /\ ha'.completed[v] = ha.completed[v]
    /\ ha'.remote # ha.remote =>
          \/ undo[w] = "unpark"
          \/ At(w, "dropRemote") \/ At(w, "putBack") \/ At(w, "park") \/ At(w, "promote")
    /\ ha'.card # ha.card => undo[w] = "uncard" \/ At(w, "card")
    /\ ha'.wrapper # ha.wrapper => At(w, "wrapper")
    /\ ha'.previous[w] # ha.previous[w] =>
          undo[w] = "unpark" \/ At(w, "putBack") \/ At(w, "park") \/ At(w, "dropPrevious")
    /\ ha'.completed[w] # ha.completed[w] => At(w, "putBack") \/ At(w, "mark") \/ At(w, "unmark")

LockEffects(w) ==
    ha'.lock # ha.lock =>
        \/ At(w, "lockDir") /\ ha.lock.by = NoOne /\ ha'.lock.by = w
        \/ At(w, "lockOwner") /\ ha'.lock.by = w /\ ha'.lock.owned
        \/ At(w, "unlinkOwner") /\ ha'.lock.by = ha.lock.by
        \/ At(w, "rmLock") /\ ha'.lock = FreeLock

Settling == settled' = IF ha'.lock.by = NoOne THEN Live(ha') ELSE settled

LEMMA TestEffects ==
  ASSUME NEW w \in Workflow, NEW ok, Test(w, ok)
  PROVE  ha' = ha /\ settled' = settled
  BY DEF Test

LEMMA NoEffects == ASSUME NEW w \in Workflow, ha' = ha PROVE Effects(w) /\ LockEffects(w)
  BY DEF Effects, LockEffects

LEMMA LeasingEffects ==
  ASSUME TypeOK, NEW w \in Workflow, Leasing(w) PROVE Effects(w) /\ LockEffects(w)
<1>1. CASE ha' = ha
  BY <1>1, NoEffects
<1>2. CASE LockDir(w) /\ ha' # ha
  <2>1. /\ At(w, "lockDir") /\ ha.lock.by = NoOne
        /\ ha' = [ha EXCEPT !.lock = [by |-> w, owned |-> FALSE, expired |-> FALSE]]
    BY <1>2 DEF LockDir, Call, Test
  <2>2. QED
    BY <2>1, Shapes DEF Effects, LockEffects, Host
<1>3. CASE LockOwner(w) /\ ha' # ha
  <2>1. At(w, "lockOwner") /\ ha' = [ha EXCEPT !.lock = [by |-> w, owned |-> TRUE, expired |-> FALSE]]
    BY <1>3 DEF LockOwner, Call
  <2>2. QED
    BY <2>1, Shapes DEF Effects, LockEffects, Host
<1>4. QED
  BY <1>1, <1>2, <1>3, TestEffects DEF Leasing, Admit, AssertLease

LEMMA ReconcilingEffects ==
  ASSUME TypeOK, NEW w \in Workflow, Reconciling(w) PROVE Effects(w) /\ LockEffects(w)
<1>1. CASE ha' = ha
  BY <1>1, NoEffects
<1>2. CASE DropRemote(w) /\ ha' # ha
  <2>1. At(w, "dropRemote") /\ \E d \in {Absent, Half} : ha' = [ha EXCEPT !.remote = d]
    BY <1>2 DEF DropRemote, Call, Test
  <2>2. QED
    BY <2>1, Shapes DEF Effects, LockEffects, Host
<1>3. CASE PutBack(w) /\ ha' # ha
  <2>1. /\ At(w, "putBack")
        /\ ha' = [ha EXCEPT !.remote = ha.previous[w], !.previous[w] = Absent, !.completed[w] = FALSE]
    BY <1>3 DEF PutBack, Call, Test
  <2>2. QED
    BY <2>1, Shapes DEF Effects, LockEffects, Host
<1>4. CASE DropIncoming(w) /\ ha' # ha
  <2>1. \E d \in {Absent, Half} : ha' = [ha EXCEPT !.incoming[w] = d]
    BY <1>4 DEF DropIncoming, Call, Test
  <2>2. QED
    BY <2>1, Shapes DEF Effects, LockEffects, Host
<1>5. QED
  BY <1>1, <1>2, <1>3, <1>4 DEF Reconciling

LEMMA SwappingEffects ==
  ASSUME TypeOK, NEW w \in Workflow, Swapping(w) PROVE Effects(w) /\ LockEffects(w)
<1>1. CASE ha' = ha
  BY <1>1, NoEffects
<1>2. CASE Upload(w) /\ ha' # ha
  <2>1. \E d \in {Source(w), Half} : ha' = [ha EXCEPT !.incoming[w] = d]
    BY <1>2 DEF Upload, Swap, Call, Test
  <2>2. QED
    BY <2>1, Shapes DEF Effects, LockEffects, Host
<1>3. CASE Park(w) /\ ha' # ha
  <2>1. At(w, "park") /\ ha' = [ha EXCEPT !.previous[w] = ha.remote, !.remote = Absent]
    BY <1>3 DEF Park, Swap, Call, Test
  <2>2. QED
    BY <2>1, Shapes DEF Effects, LockEffects, Host
<1>4. CASE Promote(w) /\ ha' # ha
  <2>1. At(w, "promote") /\ ha' = [ha EXCEPT !.remote = ha.incoming[w], !.incoming[w] = Absent]
    BY <1>4 DEF Promote, Swap, Call, Test
  <2>2. QED
    BY <2>1, Shapes DEF Effects, LockEffects, Host
<1>5. CASE Mark(w) /\ ha' # ha
  <2>1. At(w, "mark") /\ ha' = [ha EXCEPT !.completed[w] = TRUE]
    BY <1>5 DEF Mark, Swap, Call, Test
  <2>2. QED
    BY <2>1, Shapes DEF Effects, LockEffects, Host
<1>6. CASE Card(w) /\ ha' # ha
  <2>1. At(w, "card") /\ ha' = [ha EXCEPT !.card = CardUrl(w)]
    BY <1>6 DEF Card, Call
  <2>2. QED
    BY <2>1, Shapes DEF Effects, LockEffects, Host
<1>7. CASE Wrapper(w) /\ ha' # ha
  <2>1. At(w, "wrapper") /\ ha' = [ha EXCEPT !.wrapper = WrapperUrl(w)]
    BY <1>7 DEF Wrapper, Call
  <2>2. QED
    BY <2>1, Shapes DEF Effects, LockEffects, Host
<1>8. CASE Undo(w) /\ ha' # ha
  <2>1. CASE undo[w] = "uncard"
    <3>1. ha' = [ha EXCEPT !.card = snap[w][2]]
      BY <1>8, <2>1 DEF Undo
    <3>2. QED
      BY <2>1, <3>1, Shapes DEF Effects, LockEffects, Host
  <2>2. CASE undo[w] = "unpark"
    <3>1. ha' = [ha EXCEPT !.remote = ha.previous[w], !.previous[w] = Absent]
      BY <1>8, <2>2 DEF Undo
    <3>2. QED
      BY <2>2, <3>1, Shapes DEF Effects, LockEffects, Host
  <2>3. QED
    BY <1>8, <2>1, <2>2, Shapes DEF Undo, Control
<1>9. QED
  BY <1>1, <1>2, <1>3, <1>4, <1>5, <1>6, <1>7, <1>8 DEF Swapping

LEMMA FinalizingEffects ==
  ASSUME TypeOK, NEW w \in Workflow, Finalizing(w) PROVE Effects(w) /\ LockEffects(w)
<1>1. CASE ha' = ha
  BY <1>1, NoEffects
<1>2. CASE DropPrevious(w) /\ ha' # ha
  <2>1. At(w, "dropPrevious") /\ \E d \in {Absent, Half} : ha' = [ha EXCEPT !.previous[w] = d]
    BY <1>2 DEF DropPrevious, Call, Test
  <2>2. QED
    BY <2>1, Shapes DEF Effects, LockEffects, Host
<1>3. CASE Unmark(w) /\ ha' # ha
  <2>1. At(w, "unmark") /\ ha' = [ha EXCEPT !.completed[w] = FALSE]
    BY <1>3 DEF Unmark, Call
  <2>2. QED
    BY <2>1, Shapes DEF Effects, LockEffects, Host
<1>4. CASE UnlinkOwner(w) /\ ha' # ha
  <2>1. At(w, "unlinkOwner") /\ ha' = [ha EXCEPT !.lock.owned = FALSE]
    BY <1>4 DEF UnlinkOwner, Call
  <2>2. QED
    BY <2>1, Shapes DEF Effects, LockEffects, Host
<1>5. CASE RmLock(w) /\ ha' # ha
  <2>1. At(w, "rmLock") /\ ha' = [ha EXCEPT !.lock = FreeLock]
    BY <1>5 DEF RmLock, Call
  <2>2. QED
    BY <2>1, Shapes DEF Effects, LockEffects, Host
<1>6. QED
  BY <1>1, <1>2, <1>3, <1>4, <1>5, TestEffects DEF Finalizing, NoLock, Present

LEMMA ActsEffects ==
  ASSUME TypeOK, NEW w \in Workflow, Acts(w) PROVE Effects(w) /\ LockEffects(w)
<1>1. CASE Deciding(w) \/ Checking(w)
  <2>1. ha' = ha
    BY <1>1, TestEffects DEF Deciding, Capture, Plan, Unchanged, VerifyKept, Attempt, Guard, Checking, Verify,
       Http, Attest, Save, Restored
  <2>2. QED
    BY <2>1, NoEffects
<1>2. CASE Crash(w)
  <2>1. CASE ha' = ha
    BY <2>1, NoEffects
  <2>2. CASE ha' # ha
    <3>1. At(w, "rmLock") /\ ha' = [ha EXCEPT !.lock = FreeLock]
      BY <1>2, <2>2 DEF Crash
    <3>2. QED
      BY <3>1, Shapes DEF Effects, LockEffects, Host
  <2>3. QED
    BY <2>1, <2>2
<1>3. QED
  BY <1>1, <1>2, LeasingEffects, ReconcilingEffects, SwappingEffects, FinalizingEffects DEF Acts, Step

\* The commit served counts again when the lease is free: a step that only reads leaves it alone.
LEMMA ActsSettle ==
  ASSUME TypeOK, NEW w \in Workflow, Acts(w) PROVE Settling \/ (ha' = ha /\ settled' = settled)
<1>1. ASSUME NEW after, NEW broken, NEW retry, Call(w, after, broken, retry) PROVE Settling
  BY <1>1 DEF Call, Settle, Settling
<1>2. CASE Leasing(w) \/ Reconciling(w)
  BY <1>1, <1>2, TestEffects DEF Leasing, Admit, LockDir, LockOwner, AssertLease, Reconciling, DropRemote, PutBack,
     DropIncoming
<1>3. CASE Deciding(w) \/ Checking(w)
  BY <1>3, TestEffects DEF Deciding, Capture, Plan, Unchanged, VerifyKept, Attempt, Guard, Checking, Verify,
     Http, Attest, Save, Restored
<1>4. CASE Swapping(w)
  BY <1>1, <1>4, TestEffects DEF Swapping, Swap, Upload, Park, Promote, Mark, Card, Wrapper, Undo, Settle, Settling
<1>5. CASE Finalizing(w)
  BY <1>1, <1>5, TestEffects DEF Finalizing, NoLock, Present, DropPrevious, Unmark, UnlinkOwner, RmLock
<1>6. CASE Crash(w)
  BY <1>6 DEF Crash, Settle, Settling
<1>7. QED
  BY <1>2, <1>3, <1>4, <1>5, <1>6 DEF Acts, Step

-----------------------------------------------------------------------------
(* Where a step leaves the workflow itself, and that it leaves the others. *)
Follows(w) ==
    IF ip[w] = Len(Programs[prog[w]])
    THEN prog'[w] = AfterSuccess[prog[w]] /\ ip'[w] = 1
    ELSE prog'[w] = prog[w] /\ ip'[w] = ip[w] + 1

Advanced(w) == undo[w] = "none" /\ undo'[w] = "none" /\ Follows(w)
Thrown(w) == prog'[w] = AfterError(prog[w], ip[w]) /\ ip'[w] = 1 /\ undo'[w] = "none"
Pending(w) ==
    /\ undo[w] = "none" /\ prog'[w] = prog[w] /\ ip'[w] = ip[w]
    /\ \/ undo'[w] = "unpark" /\ At(w, "promote")
       \/ undo'[w] = "uncard" /\ (At(w, "card") \/ At(w, "wrapper"))
Planned(w) ==
    /\ At(w, "plan") /\ ha' = ha /\ prog'[w] \in {"ciAbort", "ciDeploy", "ciKeep"}
    /\ ip'[w] = 1 /\ undo'[w] = "none"
Exited(w) ==
    /\ At(w, "noLock") /\ ha.lock.by = NoOne /\ ha' = ha
    /\ prog'[w] = AfterSuccess[prog[w]] /\ ip'[w] = 1 /\ undo'[w] = "none"
Died(w) ==
    /\ prog'[w] \in IF w \in CI THEN {"crashed"} ELSE AfterCrash(prog[w])
    /\ ip'[w] = 1 /\ undo'[w] = "none"
    /\ ha' = ha \/ (At(w, "rmLock") /\ ha' = [ha EXCEPT !.lock = FreeLock])

Moves(w) == Advanced(w) \/ Thrown(w) \/ Pending(w) \/ Planned(w) \/ Exited(w) \/ Died(w)

Untouched(v) ==
    /\ prog'[v] = prog[v] /\ ip'[v] = ip[v] /\ undo'[v] = undo[v]
    /\ snap'[v] = snap[v] /\ deployed'[v] = deployed[v]
OthersUntouched(w) == \A v \in Workflow \ {w} : Untouched(v)

LEMMA GotoMoves ==
  ASSUME TypeOK, NEW w \in Workflow, NEW p, Goto(w, p)
  PROVE  /\ prog'[w] = p /\ ip'[w] = 1
         /\ \A v \in Workflow \ {w} : prog'[v] = prog[v] /\ ip'[v] = ip[v]
  BY Shapes DEF Goto, Control

LEMMA AdvanceMoves ==
  ASSUME TypeOK, NEW w \in Workflow, Advance(w)
  PROVE  Follows(w) /\ \A v \in Workflow \ {w} : prog'[v] = prog[v] /\ ip'[v] = ip[v]
<1>1. CASE ip[w] = Len(Programs[prog[w]])
  BY <1>1, GotoMoves DEF Advance, Follows
<1>2. CASE ip[w] # Len(Programs[prog[w]])
  BY <1>2, Shapes DEF Advance, Follows, Control
<1>3. QED
  BY <1>1, <1>2

LEMMA TestMoves ==
  ASSUME TypeOK, NEW w \in Workflow, undo[w] = "none", NEW ok, Test(w, ok)
  PROVE  ((Advanced(w) /\ ok) \/ Thrown(w)) /\ OthersUntouched(w)
<1>1. CASE Advance(w) /\ ok
  BY <1>1, AdvanceMoves DEF Test, Advanced, OthersUntouched, Untouched
<1>2. CASE Throw(w)
  BY <1>2, GotoMoves DEF Test, Throw, Thrown, OthersUntouched, Untouched
<1>3. QED
  BY <1>1, <1>2 DEF Test

LEMMA CallMoves ==
  ASSUME TypeOK, NEW w \in Workflow, undo[w] = "none", NEW after, NEW broken,
         NEW retry \in {"none", "unpark", "uncard"}, Call(w, after, broken, retry)
  PROVE  /\ \/ Advanced(w) /\ ha' = after
            \/ Thrown(w) /\ retry = "none"
            \/ undo'[w] = retry /\ retry # "none" /\ prog'[w] = prog[w] /\ ip'[w] = ip[w]
         /\ OthersUntouched(w)
<1>1. CASE ha' = after /\ Advance(w) /\ UNCHANGED undo
  BY <1>1, AdvanceMoves DEF Call, Advanced, OthersUntouched, Untouched
<1>2. CASE undo' = [undo EXCEPT ![w] = retry] /\ retry = "none" /\ Throw(w)
  <2>1. undo'[w] = "none" /\ \A v \in Workflow \ {w} : undo'[v] = undo[v]
    BY <1>2, Shapes DEF Control
  <2>2. QED
    BY <1>2, <2>1, GotoMoves DEF Call, Throw, Thrown, OthersUntouched, Untouched
<1>3. CASE undo' = [undo EXCEPT ![w] = retry] /\ retry # "none" /\ UNCHANGED <<prog, ip>>
  <2>1. undo'[w] = retry /\ \A v \in Workflow \ {w} : undo'[v] = undo[v]
    BY <1>3, Shapes DEF Control
  <2>2. QED
    BY <1>3, <2>1 DEF Call, OthersUntouched, Untouched
<1>4. QED
  BY <1>1, <1>2, <1>3 DEF Call

LEMMA LeasingMoves ==
  ASSUME TypeOK, NEW w \in Workflow, Leasing(w) PROVE Moves(w) /\ OthersUntouched(w)
  BY TestMoves, CallMoves DEF Leasing, Admit, LockDir, LockOwner, AssertLease, At, Moves

LEMMA ReconcilingMoves ==
  ASSUME TypeOK, NEW w \in Workflow, Reconciling(w) PROVE Moves(w) /\ OthersUntouched(w)
  BY TestMoves, CallMoves DEF Reconciling, DropRemote, PutBack, DropIncoming, At, Moves

LEMMA DecidingMoves ==
  ASSUME TypeOK, NEW w \in Workflow, Deciding(w) PROVE Moves(w) /\ OthersUntouched(w)
<1>1. CASE Unchanged(w) \/ VerifyKept(w) \/ Guard(w)
  BY <1>1, TestMoves DEF Unchanged, VerifyKept, Guard, At, Moves
<1>2. CASE Capture(w)
  <2>1. \A v \in Workflow \ {w} : snap'[v] = snap[v]
    BY <1>2, Shapes DEF Capture, Journals
  <2>2. Advance(w) \/ Throw(w)
    BY <1>2 DEF Capture
  <2>3. Advanced(w) \/ Thrown(w)
    BY <1>2, <2>2, AdvanceMoves, GotoMoves DEF Capture, At, Advanced, Thrown, Throw
  <2>4. \A v \in Workflow \ {w} : prog'[v] = prog[v] /\ ip'[v] = ip[v]
    BY <2>2, AdvanceMoves, GotoMoves DEF Throw
  <2>5. QED
    BY <1>2, <2>1, <2>3, <2>4 DEF Capture, Moves, OthersUntouched, Untouched
<1>3. CASE Plan(w)
  BY <1>3, GotoMoves DEF Plan, At, Planned, Moves, OthersUntouched, Untouched
<1>4. CASE Attempt(w)
  BY <1>4, AdvanceMoves DEF Attempt, At, Advanced, Moves, OthersUntouched, Untouched
<1>5. QED
  BY <1>1, <1>2, <1>3, <1>4 DEF Deciding

LEMMA SwappingMoves ==
  ASSUME TypeOK, NEW w \in Workflow, Swapping(w) PROVE Moves(w) /\ OthersUntouched(w)
<1>1. CASE Upload(w) \/ Park(w) \/ Mark(w)
  BY <1>1, TestMoves, CallMoves DEF Upload, Park, Mark, Swap, At, Moves
<1>2. CASE Promote(w)
  <2>1. At(w, "promote") /\ undo[w] = "none"
    BY <1>2 DEF Promote, Swap, At
  <2>2. QED
    BY <1>2, <2>1, TestMoves, CallMoves DEF Promote, Swap, Moves, Pending
<1>3. CASE Card(w) \/ Wrapper(w)
  <2>1. (At(w, "card") \/ At(w, "wrapper")) /\ undo[w] = "none" /\ Compensation(w) \in {"none", "uncard"}
    BY <1>3 DEF Card, Wrapper, At, Compensation
  <2>2. QED
    BY <1>3, <2>1, CallMoves DEF Card, Wrapper, Moves, Pending
<1>4. CASE Undo(w)
  <2>1. undo'[w] = "none" /\ \A v \in Workflow \ {w} : undo'[v] = undo[v]
    BY <1>4, Shapes DEF Undo, Control
  <2>2. QED
    BY <1>4, <2>1, GotoMoves DEF Undo, Throw, Thrown, Moves, OthersUntouched, Untouched
<1>5. QED
  BY <1>1, <1>2, <1>3, <1>4 DEF Swapping

LEMMA CheckingMoves ==
  ASSUME TypeOK, NEW w \in Workflow, Checking(w) PROVE Moves(w) /\ OthersUntouched(w)
<1>1. CASE Verify(w) \/ Http(w) \/ Attest(w) \/ Restored(w)
  BY <1>1, TestMoves DEF Verify, Http, Attest, Restored, At, Moves
<1>2. CASE Save(w)
  <2>1. \A v \in Workflow \ {w} : deployed'[v] = deployed[v]
    BY <1>2, Shapes DEF Save, Journals
  <2>2. QED
    BY <1>2, <2>1, AdvanceMoves DEF Save, At, Advanced, Moves, OthersUntouched, Untouched
<1>3. QED
  BY <1>1, <1>2 DEF Checking

LEMMA FinalizingMoves ==
  ASSUME TypeOK, NEW w \in Workflow, Finalizing(w) PROVE Moves(w) /\ OthersUntouched(w)
<1>1. CASE Present(w) \/ DropPrevious(w) \/ Unmark(w) \/ UnlinkOwner(w) \/ RmLock(w)
  BY <1>1, TestMoves, CallMoves DEF Present, DropPrevious, Unmark, UnlinkOwner, RmLock, At, Moves
<1>2. CASE NoLock(w)
  <2>1. CASE ha.lock.by = NoOne
    BY <1>2, <2>1, GotoMoves DEF NoLock, At, Exited, Moves, OthersUntouched, Untouched
  <2>2. CASE ha.lock.by # NoOne
    BY <1>2, <2>2, TestMoves DEF NoLock, At, Moves
  <2>3. QED
    BY <2>1, <2>2
<1>3. QED
  BY <1>1, <1>2 DEF Finalizing

LEMMA CrashMoves ==
  ASSUME TypeOK, NEW w \in Workflow, Crash(w) PROVE Died(w) /\ OthersUntouched(w)
<1>1. undo'[w] = "none" /\ \A v \in Workflow \ {w} : undo'[v] = undo[v]
  BY Shapes DEF Crash, Control
<1>2. PICK p \in IF w \in CI THEN {"crashed"} ELSE AfterCrash(prog[w]) : Goto(w, p)
  BY DEF Crash
<1>3. ha' = ha \/ (At(w, "rmLock") /\ ha' = [ha EXCEPT !.lock = FreeLock])
  BY DEF Crash
<1>4. QED
  BY <1>1, <1>2, <1>3, GotoMoves DEF Crash, Died, OthersUntouched, Untouched

LEMMA ActsMoves ==
  ASSUME TypeOK, NEW w \in Workflow, Acts(w) PROVE Running(w) /\ Moves(w) /\ OthersUntouched(w)
<1>1. Running(w)
  BY DEF Acts, Step, Leasing, Admit, LockDir, LockOwner, AssertLease, Reconciling, DropRemote, PutBack,
     DropIncoming, Deciding, Capture, Plan, Unchanged, VerifyKept, Attempt, Guard, Swapping, Swap, Upload, Park,
     Promote, Mark, Card, Wrapper, Undo, Checking, Verify, Http, Attest, Save, Restored, Finalizing, NoLock,
     Present, DropPrevious, Unmark, UnlinkOwner, RmLock, Crash, At
<1>2. CASE Crash(w)
  BY <1>1, <1>2, CrashMoves DEF Moves
<1>3. CASE Step(w)
  BY <1>1, <1>3, LeasingMoves, ReconcilingMoves, DecidingMoves, SwappingMoves, CheckingMoves, FinalizingMoves
     DEF Step
<1>4. QED
  BY <1>2, <1>3 DEF Acts

-----------------------------------------------------------------------------
(* The action a call belongs to.                                           *)

LEMMA OneCall == ASSUME NEW w, NEW o, NEW q, At(w, o), At(w, q) PROVE o = q
  BY DEF At

LEMMA CallOfAction ==
  ASSUME NEW w \in Workflow
  PROVE  /\ (Admit(w) => At(w, "admit")) /\ (LockDir(w) => At(w, "lockDir")) /\ (LockOwner(w) => At(w, "lockOwner"))
         /\ (AssertLease(w) => At(w, "assert"))
         /\ (DropRemote(w) => At(w, "dropRemote")) /\ (PutBack(w) => At(w, "putBack"))
         /\ (DropIncoming(w) => At(w, "dropIncoming"))
         /\ (Capture(w) => At(w, "capture")) /\ (Plan(w) => At(w, "plan")) /\ (Unchanged(w) => At(w, "unchanged"))
         /\ (VerifyKept(w) => At(w, "verifyKept")) /\ (Attempt(w) => At(w, "attempt"))
         /\ (Guard(w) => At(w, "guard"))
         /\ (Upload(w) => At(w, "upload")) /\ (Park(w) => At(w, "park")) /\ (Promote(w) => At(w, "promote"))
         /\ (Mark(w) => At(w, "mark")) /\ (Card(w) => At(w, "card")) /\ (Wrapper(w) => At(w, "wrapper"))
         /\ (Verify(w) => At(w, "verify")) /\ (Http(w) => At(w, "http")) /\ (Attest(w) => At(w, "attest"))
         /\ (Save(w) => At(w, "save")) /\ (Restored(w) => At(w, "restored"))
         /\ (NoLock(w) => At(w, "noLock")) /\ (Present(w) => At(w, "present"))
         /\ (DropPrevious(w) => At(w, "dropPrevious"))
         /\ (Unmark(w) => At(w, "unmark")) /\ (UnlinkOwner(w) => At(w, "unlinkOwner"))
         /\ (RmLock(w) => At(w, "rmLock"))
  BY DEF Admit, LockDir, LockOwner, AssertLease, DropRemote, PutBack, DropIncoming, Capture, Plan,
     Unchanged, VerifyKept, Attempt, Guard, Upload, Park, Promote, Mark, Card, Wrapper, Verify, Http,
     Attest, Save, Restored, NoLock, Present, DropPrevious, Unmark, UnlinkOwner, RmLock, Swap

LEMMA ActionOfCall ==
  ASSUME NEW w \in Workflow, Step(w), NEW o, At(w, o)
  PROVE  /\ (o = "admit" => Admit(w)) /\ (o = "lockDir" => LockDir(w)) /\ (o = "lockOwner" => LockOwner(w))
         /\ (o = "assert" => AssertLease(w))
         /\ (o = "dropRemote" => DropRemote(w)) /\ (o = "putBack" => PutBack(w))
         /\ (o = "dropIncoming" => DropIncoming(w))
         /\ (o = "capture" => Capture(w)) /\ (o = "plan" => Plan(w)) /\ (o = "unchanged" => Unchanged(w))
         /\ (o = "verifyKept" => VerifyKept(w)) /\ (o = "attempt" => Attempt(w)) /\ (o = "guard" => Guard(w))
         /\ (o = "upload" => Upload(w)) /\ (o = "park" => Park(w)) /\ (o = "promote" => Promote(w))
         /\ (o = "mark" => Mark(w)) /\ (o = "card" => Card(w)) /\ (o = "wrapper" => Wrapper(w))
         /\ (o = "verify" => Verify(w)) /\ (o = "http" => Http(w)) /\ (o = "attest" => Attest(w))
         /\ (o = "save" => Save(w)) /\ (o = "restored" => Restored(w))
         /\ (o = "noLock" => NoLock(w)) /\ (o = "present" => Present(w)) /\ (o = "dropPrevious" => DropPrevious(w))
         /\ (o = "unmark" => Unmark(w)) /\ (o = "unlinkOwner" => UnlinkOwner(w)) /\ (o = "rmLock" => RmLock(w))
<1>1. \A q : At(w, q) => q = o
  BY OneCall
<1>2. ~Undo(w)
  BY DEF At, Undo
<1>3. ASSUME Leasing(w)
      PROVE  \/ Admit(w) /\ o = "admit"
             \/ LockDir(w) /\ o = "lockDir"
             \/ LockOwner(w) /\ o = "lockOwner"
             \/ AssertLease(w) /\ o = "assert"
  BY <1>1, <1>3, CallOfAction DEF Leasing
<1>4. ASSUME Reconciling(w)
      PROVE  \/ DropRemote(w) /\ o = "dropRemote"
             \/ PutBack(w) /\ o = "putBack"
             \/ DropIncoming(w) /\ o = "dropIncoming"
  BY <1>1, <1>4, CallOfAction DEF Reconciling
<1>5. ASSUME Deciding(w)
      PROVE  \/ Capture(w) /\ o = "capture"
             \/ Plan(w) /\ o = "plan"
             \/ Unchanged(w) /\ o = "unchanged"
             \/ VerifyKept(w) /\ o = "verifyKept"
             \/ Attempt(w) /\ o = "attempt"
             \/ Guard(w) /\ o = "guard"
  BY <1>1, <1>5, CallOfAction DEF Deciding
<1>6. ASSUME Swapping(w)
      PROVE  \/ Upload(w) /\ o = "upload"
             \/ Park(w) /\ o = "park"
             \/ Promote(w) /\ o = "promote"
             \/ Mark(w) /\ o = "mark"
             \/ Card(w) /\ o = "card"
             \/ Wrapper(w) /\ o = "wrapper"
  BY <1>1, <1>2, <1>6, CallOfAction DEF Swapping
<1>7. ASSUME Checking(w)
      PROVE  \/ Verify(w) /\ o = "verify"
             \/ Http(w) /\ o = "http"
             \/ Attest(w) /\ o = "attest"
             \/ Save(w) /\ o = "save"
             \/ Restored(w) /\ o = "restored"
  BY <1>1, <1>7, CallOfAction DEF Checking
<1>8. ASSUME Finalizing(w)
      PROVE  \/ NoLock(w) /\ o = "noLock"
             \/ Present(w) /\ o = "present"
             \/ DropPrevious(w) /\ o = "dropPrevious"
             \/ Unmark(w) /\ o = "unmark"
             \/ UnlinkOwner(w) /\ o = "unlinkOwner"
             \/ RmLock(w) /\ o = "rmLock"
  BY <1>1, <1>8, CallOfAction DEF Finalizing
<1>9. QED
  BY <1>3, <1>4, <1>5, <1>6, <1>7, <1>8 DEF Step

\* A decision is taken and a capture made only when a deployment starts.
OnlyAt(p, i) ==
    /\ Programs[p][i] = "plan" => p = "ciStart" /\ i = Len(Programs[p])
    /\ Programs[p][i] \in {"capture", "lockDir"} => p \in {"ciStart", "rmCapture"}
    /\ i = 1 => Programs[p][i] \notin {"lockOwner", "rmLock"}

LEMMA OnlyThere ==
  \A p \in Names : \A i \in 1..Len(Programs[p]) : OnlyAt(p, i)
<1>1. \A i \in 1..Len(Programs["ciStart"]) : OnlyAt("ciStart", i)
  BY CiStartReads DEF Reads, OnlyAt
<1>2. \A i \in 1..Len(Programs["ciKeep"]) : OnlyAt("ciKeep", i)
  BY CiKeepReads DEF Reads, OnlyAt
<1>3. \A i \in 1..Len(Programs["ciDeploy"]) : OnlyAt("ciDeploy", i)
  BY CiDeployReads DEF Reads, OnlyAt
<1>4. \A i \in 1..Len(Programs["ciAbort"]) : OnlyAt("ciAbort", i)
  BY CiAbortReads DEF Reads, OnlyAt
<1>5. \A i \in 1..Len(Programs["ciRollback"]) : OnlyAt("ciRollback", i)
  BY CiRollbackReads DEF Reads, OnlyAt
<1>6. \A i \in 1..Len(Programs["rmCapture"]) : OnlyAt("rmCapture", i)
  BY RmCaptureReads DEF Reads, OnlyAt
<1>7. \A i \in 1..Len(Programs["rmRelease"]) : OnlyAt("rmRelease", i)
  BY RmReleaseReads DEF Reads, OnlyAt
<1>8. \A i \in 1..Len(Programs["rmDeploy"]) : OnlyAt("rmDeploy", i)
  BY RmDeployReads DEF Reads, OnlyAt
<1>9. \A i \in 1..Len(Programs["rmVerify"]) : OnlyAt("rmVerify", i)
  BY RmVerifyReads DEF Reads, OnlyAt
<1>10. \A i \in 1..Len(Programs["rmRollback"]) : OnlyAt("rmRollback", i)
  BY RmRollbackReads DEF Reads, OnlyAt
<1>11. \A i \in 1..Len(Programs["rmVerifyRollback"]) : OnlyAt("rmVerifyRollback", i)
  BY RmVerifyRollbackReads DEF Reads, OnlyAt
<1>12. \A i \in 1..Len(Programs["rmAccept"]) : OnlyAt("rmAccept", i)
  BY RmAcceptReads DEF Reads, OnlyAt
<1>13. \A i \in 1..Len(Programs["rmReject"]) : OnlyAt("rmReject", i)
  BY RmRejectReads DEF Reads, OnlyAt
<1>14. \A i \in 1..Len(Programs["rmGiveUp"]) : OnlyAt("rmGiveUp", i)
  BY RmGiveUpReads DEF Reads, OnlyAt
<1>15. QED
  BY <1>1, <1>2, <1>3, <1>4, <1>5, <1>6, <1>7, <1>8, <1>9, <1>10, <1>11, <1>12, <1>13, <1>14 DEF Names

-----------------------------------------------------------------------------
(* The lease.                                                              *)
\* Each kind of workflow runs its own programs, and only a call that changed something is undone.
Kind(w) ==
    /\ prog[w] \in CiNames \cup CiEnds <=> w \in CI
    /\ undo[w] # "none" =>
          /\ Running(w)
          /\ undo[w] = "unpark" => Op(w) = "promote"
          /\ undo[w] = "uncard" => Op(w) \in {"card", "wrapper"}

\* A lease that was asserted is held until it is given up.
Leased(w) ==
    Running(w) =>
        /\ Since(prog[w], ip[w], "assert", Releasing) => Holds(w)
        /\ Op(w) \in {"lockOwner", "rmLock"} => ha.lock.by = w

Leases == \A w \in Workflow : Kind(w) /\ Leased(w)

LEMMA Placed ==
  ASSUME TypeOK, NEW w \in Workflow, Running(w)
  PROVE  prog[w] \in Names /\ ip[w] \in 1..Len(Programs[prog[w]]) /\ Len(Programs[prog[w]]) \in Nat
  BY Shapes, NamesOfPrograms, ProgramsHaveCalls DEF Running, Control

\* An asserted lease is held at every call that changes or judges production.
LEMMA AssertedHolds ==
  ASSUME TypeOK, NEW w \in Workflow, Running(w), Leased(w), Op(w) \notin Unasserted
  PROVE  Holds(w)
  BY Placed, AssertedFirst DEF AssertedAt, Leased, Op

LEMMA KindKept ==
  ASSUME TypeOK, NEW w \in Workflow, Kind(w), Acts(w)
  PROVE  Kind(w)'
<1>1. prog[w] \in Names /\ Moves(w)
  BY Placed, ActsMoves
<1>2. prog'[w] \in CiNames \cup CiEnds <=> w \in CI
  <2>1. CASE prog'[w] = prog[w]
    BY <2>1 DEF Kind
  <2>2. CASE prog'[w] \in {AfterSuccess[prog[w]], AfterError(prog[w], ip[w])}
    <3>1. prog[w] \in CiNames <=> w \in CI
      BY <1>1 DEF Kind, Names, CiNames, CiEnds
    <3>2. QED
      BY <1>1, <2>2, <3>1, Destinations
  <2>3. CASE Planned(w)
    <3>1. prog[w] = "ciStart"
      BY <2>3, Placed, OnlyThere DEF Planned, At, Op, OnlyAt
    <3>2. QED
      BY <2>3, <3>1 DEF Planned, Kind, CiNames, CiEnds
  <2>4. CASE Died(w)
    BY <1>1, <2>4, Destinations DEF Died, Kind, Names, CiNames, CiEnds
  <2>5. QED
    BY <1>1, <2>1, <2>2, <2>3, <2>4 DEF Moves, Advanced, Follows, Thrown, Pending, Exited
<1>3. CASE undo'[w] = "none"
  BY <1>2, <1>3 DEF Kind
<1>4. CASE undo'[w] # "none"
  <2>1. Pending(w)
    BY <1>1, <1>4 DEF Moves, Advanced, Thrown, Planned, Exited, Died
  <2>2. Running(w)' /\ Op(w)' = Op(w)
    BY <2>1, Placed, NamesOfPrograms, ActsMoves DEF Pending, Running, Op
  <2>3. QED
    BY <1>2, <2>1, <2>2 DEF Kind, Pending, At
<1>5. QED
  BY <1>3, <1>4

LEMMA HoldsKept ==
  ASSUME TypeOK, NEW w \in Workflow, Acts(w), Holds(w), ~At(w, "unlinkOwner"), ~At(w, "rmLock")
  PROVE  Holds(w)'
  BY ActsEffects, ProductionConstants DEF LockEffects, Holds

LEMMA LeasedKept ==
  ASSUME TypeOK, NEW w \in Workflow, Kind(w), Leased(w), Acts(w), Running(w)'
  PROVE  Leased(w)'
<1> DEFINE p == prog[w]
           i == ip[w]
<1>1. p \in Names /\ i \in 1..Len(Programs[p]) /\ Moves(w) /\ Running(w) /\ TypeOK' /\ i \in Nat \ {0}
  <2>1. TypeOK'
    BY NextShape DEF Next, Acts
  <2>2. QED
    BY <2>1, Placed, ActsMoves
<1>2. CASE ip'[w] = 1
  <2>1. prog'[w] \in Names /\ 1 \in 1..Len(Programs[prog'[w]])
    BY <1>1, ProgramsHaveCalls, NamesOfPrograms DEF Running
  <2>2. Programs[prog'[w]][1] \notin {"lockOwner", "rmLock"}
    BY <2>1, OnlyThere DEF OnlyAt
  <2>3. QED
    BY <1>2, <2>2, SinceNothing DEF Leased, Op
<1>3. CASE prog'[w] = p /\ ip'[w] = i + 1 /\ Advanced(w) /\ ip'[w] # 1
  <2>1. Step(w) /\ undo[w] = "none" /\ i + 1 \in 1..Len(Programs[p])
    <3>1. ~Crash(w)
      BY <1>3, CrashMoves DEF Died
    <3>2. (ip[w] <= Len(Programs[prog[w]]))'
      BY <1>1 DEF TypeOK
    <3>3. QED
      BY <1>1, <1>3, <3>1, <3>2, ProgramsHaveCalls DEF Acts, Advanced
  <2>2. ASSUME Since(p, i + 1, "assert", Releasing) PROVE Holds(w)'
    <3>1. CASE Programs[p][i] = "assert"
      <4>1. AssertLease(w)
        BY <1>1, <2>1, <3>1, ActionOfCall DEF At, Op
      <4>2. ValidLease(w) /\ ha' = ha
        BY <1>3, <4>1, TestMoves, TestEffects DEF AssertLease, At, Thrown
      <4>3. QED
        BY <4>2 DEF ValidLease, Holds
    <3>2. CASE Since(p, i, "assert", Releasing) /\ Programs[p][i] \notin Releasing
      BY <1>1, <3>2, HoldsKept DEF Leased, At, Op, Releasing
    <3>3. QED
      BY <1>1, <2>2, <3>1, <3>2, SinceNext
  <2>3. ASSUME Programs[p][i + 1] = "lockOwner" PROVE ha'.lock.by = w
    <3>1. Programs[p][i] = "lockDir"
      BY <1>1, <2>1, <2>3, LeaseOrder DEF LeaseOrderAt
    <3>2. LockDir(w)
      BY <1>1, <2>1, <3>1, ActionOfCall DEF At, Op
    <3>3. CASE ha.lock.by = NoOne
      <4> DEFINE taken == [ha EXCEPT !.lock = [by |-> w, owned |-> FALSE, expired |-> FALSE]]
      <4>1. Call(w, taken, {}, "none")
        BY <3>2, <3>3 DEF LockDir
      <4>2. ha' = taken
        BY <1>3, <2>1, <4>1, CallMoves DEF Thrown
      <4>3. QED
        BY <4>2, Shapes DEF Host
    <3>4. CASE ha.lock.by # NoOne
      BY <1>3, <2>1, <3>2, <3>4, TestMoves, TestEffects DEF LockDir, Thrown, Holds
    <3>5. QED
      BY <3>3, <3>4
  <2>4. ASSUME Programs[p][i + 1] = "rmLock" PROVE ha'.lock.by = w
    <3>1. Programs[p][i] = "unlinkOwner"
      BY <1>1, <2>1, <2>4, LeaseOrder DEF LeaseOrderAt
    <3>2. Holds(w) /\ At(w, "unlinkOwner")
      BY <1>1, <2>1, <3>1, AssertedHolds DEF Op, At, Unasserted
    <3>3. QED
      BY <3>2, ActsEffects, OneCall DEF LockEffects, Holds
  <2>5. QED
    BY <1>3, <2>2, <2>3, <2>4 DEF Leased, Op
<1>4. CASE Pending(w)
  <2>1. (At(w, "promote") \/ At(w, "card") \/ At(w, "wrapper")) /\ Running(w)
    BY <1>1, <1>4 DEF Pending
  <2>2. ha'.lock = ha.lock
    BY <2>1, ActsEffects DEF LockEffects, At
  <2>3. Op(w)' = Op(w)
    BY <1>4 DEF Pending, Op
  <2>4. QED
    BY <1>1, <1>4, <2>2, <2>3 DEF Leased, Pending, Holds
<1>5. QED
  BY <1>1, <1>2, <1>3, <1>4 DEF Moves, Advanced, Follows, Thrown, Planned, Exited, Died

\* Nobody else touches a lease one holds, nor what it protects.
Undisturbed(v) ==
    /\ Untouched(v)
    /\ ha'.previous[v] = ha.previous[v] /\ ha'.completed[v] = ha.completed[v]
    /\ Holds(v)' <=> Holds(v)
    /\ ha'.lock.by = v <=> ha.lock.by = v
    /\ ha.lock.by = v => Served(ha') = Served(ha) /\ settled' = settled

LEMMA ServedByHolder ==
  ASSUME TypeOK, NEW w \in Workflow, Kind(w), Leased(w), Acts(w), Served(ha') # Served(ha)
  PROVE  Holds(w)
<1>1. ha'.remote # ha.remote \/ ha'.card # ha.card \/ ha'.wrapper # ha.wrapper
  BY DEF Served
<1>2. Running(w) /\ Op(w) \notin Unasserted
  BY <1>1, ActsEffects, ActsMoves DEF Effects, Kind, At, Unasserted
<1>3. QED
  BY <1>2, AssertedHolds

LEMMA LockOfOthers ==
  ASSUME TypeOK, NEW w \in Workflow, Kind(w), Leased(w), Acts(w), NEW v \in Workflow \ {w}
  PROVE  (ha'.lock.by = v <=> ha.lock.by = v) /\ (Holds(v)' <=> Holds(v))
<1>1. CASE ha'.lock = ha.lock
  BY <1>1 DEF Holds
<1>2. CASE ha'.lock # ha.lock
  <2>1. LockEffects(w) /\ Running(w)
    BY ActsEffects, ActsMoves
  <2>2. At(w, "unlinkOwner") => ha.lock.by = w
    BY AssertedHolds DEF At, Unasserted, Holds
  <2>3. At(w, "lockOwner") \/ At(w, "rmLock") => ha.lock.by = w
    BY DEF At, Leased
  <2>4. ha.lock.by \in {w, NoOne} /\ ha'.lock.by \in {w, NoOne}
    BY <1>2, <2>1, <2>2, <2>3 DEF LockEffects, FreeLock
  <2>5. QED
    BY <2>4, ProductionConstants DEF Holds
<1>3. QED
  BY <1>1, <1>2

LEMMA OthersUndisturbed ==
  ASSUME TypeOK, Leases, NEW w \in Workflow, Acts(w), NEW v \in Workflow \ {w}
  PROVE  Undisturbed(v)
<1>1. Kind(w) /\ Leased(w)
  BY DEF Leases
<1>2. Untouched(v) /\ ha'.previous[v] = ha.previous[v] /\ ha'.completed[v] = ha.completed[v]
  BY ActsMoves, ActsEffects DEF OthersUntouched, Effects
<1>3. (ha'.lock.by = v <=> ha.lock.by = v) /\ (Holds(v)' <=> Holds(v))
  BY <1>1, LockOfOthers
<1>4. ASSUME ha.lock.by = v PROVE Served(ha') = Served(ha) /\ settled' = settled
  <2>1. Served(ha') = Served(ha)
    BY <1>1, <1>4, ServedByHolder DEF Holds
  <2>2. ha'.lock.by # NoOne
    BY <1>3, <1>4, ProductionConstants
  <2>3. QED
    BY <2>1, <2>2, ActsSettle DEF Settling
<1>5. QED
  BY <1>2, <1>3, <1>4 DEF Undisturbed

LEMMA ExpireUndisturbed == ASSUME TypeOK, Expire, NEW v \in Workflow PROVE Undisturbed(v)
  BY Shapes DEF Expire, jobs, Host, Undisturbed, Untouched, Holds, Served

LEMMA IdleUndisturbed == ASSUME UNCHANGED vars, NEW v \in Workflow PROVE Undisturbed(v)
  BY DEF vars, Undisturbed, Untouched, Holds, Served

LEMMA UndisturbedLease ==
  ASSUME NEW v \in Workflow, Undisturbed(v), Kind(v), Leased(v)
  PROVE  Kind(v)' /\ Leased(v)'
  BY DEF Undisturbed, Untouched, Kind, Leased, Running, Op

\* A step is the workflow's own, or leaves it undisturbed.
LEMMA NextSplits ==
  ASSUME TypeOK, Leases, [Next]_vars, NEW v \in Workflow
  PROVE  Acts(v) \/ Undisturbed(v)
<1>1. CASE UNCHANGED vars
  BY <1>1, IdleUndisturbed
<1>2. CASE Expire
  BY <1>2, ExpireUndisturbed
<1>3. ASSUME NEW w \in Workflow, Acts(w) PROVE Acts(v) \/ Undisturbed(v)
  BY <1>3, OthersUndisturbed
<1>4. QED
  BY <1>1, <1>2, <1>3 DEF Next, Acts

LEMMA MovedActs ==
  ASSUME TypeOK, Leases, [Next]_vars, NEW w \in Workflow, Moved(w)
  PROVE  Acts(w)
  BY NextSplits DEF Moved, Undisturbed, Untouched

LEMMA LeasesKept == ASSUME TypeOK, Leases, [Next]_vars PROVE Leases'
<1>1. ASSUME NEW v \in Workflow PROVE Kind(v)' /\ Leased(v)'
  <2>1. Kind(v) /\ Leased(v)
    BY DEF Leases
  <2>2. CASE Acts(v)
    <3>1. ~Running(v)' => Leased(v)'
      BY DEF Leased
    <3>2. QED
      BY <2>1, <2>2, <3>1, KindKept, LeasedKept
  <2>3. CASE Undisturbed(v)
    BY <2>1, <2>3, UndisturbedLease
  <2>4. QED
    BY <2>2, <2>3, NextSplits
<1>2. QED
  BY <1>1 DEF Leases

LEMMA InitLeases == ASSUME Init PROVE Leases
<1>1. TypeOK
  BY InitShape
<1>2. ASSUME NEW w \in Workflow PROVE Kind(w) /\ Leased(w)
  <2>1. prog[w] = (IF w \in CI THEN "ciStart" ELSE "rmCapture") /\ ip[w] = 1 /\ undo[w] = "none"
    BY DEF Init
  <2>2. Kind(w)
    BY <2>1 DEF Kind, CiNames, CiEnds
  <2>3. ASSUME Running(w) PROVE Op(w) \notin {"lockOwner", "rmLock"}
    BY <1>1, <2>1, <2>3, Placed, OnlyThere DEF OnlyAt, Op
  <2>4. Leased(w)
    BY <2>1, <2>3, SinceNothing DEF Leased
  <2>5. QED
    BY <2>2, <2>4
<1>3. QED
  BY <1>2 DEF Leases

LEMMA LeasesHold == Spec => [](TypeOK /\ Leases)
<1>1. Init => TypeOK /\ Leases
  BY InitShape, InitLeases
<1>2. TypeOK /\ Leases /\ [Next]_vars => (TypeOK /\ Leases)'
  BY NextShape, LeasesKept
<1>3. QED
  BY <1>1, <1>2, PTL DEF Spec

\* Whatever fails, dies or expires, only the holder of the lease changes what production serves.
THEOREM OnlyHolderChanges == Spec => HolderOnly
<1> DEFINE Changes(w) == Moved(w) /\ Served(ha') # Served(ha)
<1>1. ASSUME TypeOK, Leases, [Next]_vars, NEW w \in Workflow, Changes(w) PROVE Holds(w)
  <2>1. Acts(w)
    BY <1>1, MovedActs
  <2>2. QED
    BY <1>1, <2>1, ServedByHolder DEF Leases
<1>2. TypeOK /\ Leases /\ [Next]_vars => [\A w \in Workflow : Changes(w) => Holds(w)]_vars
  BY <1>1
<1>3. QED
  BY <1>2, LeasesHold, PTL DEF Spec, HolderOnly

-----------------------------------------------------------------------------
(* What the calls of the swap leave behind.                                *)
Unswapped(w) == ha.completed[w] \/ ~Exists(ha.previous[w])

Left(w) ==
    LET Called(op, others) == Since(prog[w], ip[w], op, others) IN
    /\ Called("dropPrevious", {"park"}) => ~Exists(ha.previous[w])
    /\ Called("mark", {"unmark", "putBack"}) => ha.completed[w]
    /\ Called("putBack", {"park", "promote", "dropRemote"}) => Exists(ha.remote) \/ ~Exists(ha.previous[w])
    /\ Called("dropRemote", {"promote", "unmark"}) => Unswapped(w) \/ ~Exists(ha.remote)
    /\ Called("park", {"promote", "putBack", "unmark"}) => ha.completed[w] \/ ~Exists(ha.remote)
    /\ Called("present", {"park", "promote", "dropRemote"}) => Exists(ha.remote)

Recent(w) == Running(w) /\ undo[w] = "none" /\ ha.lock.by = w => Left(w)

\* Nothing is swapped before the lease is taken.
TakenAt(p, i) == Programs[p][i] = "lockDir" => \A j \in 1..(i - 1) : Programs[p][j] = "admit"

LEMMA TakenFirst ==
  \A p \in Names : \A i \in 1..Len(Programs[p]) : TakenAt(p, i)
<1>1. \A i \in 1..Len(Programs["ciStart"]) : TakenAt("ciStart", i)
  BY CiStartReads DEF Reads, TakenAt
<1>2. \A i \in 1..Len(Programs["ciKeep"]) : TakenAt("ciKeep", i)
  BY CiKeepReads DEF Reads, TakenAt
<1>3. \A i \in 1..Len(Programs["ciDeploy"]) : TakenAt("ciDeploy", i)
  BY CiDeployReads DEF Reads, TakenAt
<1>4. \A i \in 1..Len(Programs["ciAbort"]) : TakenAt("ciAbort", i)
  BY CiAbortReads DEF Reads, TakenAt
<1>5. \A i \in 1..Len(Programs["ciRollback"]) : TakenAt("ciRollback", i)
  BY CiRollbackReads DEF Reads, TakenAt
<1>6. \A i \in 1..Len(Programs["rmCapture"]) : TakenAt("rmCapture", i)
  BY RmCaptureReads DEF Reads, TakenAt
<1>7. \A i \in 1..Len(Programs["rmRelease"]) : TakenAt("rmRelease", i)
  BY RmReleaseReads DEF Reads, TakenAt
<1>8. \A i \in 1..Len(Programs["rmDeploy"]) : TakenAt("rmDeploy", i)
  BY RmDeployReads DEF Reads, TakenAt
<1>9. \A i \in 1..Len(Programs["rmVerify"]) : TakenAt("rmVerify", i)
  BY RmVerifyReads DEF Reads, TakenAt
<1>10. \A i \in 1..Len(Programs["rmRollback"]) : TakenAt("rmRollback", i)
  BY RmRollbackReads DEF Reads, TakenAt
<1>11. \A i \in 1..Len(Programs["rmVerifyRollback"]) : TakenAt("rmVerifyRollback", i)
  BY RmVerifyRollbackReads DEF Reads, TakenAt
<1>12. \A i \in 1..Len(Programs["rmAccept"]) : TakenAt("rmAccept", i)
  BY RmAcceptReads DEF Reads, TakenAt
<1>13. \A i \in 1..Len(Programs["rmReject"]) : TakenAt("rmReject", i)
  BY RmRejectReads DEF Reads, TakenAt
<1>14. \A i \in 1..Len(Programs["rmGiveUp"]) : TakenAt("rmGiveUp", i)
  BY RmGiveUpReads DEF Reads, TakenAt
<1>15. QED
  BY <1>1, <1>2, <1>3, <1>4, <1>5, <1>6, <1>7, <1>8, <1>9, <1>10, <1>11, <1>12, <1>13, <1>14 DEF Names

\* What a call that succeeded did.
Done(w) == ~Thrown(w) /\ undo'[w] = "none"

LEMMA CallDone ==
  ASSUME TypeOK, NEW w \in Workflow, undo[w] = "none", Done(w), NEW after, NEW broken,
         NEW retry \in {"none", "unpark", "uncard"}, Call(w, after, broken, retry)
  PROVE  ha' = after
  BY CallMoves DEF Done

LEMMA TestDone ==
  ASSUME TypeOK, NEW w \in Workflow, undo[w] = "none", Done(w), NEW ok, Test(w, ok)
  PROVE  ok /\ ha' = ha
  BY TestMoves, TestEffects DEF Done

LEMMA DropRemoteDone ==
  ASSUME TypeOK, NEW w \in Workflow, DropRemote(w), Done(w)
  PROVE  ha'.remote = IF Exists(ha.remote) /\ ~Unswapped(w) THEN Absent ELSE ha.remote
<1>1. undo[w] = "none"
  BY DEF DropRemote, At
<1>2. CASE Exists(ha.remote) /\ Exists(ha.previous[w]) /\ ~ha.completed[w]
  <2>1. Call(w, [ha EXCEPT !.remote = Absent], {[ha EXCEPT !.remote = Half]}, "none")
    BY <1>2 DEF DropRemote
  <2>2. ha' = [ha EXCEPT !.remote = Absent]
    BY <1>1, <2>1, CallDone
  <2>3. QED
    BY <1>2, <2>2, Shapes DEF Host, Unswapped
<1>3. CASE ~(Exists(ha.remote) /\ Exists(ha.previous[w]) /\ ~ha.completed[w])
  BY <1>1, <1>3, TestDone DEF DropRemote, Unswapped
<1>4. QED
  BY <1>2, <1>3

LEMMA PutBackDone ==
  ASSUME TypeOK, NEW w \in Workflow, PutBack(w), Done(w)
  PROVE  IF ~Exists(ha.remote) /\ Exists(ha.previous[w])
         THEN ha'.remote = ha.previous[w] /\ ha'.previous[w] = Absent /\ ~ha'.completed[w]
         ELSE ha' = ha
<1>1. undo[w] = "none"
  BY DEF PutBack, At
<1>2. CASE ~Exists(ha.remote) /\ Exists(ha.previous[w])
  <2> DEFINE back == [ha EXCEPT !.remote = ha.previous[w], !.previous[w] = Absent, !.completed[w] = FALSE]
  <2>1. Call(w, back, {}, "none")
    BY <1>2 DEF PutBack
  <2>2. ha' = back
    BY <1>1, <2>1, CallDone
  <2>3. QED
    BY <1>2, <2>2, Shapes DEF Host
<1>3. CASE ~(~Exists(ha.remote) /\ Exists(ha.previous[w]))
  BY <1>1, <1>3, TestDone DEF PutBack
<1>4. QED
  BY <1>2, <1>3

LEMMA ParkDone ==
  ASSUME TypeOK, NEW w \in Workflow, Park(w), Done(w)
  PROVE  IF ~ha.completed[w] /\ Exists(ha.remote)
         THEN ha'.previous[w] = ha.remote /\ ha'.remote = Absent
         ELSE ha' = ha
<1> DEFINE parked == [ha EXCEPT !.previous[w] = ha.remote, !.remote = Absent]
<1>1. undo[w] = "none"
  BY DEF Park, Swap, At
<1>2. CASE ha.completed[w]
  BY <1>1, <1>2, TestDone DEF Park, Swap
<1>3. CASE ~ha.completed[w]
  <2>1. Call(w, IF Exists(ha.remote) THEN parked ELSE ha, {}, "none")
    BY <1>3 DEF Park, Swap
  <2>2. ha' = IF Exists(ha.remote) THEN parked ELSE ha
    BY <1>1, <2>1, CallDone
  <2>3. QED
    BY <1>3, <2>2, Shapes DEF Host
<1>4. QED
  BY <1>2, <1>3

LEMMA MarkDone == ASSUME TypeOK, NEW w \in Workflow, Mark(w), Done(w) PROVE ha'.completed[w]
<1>1. undo[w] = "none"
  BY DEF Mark, Swap, At
<1>2. CASE ha.completed[w]
  BY <1>1, <1>2, TestDone DEF Mark, Swap
<1>3. CASE ~ha.completed[w]
  <2>1. Call(w, [ha EXCEPT !.completed[w] = TRUE], {}, "none")
    BY <1>3 DEF Mark, Swap
  <2>2. ha' = [ha EXCEPT !.completed[w] = TRUE]
    BY <1>1, <2>1, CallDone
  <2>3. QED
    BY <2>2, Shapes DEF Host
<1>4. QED
  BY <1>2, <1>3

LEMMA DropPreviousDone ==
  ASSUME TypeOK, NEW w \in Workflow, DropPrevious(w), Done(w) PROVE ~Exists(ha'.previous[w])
<1>1. undo[w] = "none"
  BY DEF DropPrevious, At
<1>2. CASE Exists(ha.previous[w])
  <2>1. Call(w, [ha EXCEPT !.previous[w] = Absent], {[ha EXCEPT !.previous[w] = Half]}, "none")
    BY <1>2 DEF DropPrevious
  <2>2. ha' = [ha EXCEPT !.previous[w] = Absent]
    BY <1>1, <2>1, CallDone
  <2>3. QED
    BY <2>2, Shapes DEF Host, Exists, Absent
<1>3. CASE ~Exists(ha.previous[w])
  BY <1>1, <1>3, TestDone DEF DropPrevious
<1>4. QED
  BY <1>2, <1>3

LEMMA PresentDone ==
  ASSUME TypeOK, NEW w \in Workflow, Present(w), Done(w) PROVE Exists(ha'.remote)
  BY TestDone DEF Present, At

\* A step of a program that goes on is the success of its call.
LEMMA GoesOn ==
  ASSUME TypeOK, NEW w \in Workflow, Acts(w), Running(w)', ip'[w] # 1, undo'[w] = "none"
  PROVE  /\ Done(w) /\ Step(w) /\ At(w, Op(w)) /\ Running(w)
         /\ prog[w] \in Names /\ ip[w] \in 1..Len(Programs[prog[w]]) /\ ip[w] \in Nat \ {0}
         /\ prog'[w] = prog[w] /\ ip'[w] = ip[w] + 1
         /\ ip[w] + 1 \in 1..Len(Programs[prog[w]])
<1>1. Moves(w) /\ Running(w) /\ prog[w] \in Names /\ ip[w] \in 1..Len(Programs[prog[w]]) /\ ip[w] \in Nat \ {0}
  BY Placed, ActsMoves
<1>2. Done(w) /\ undo[w] = "none" /\ Step(w)
  BY <1>1, CrashMoves DEF Acts, Done, Moves, Thrown, Pending, Planned, Exited, Died, Advanced
<1>3. prog'[w] = prog[w] /\ ip'[w] = ip[w] + 1
  BY <1>1, <1>2 DEF Moves, Done, Thrown, Pending, Planned, Exited, Died, Advanced, Follows
<1>4. TypeOK'
  BY NextShape DEF Next, Acts
<1>5. (ip[w] <= Len(Programs[prog[w]]))'
  BY <1>4 DEF TypeOK
<1>6. QED
  BY <1>1, <1>2, <1>3, <1>5, ProgramsHaveCalls DEF At

LEMMA DoneLeaves ==
  ASSUME TypeOK, NEW w \in Workflow, Acts(w), Done(w), Step(w), At(w, Op(w)), Left(w),
         prog[w] \in Names, ip[w] \in Nat \ {0}, prog'[w] = prog[w], ip'[w] = ip[w] + 1
  PROVE  Left(w)'
<1> DEFINE p == prog[w]
           i == ip[w]
<1>1. /\ (At(w, "dropRemote") => DropRemote(w)) /\ (At(w, "putBack") => PutBack(w)) /\ (At(w, "park") => Park(w))
      /\ (At(w, "mark") => Mark(w)) /\ (At(w, "dropPrevious") => DropPrevious(w)) /\ (At(w, "present") => Present(w))
  BY ActionOfCall
<1>2. Effects(w) /\ Op(w) = Programs[p][i] /\ (\A q : At(w, q) => q = Op(w)) /\ undo[w] # "unpark"
  BY ActsEffects, OneCall DEF Op, At
<1>3. \A op, others :
        Since(p, i + 1, op, others) => Op(w) = op \/ (Since(p, i, op, others) /\ Op(w) \notin others)
  BY <1>2, SinceNext
<1>4. Since(p, i + 1, "dropPrevious", {"park"}) => ~Exists(ha'.previous[w])
  BY <1>1, <1>2, <1>3, DropPreviousDone, PutBackDone DEF Left, Effects, Exists, Absent
<1>5. Since(p, i + 1, "mark", {"unmark", "putBack"}) => ha'.completed[w]
  BY <1>1, <1>2, <1>3, MarkDone DEF Left, Effects
<1>6. Since(p, i + 1, "putBack", {"park", "promote", "dropRemote"}) => Exists(ha'.remote) \/ ~Exists(ha'.previous[w])
  BY <1>1, <1>2, <1>3, PutBackDone, DropPreviousDone DEF Left, Effects, Exists, Absent
<1>7. Since(p, i + 1, "dropRemote", {"promote", "unmark"}) => Unswapped(w)' \/ ~Exists(ha'.remote)
  <2>1. CASE At(w, "dropRemote")
    BY <1>1, <1>2, <2>1, DropRemoteDone DEF Effects, Unswapped, Exists, Absent
  <2>2. CASE At(w, "putBack")
    BY <1>1, <1>2, <1>3, <2>2, PutBackDone DEF Left, Unswapped, Exists, Absent
  <2>3. CASE At(w, "park")
    BY <1>1, <1>2, <1>3, <2>3, ParkDone DEF Left, Effects, Unswapped, Exists, Absent
  <2>4. CASE At(w, "dropPrevious")
    BY <1>1, <1>2, <1>3, <2>4, DropPreviousDone DEF Unswapped
  <2>5. CASE At(w, "mark")
    BY <1>1, <1>2, <1>3, <2>5, MarkDone DEF Unswapped
  <2>6. CASE Op(w) \notin {"dropRemote", "putBack", "park", "dropPrevious", "mark"}
    BY <1>2, <1>3, <2>6 DEF Left, Effects, Unswapped
  <2>7. QED
    BY <1>2, <2>1, <2>2, <2>3, <2>4, <2>5, <2>6
<1>8. Since(p, i + 1, "park", {"promote", "putBack", "unmark"}) => ha'.completed[w] \/ ~Exists(ha'.remote)
  <2>1. CASE At(w, "park")
    BY <1>1, <1>2, <2>1, ParkDone DEF Effects, Exists, Absent
  <2>2. CASE At(w, "dropRemote")
    BY <1>1, <1>2, <1>3, <2>2, DropRemoteDone DEF Left, Effects, Exists, Absent
  <2>3. CASE At(w, "mark")
    BY <1>1, <1>2, <2>3, MarkDone
  <2>4. CASE Op(w) \notin {"park", "dropRemote", "mark"}
    BY <1>2, <1>3, <2>4 DEF Left, Effects
  <2>5. QED
    BY <1>2, <2>1, <2>2, <2>3, <2>4
<1>9. Since(p, i + 1, "present", {"park", "promote", "dropRemote"}) => Exists(ha'.remote)
  <2>1. CASE At(w, "present")
    BY <1>1, <2>1, PresentDone
  <2>2. CASE At(w, "putBack")
    BY <1>1, <1>2, <1>3, <2>2, PutBackDone DEF Left
  <2>3. QED
    BY <1>2, <1>3, <2>1, <2>2 DEF Left, Effects
<1>10. QED
  BY <1>4, <1>5, <1>6, <1>7, <1>8, <1>9 DEF Left

LEMMA RecentKept ==
  ASSUME TypeOK, NEW w \in Workflow, Leased(w), Recent(w), Acts(w)
  PROVE  Recent(w)'
<1> SUFFICES ASSUME Running(w)', undo'[w] = "none", ha'.lock.by = w PROVE Left(w)'
  BY DEF Recent
<1>1. CASE ip'[w] = 1
  BY <1>1, SinceNothing DEF Left
<1>2. CASE ip'[w] # 1 /\ ha.lock.by = w
  <2>1. /\ Done(w) /\ Step(w) /\ At(w, Op(w)) /\ Running(w) /\ prog[w] \in Names /\ ip[w] \in Nat \ {0}
        /\ prog'[w] = prog[w] /\ ip'[w] = ip[w] + 1
    BY <1>2, GoesOn
  <2>2. Left(w)
    BY <1>2, <2>1 DEF Recent, At
  <2>3. QED
    BY <2>1, <2>2, DoneLeaves
<1>3. CASE ip'[w] # 1 /\ ha.lock.by # w
  <2> DEFINE p == prog[w]
             i == ip[w]
  <2>1. /\ Running(w) /\ At(w, Op(w)) /\ p \in Names /\ i \in 1..Len(Programs[p]) /\ i \in Nat \ {0}
        /\ prog'[w] = p /\ ip'[w] = i + 1
    BY <1>3, GoesOn
  <2>2. Op(w) = "lockDir"
    <3>1. ha'.lock # ha.lock /\ LockEffects(w)
      BY <1>3, ActsEffects
    <3>2. ~At(w, "lockOwner")
      BY <1>3 DEF At, Leased
    <3>3. QED
      BY <1>3, <3>1, <3>2, ProductionConstants DEF LockEffects, FreeLock, At
  <2>3. \A op, others : Since(p, i + 1, op, others) => op \in {"lockDir", "admit"}
    <3>1. \A j \in 1..(i - 1) : Programs[p][j] = "admit"
      BY <2>1, <2>2, TakenFirst DEF TakenAt, Op
    <3>2. \A op, others : Since(p, i, op, others) => op = "admit"
      BY <3>1 DEF Since
    <3>3. QED
      BY <2>1, <2>2, <3>2, SinceNext DEF Op
  <2>4. QED
    BY <2>1, <2>3 DEF Left
<1>4. QED
  BY <1>1, <1>2, <1>3

LEMMA UndisturbedRecent ==
  ASSUME NEW v \in Workflow, Undisturbed(v), Recent(v) PROVE Recent(v)'
  BY DEF Undisturbed, Untouched, Recent, Running, Left, Unswapped, Served

-----------------------------------------------------------------------------
(* The beginning of a deployment, and production between two leases.       *)
Beginning == {"ciStart", "ciKeep", "ciAbort", "rmCapture", "rmRelease"}

\* Nothing is swapped before a decision; the lease is given up last, and over a present directory.
BeginningAt(p, i) ==
    /\ p \in Beginning => Programs[p][i] \notin {"park", "promote", "card", "wrapper"}
    /\ Programs[p][i] = "plan" => Since(p, i, "capture", {})
    /\ Programs[p][i] = "rmLock" => i = Len(Programs[p])
    /\ Programs[p][i] = "rmLock" => p = "rmRelease" \/ Since(p, i, "present", {"park", "promote", "dropRemote"})

LEMMA BeginningPlaces ==
  \A p \in Names : \A i \in 1..Len(Programs[p]) : BeginningAt(p, i)
<1>1. \A i \in 1..Len(Programs["ciStart"]) : BeginningAt("ciStart", i)
  BY CiStartReads DEF Reads, BeginningAt, Beginning, Since
<1>2. \A i \in 1..Len(Programs["ciKeep"]) : BeginningAt("ciKeep", i)
  BY CiKeepReads DEF Reads, BeginningAt, Beginning, Since
<1>3. \A i \in 1..Len(Programs["ciDeploy"]) : BeginningAt("ciDeploy", i)
  BY CiDeployReads DEF Reads, BeginningAt, Beginning, Since
<1>4. \A i \in 1..Len(Programs["ciAbort"]) : BeginningAt("ciAbort", i)
  BY CiAbortReads DEF Reads, BeginningAt, Beginning, Since
<1>5. \A i \in 1..Len(Programs["ciRollback"]) : BeginningAt("ciRollback", i)
  BY CiRollbackReads DEF Reads, BeginningAt, Beginning, Since
<1>6. \A i \in 1..Len(Programs["rmCapture"]) : BeginningAt("rmCapture", i)
  BY RmCaptureReads DEF Reads, BeginningAt, Beginning, Since
<1>7. \A i \in 1..Len(Programs["rmRelease"]) : BeginningAt("rmRelease", i)
  BY RmReleaseReads DEF Reads, BeginningAt, Beginning, Since
<1>8. \A i \in 1..Len(Programs["rmDeploy"]) : BeginningAt("rmDeploy", i)
  BY RmDeployReads DEF Reads, BeginningAt, Beginning, Since
<1>9. \A i \in 1..Len(Programs["rmVerify"]) : BeginningAt("rmVerify", i)
  BY RmVerifyReads DEF Reads, BeginningAt, Beginning, Since
<1>10. \A i \in 1..Len(Programs["rmRollback"]) : BeginningAt("rmRollback", i)
  BY RmRollbackReads DEF Reads, BeginningAt, Beginning, Since
<1>11. \A i \in 1..Len(Programs["rmVerifyRollback"]) : BeginningAt("rmVerifyRollback", i)
  BY RmVerifyRollbackReads DEF Reads, BeginningAt, Beginning, Since
<1>12. \A i \in 1..Len(Programs["rmAccept"]) : BeginningAt("rmAccept", i)
  BY RmAcceptReads DEF Reads, BeginningAt, Beginning, Since
<1>13. \A i \in 1..Len(Programs["rmReject"]) : BeginningAt("rmReject", i)
  BY RmRejectReads DEF Reads, BeginningAt, Beginning, Since
<1>14. \A i \in 1..Len(Programs["rmGiveUp"]) : BeginningAt("rmGiveUp", i)
  BY RmGiveUpReads DEF Reads, BeginningAt, Beginning, Since
<1>15. QED
  BY <1>1, <1>2, <1>3, <1>4, <1>5, <1>6, <1>7, <1>8, <1>9, <1>10, <1>11, <1>12, <1>13, <1>14 DEF Names

\* The commit that files and URLs serve together.
LiveOf(s) == IF s[1].kind = "whole" /\ s[2] = s[1].sha /\ s[3] = s[1].sha THEN s[1].sha ELSE 0

\* Nobody holds the lease: production is what it was when it was given up.
Vacant == ha.lock.by = NoOne => settled = Live(ha) /\ Exists(ha.remote)

\* Before anything is deployed production is as it was found.
Early(w) ==
    /\ prog[w] \in Beginning => ~Exists(ha.previous[w])
    /\ prog[w] \in Beginning \cap CiNames /\ ha.lock.by = w => Live(ha) = settled
    /\ prog[w] \in {"ciStart", "rmCapture", "rmRelease"} /\ ha.lock.by = w => Exists(ha.remote)
    /\ prog[w] = "ciStart" /\ Since(prog[w], ip[w], "capture", {}) => snap[w] = Served(ha)
    /\ prog[w] = "ciKeep" => ha.lock.by = w /\ Served(ha) = snap[w]

LEMMA LiveOfServed == ASSUME NEW h PROVE LiveOf(Served(h)) = Live(h)
  BY DEF LiveOf, Served, Live

LEMMA SnapOnlyCaptured ==
  ASSUME TypeOK, NEW w \in Workflow, Acts(w), snap'[w] # snap[w]
  PROVE  At(w, "capture") /\ snap'[w] = Served(ha) /\ ha' = ha
<1>1. Capture(w)
  BY DEF Acts, Step, Leasing, Admit, LockDir, LockOwner, AssertLease, Reconciling, DropRemote, PutBack,
     DropIncoming, Deciding, Plan, Unchanged, VerifyKept, Attempt, Guard, Swapping, Swap, Upload, Park,
     Promote, Mark, Card, Wrapper, Undo, Checking, Verify, Http, Attest, Save, Restored, Finalizing, NoLock,
     Present, DropPrevious, Unmark, UnlinkOwner, RmLock, Crash, Call, Test
<1>2. QED
  BY <1>1, Shapes DEF Capture, Journals

\* The calls of a program that begins leave what production serves alone.
LEMMA BeginningIdle ==
  ASSUME TypeOK, NEW w \in Workflow, Kind(w), prog[w] \in Beginning, ~Exists(ha.previous[w]), Acts(w)
  PROVE  Served(ha') = Served(ha) /\ ha'.previous[w] = ha.previous[w]
<1>1. Running(w) /\ Op(w) \notin {"park", "promote", "card", "wrapper"}
  BY Placed, ActsMoves, BeginningPlaces DEF BeginningAt, Op
<1>2. undo[w] = "none"
  BY <1>1, Shapes DEF Kind, Control
<1>3. /\ ~At(w, "park") /\ ~At(w, "promote") /\ ~At(w, "card") /\ ~At(w, "wrapper")
  BY <1>1 DEF At
<1>4. ASSUME At(w, "dropRemote") \/ At(w, "putBack") \/ At(w, "dropPrevious") PROVE ha' = ha
  <2>1. CASE Crash(w)
    BY <1>4, <2>1, CrashMoves, OneCall DEF Died
  <2>2. CASE Step(w)
    BY <1>4, <2>2, ActionOfCall, TestEffects DEF DropRemote, PutBack, DropPrevious
  <2>3. QED
    BY <2>1, <2>2 DEF Acts
<1>5. QED
  BY <1>2, <1>3, <1>4, ActsEffects DEF Effects, Served

\* A workflow that holds the lease after its step held it before, or took it when it was free.
LEMMA TakenOrHeld ==
  ASSUME TypeOK, NEW w \in Workflow, Leased(w), Acts(w), ha'.lock.by = w
  PROVE  /\ settled' = settled
         /\ ha.lock.by = w \/ (ha.lock.by = NoOne /\ At(w, "lockDir") /\ Served(ha') = Served(ha))
<1>1. settled' = settled
  BY ActsSettle, ProductionConstants DEF Settling
<1>2. CASE ha'.lock # ha.lock
  <2>1. LockEffects(w) /\ Effects(w) /\ Running(w)
    BY ActsEffects, ActsMoves
  <2>2. CASE At(w, "lockDir") /\ ha.lock.by = NoOne
    BY <1>1, <2>1, <2>2, OneCall DEF Effects, At, Served
  <2>3. CASE At(w, "lockOwner") \/ At(w, "rmLock")
    BY <1>1, <2>3 DEF At, Leased
  <2>4. QED
    BY <1>1, <1>2, <2>1, <2>2, <2>3 DEF LockEffects
<1>3. QED
  BY <1>1, <1>2

LEMMA BeginningComesFrom ==
  ASSUME TypeOK, NEW w \in Workflow, Kind(w), Acts(w)
  PROVE  /\ prog'[w] \in Beginning => prog[w] \in Beginning
         /\ prog'[w] \in Beginning \cap CiNames => prog[w] \in Beginning \cap CiNames
         /\ prog'[w] \in {"ciStart", "rmCapture", "rmRelease"} => prog[w] \in {"ciStart", "rmCapture", "rmRelease"}
         /\ prog'[w] = "ciStart" => prog[w] = "ciStart" /\ ip'[w] # 1
         /\ prog'[w] = "ciKeep" => Planned(w) \/ (prog[w] = "ciKeep" /\ ip'[w] # 1)
<1>1. prog[w] \in Names /\ Moves(w) /\ Running(w) /\ ip[w] \in Nat \ {0} /\ ip[w] \in 1..Len(Programs[prog[w]])
  BY Placed, ActsMoves
<1>2. CASE prog'[w] = AfterSuccess[prog[w]]
  BY <1>1, <1>2 DEF AfterSuccess, Names, Beginning, CiNames
<1>3. CASE prog'[w] = AfterError(prog[w], ip[w])
  BY <1>1, <1>3 DEF AfterError, Names, Beginning, CiNames
<1>4. CASE Planned(w)
  <2>1. prog[w] = "ciStart"
    BY <1>1, <1>4, OnlyThere DEF Planned, At, Op, OnlyAt
  <2>2. QED
    BY <1>4, <2>1 DEF Planned, Beginning, CiNames
<1>5. CASE Died(w)
  <2>1. CASE w \in CI
    BY <1>5, <2>1 DEF Died, Beginning, CiNames
  <2>2. CASE w \notin CI
    <3>1. prog[w] \notin CiNames /\ prog'[w] \in AfterCrash(prog[w])
      BY <1>5, <2>2 DEF Kind, Died
    <3>2. QED
      BY <1>1, <3>1 DEF AfterCrash, AfterError, Names, Beginning, CiNames
  <2>3. QED
    BY <2>1, <2>2
<1>6. CASE prog'[w] = prog[w] /\ ip'[w] # 1
  BY <1>6
<1>7. CASE Pending(w)
  <2>1. ip[w] # 1
    <3>1. Op(w) \notin Unasserted
      BY <1>7 DEF Pending, At, Unasserted
    <3>2. Since(prog[w], ip[w], "assert", Releasing)
      BY <1>1, <3>1, AssertedFirst DEF AssertedAt, Op
    <3>3. QED
      BY <3>2, SinceNothing
  <2>2. QED
    BY <1>6, <1>7, <2>1 DEF Pending
<1>8. QED
  BY <1>1, <1>2, <1>3, <1>4, <1>5, <1>6, <1>7 DEF Moves, Advanced, Follows, Thrown, Exited

LEMMA EarlyKept ==
  ASSUME TypeOK, NEW w \in Workflow, Kind(w), Leased(w), Vacant, Early(w), Acts(w)
  PROVE  Early(w)'
<1>1. Running(w) /\ prog[w] \in Names /\ ip[w] \in 1..Len(Programs[prog[w]]) /\ ip[w] \in Nat \ {0}
  BY Placed, ActsMoves
<1>2. ASSUME prog[w] \in Beginning
      PROVE  Served(ha') = Served(ha) /\ ha'.previous[w] = ha.previous[w] /\ Live(ha') = Live(ha)
  BY <1>2, BeginningIdle DEF Early, Served, Live
<1>3. ASSUME prog'[w] \in Beginning PROVE ~Exists(ha'.previous[w])
  BY <1>2, <1>3, BeginningComesFrom DEF Early
<1>4. ASSUME prog'[w] \in Beginning \cap CiNames, ha'.lock.by = w PROVE Live(ha') = settled'
  BY <1>2, <1>4, BeginningComesFrom, TakenOrHeld DEF Early, Vacant
<1>5. ASSUME prog'[w] \in {"ciStart", "rmCapture", "rmRelease"}, ha'.lock.by = w PROVE Exists(ha'.remote)
  <2>1. prog[w] \in {"ciStart", "rmCapture", "rmRelease"} /\ ha'.remote = ha.remote
    BY <1>2, <1>5, BeginningComesFrom DEF Served, Beginning
  <2>2. QED
    BY <1>5, <2>1, TakenOrHeld DEF Early, Vacant
<1>6. ASSUME prog'[w] = "ciStart", Since("ciStart", ip'[w], "capture", {}) PROVE snap'[w] = Served(ha')
  <2>1. prog[w] = "ciStart" /\ ip'[w] # 1
    BY <1>6, BeginningComesFrom
  <2>2. Served(ha') = Served(ha)
    BY <1>2, <2>1 DEF Beginning
  <2>3. CASE snap'[w] # snap[w]
    BY <2>2, <2>3, SnapOnlyCaptured
  <2>4. CASE snap'[w] = snap[w] /\ Since("ciStart", ip[w], "capture", {})
    BY <2>1, <2>2, <2>4 DEF Early
  <2>5. CASE snap'[w] = snap[w] /\ ~Since("ciStart", ip[w], "capture", {})
    <3>1. /\ Running(w)' /\ undo'[w] = "none"
      <4>1. Running(w)'
        BY <1>6, NamesOfPrograms DEF Running, Names
      <4>2. Moves(w)
        BY ActsMoves
      <4>3. Pending(w) => ip'[w] = ip[w]
        BY DEF Pending
      <4>4. undo'[w] = "none"
        BY <1>6, <2>5, <4>2, <4>3 DEF Moves, Advanced, Thrown, Pending, Planned, Exited, Died
      <4>5. QED
        BY <4>1, <4>4
    <3>2. ip'[w] = ip[w] + 1 /\ Done(w) /\ Step(w) /\ At(w, Op(w))
      BY <2>1, <3>1, GoesOn
    <3>3. Op(w) = "capture"
      BY <1>1, <1>6, <2>1, <2>5, <3>2, SinceNext DEF Op
    <3>4. Capture(w)
      BY <3>2, <3>3, ActionOfCall
    <3>5. CASE Throw(w)
      BY <2>1, <3>5, GotoMoves DEF Throw
    <3>6. CASE ~Throw(w)
      BY <2>2, <3>4, <3>6, Shapes DEF Capture, Journals
    <3>7. QED
      BY <3>5, <3>6
  <2>6. QED
    BY <2>3, <2>4, <2>5
<1>7. ASSUME prog'[w] = "ciKeep" PROVE ha'.lock.by = w /\ Served(ha') = snap'[w]
  <2>1. CASE Planned(w)
    <3>1. prog[w] = "ciStart" /\ Since(prog[w], ip[w], "capture", {}) /\ Op(w) = "plan"
      BY <1>1, <2>1, OnlyThere, BeginningPlaces DEF Planned, At, Op, OnlyAt, BeginningAt
    <3>2. Holds(w)
      BY <1>1, <3>1, AssertedHolds DEF Unasserted
    <3>3. snap'[w] = snap[w]
      BY <2>1, SnapOnlyCaptured, OneCall DEF Planned
    <3>4. QED
      BY <2>1, <3>1, <3>2, <3>3 DEF Planned, Early, Holds
  <2>2. CASE prog[w] = "ciKeep" /\ ip'[w] # 1
    <3>1. Served(ha') = Served(ha) /\ Served(ha) = snap[w] /\ ha.lock.by = w
      BY <1>2, <2>2 DEF Early, Beginning
    <3>2. snap'[w] = snap[w]
      BY <3>1, SnapOnlyCaptured
    <3>3. ~At(w, "rmLock")
      <4>1. ASSUME At(w, "rmLock") PROVE ip[w] = Len(Programs[prog[w]])
        BY <1>1, <4>1, BeginningPlaces DEF BeginningAt, At, Op
      <4>2. ASSUME ip[w] = Len(Programs[prog[w]]), At(w, "rmLock") PROVE ip'[w] = 1
        BY <4>2, ActsMoves, OneCall DEF Moves, Advanced, Follows, Thrown, Pending, Planned, Exited, Died
      <4>3. QED
        BY <2>2, <4>1, <4>2
    <3>4. ha'.lock.by = w
      BY <3>1, <3>3, ActsEffects, ProductionConstants DEF LockEffects
    <3>5. QED
      BY <3>1, <3>2, <3>4
  <2>3. QED
    BY <1>7, <2>1, <2>2, BeginningComesFrom
<1>8. QED
  BY <1>3, <1>4, <1>5, <1>6, <1>7 DEF Early

LEMMA UndisturbedEarly ==
  ASSUME NEW v \in Workflow, TypeOK, Leased(v), Undisturbed(v), Early(v)
  PROVE  Early(v)'
<1>1. ha.lock.by = v => Served(ha') = Served(ha) /\ ha'.remote = ha.remote /\ Live(ha') = Live(ha)
  BY DEF Undisturbed, Served, Live
<1>2. ASSUME prog[v] = "ciStart", Since(prog[v], ip[v], "capture", {}) PROVE ha.lock.by = v
  <2>1. PICK j \in 1..(ip[v] - 1) : Programs["ciStart"][j] = "capture"
    BY <1>2 DEF Since
  <2>2. Running(v) /\ ip[v] \in 1..10 /\ j = 9 /\ ip[v] = 10
    <3>1. Running(v)
      BY <1>2, NamesOfPrograms DEF Running, Names
    <3>2. ip[v] \in 1..Len(Programs["ciStart"])
      BY <1>2, <3>1, Placed
    <3>3. QED
      BY <2>1, <3>1, <3>2, CiStartReads DEF Reads
  <2>3. Op(v) = "plan"
    BY <1>2, <2>2, CiStartReads DEF Reads, Op
  <2>4. QED
    BY <2>2, <2>3, AssertedHolds DEF Unasserted, Holds
<1>3. QED
  BY <1>1, <1>2 DEF Undisturbed, Untouched, Early

LEMMA VacantKept ==
  ASSUME TypeOK, NEW w \in Workflow, Kind(w), Leased(w), Recent(w), Early(w), Vacant, Acts(w)
  PROVE  Vacant'
<1> SUFFICES ASSUME ha'.lock.by = NoOne PROVE settled' = Live(ha') /\ Exists(ha'.remote)
  BY DEF Vacant
<1>1. CASE ha.lock.by = NoOne
  <2>1. Served(ha') = Served(ha)
    BY <1>1, ServedByHolder, ProductionConstants DEF Holds
  <2>2. QED
    BY <1>1, <2>1, ActsSettle DEF Vacant, Settling, Served, Live
<1>2. CASE ha.lock.by # NoOne
  <2>1. settled' = Live(ha')
    BY <1>2, ActsSettle DEF Settling
  <2>2. Running(w) /\ prog[w] \in Names /\ ip[w] \in 1..Len(Programs[prog[w]])
    BY Placed, ActsMoves
  <2>3. At(w, "rmLock") /\ ha' = [ha EXCEPT !.lock = ha'.lock] /\ ha.lock.by = w
    <3>1. At(w, "rmLock")
      BY <1>2, ActsEffects, ProductionConstants DEF LockEffects
    <3>2. ha.lock.by = w
      BY <2>2, <3>1 DEF At, Leased
    <3>3. CASE Step(w)
      BY <3>1, <3>2, <3>3, ActionOfCall, Shapes DEF RmLock, Call, Host
    <3>4. CASE Crash(w)
      BY <3>1, <3>2, <3>4, CrashMoves, Shapes DEF Died, Host
    <3>5. QED
      BY <3>1, <3>2, <3>3, <3>4 DEF Acts
  <2>4. ha'.remote = ha.remote
    BY <2>3, ActsEffects, OneCall DEF Effects, At
  <2>5. Exists(ha.remote)
    <3>1. CASE prog[w] = "rmRelease"
      BY <2>3, <3>1 DEF Early
    <3>2. CASE prog[w] # "rmRelease"
      BY <2>2, <2>3, <3>2, BeginningPlaces DEF BeginningAt, Recent, Left, At, Op
    <3>3. QED
      BY <3>1, <3>2
  <2>6. QED
    BY <2>1, <2>4, <2>5
<1>3. QED
  BY <1>1, <1>2

-----------------------------------------------------------------------------
(* What was decided, captured and verified.                                *)
FinalCalls == Len(FinalizeRelease)

LEMMA FinalLength == FinalCalls = 12
  BY DEF FinalCalls, FinalizeRelease, Reconcile

Swappers == {"ciDeploy", "rmDeploy", "rmVerify", "rmRollback"}

\* A retained directory goes only at the end, and a swap begins where nothing is retained.
SwapAt(p, i) ==
    /\ Programs[p][i] = "dropPrevious" /\ p \in Swappers => p = "ciDeploy" /\ i > Len(Programs[p]) - 12
    /\ Programs[p][i] = "park" => Since(p, i, "dropRemote", {"promote", "unmark"})
    /\ Programs[p][i] = "promote" => Since(p, i, "park", {"promote", "putBack", "unmark"})
    /\ p = "rmCapture" /\ i = Len(Programs[p]) => Programs[p][i] = "capture"
    /\ p \in {"rmCapture", "rmDeploy", "rmVerify"} => Programs[p][i] # "noLock"

LEMMA SwapPlaces ==
  \A p \in Names : \A i \in 1..Len(Programs[p]) : SwapAt(p, i)
<1>1. \A i \in 1..Len(Programs["ciStart"]) : SwapAt("ciStart", i)
  BY CiStartReads DEF Reads, SwapAt, Swappers, Since
<1>2. \A i \in 1..Len(Programs["ciKeep"]) : SwapAt("ciKeep", i)
  BY CiKeepReads DEF Reads, SwapAt, Swappers, Since
<1>3. \A i \in 1..Len(Programs["ciDeploy"]) : SwapAt("ciDeploy", i)
  BY CiDeployReads DEF Reads, SwapAt, Swappers, Since
<1>4. \A i \in 1..Len(Programs["ciAbort"]) : SwapAt("ciAbort", i)
  BY CiAbortReads DEF Reads, SwapAt, Swappers, Since
<1>5. \A i \in 1..Len(Programs["ciRollback"]) : SwapAt("ciRollback", i)
  BY CiRollbackReads DEF Reads, SwapAt, Swappers, Since
<1>6. \A i \in 1..Len(Programs["rmCapture"]) : SwapAt("rmCapture", i)
  BY RmCaptureReads DEF Reads, SwapAt, Swappers, Since
<1>7. \A i \in 1..Len(Programs["rmRelease"]) : SwapAt("rmRelease", i)
  BY RmReleaseReads DEF Reads, SwapAt, Swappers, Since
<1>8. \A i \in 1..Len(Programs["rmDeploy"]) : SwapAt("rmDeploy", i)
  BY RmDeployReads DEF Reads, SwapAt, Swappers, Since
<1>9. \A i \in 1..Len(Programs["rmVerify"]) : SwapAt("rmVerify", i)
  BY RmVerifyReads DEF Reads, SwapAt, Swappers, Since
<1>10. \A i \in 1..Len(Programs["rmRollback"]) : SwapAt("rmRollback", i)
  BY RmRollbackReads DEF Reads, SwapAt, Swappers, Since
<1>11. \A i \in 1..Len(Programs["rmVerifyRollback"]) : SwapAt("rmVerifyRollback", i)
  BY RmVerifyRollbackReads DEF Reads, SwapAt, Swappers, Since
<1>12. \A i \in 1..Len(Programs["rmAccept"]) : SwapAt("rmAccept", i)
  BY RmAcceptReads DEF Reads, SwapAt, Swappers, Since
<1>13. \A i \in 1..Len(Programs["rmReject"]) : SwapAt("rmReject", i)
  BY RmRejectReads DEF Reads, SwapAt, Swappers, Since
<1>14. \A i \in 1..Len(Programs["rmGiveUp"]) : SwapAt("rmGiveUp", i)
  BY RmGiveUpReads DEF Reads, SwapAt, Swappers, Since
<1>15. QED
  BY <1>1, <1>2, <1>3, <1>4, <1>5, <1>6, <1>7, <1>8, <1>9, <1>10, <1>11, <1>12, <1>13, <1>14 DEF Names

Rewriting == {"park", "promote", "card", "wrapper"}

\* What was verified is not rewritten, and the mark goes after the retained directory.
VerifiedAt(p, i) ==
    /\ p = "ciDeploy" /\ Since(p, i, "verify", {}) => Programs[p][i] \notin Rewriting
    /\ p = "ciDeploy" /\ Programs[p][i] = "verify" => Since(p, i, "mark", {"unmark", "putBack"})
    /\ Programs[p][i] = "save" =>
          /\ p = "rmDeploy" /\ Since(p, i, "mark", {"unmark", "putBack"})
          /\ Since(p, i, "card", {}) /\ Since(p, i, "wrapper", {})
    /\ p = "rmDeploy" /\ i = Len(Programs[p]) => Programs[p][i] = "save"
    /\ p = "rmVerify" => Programs[p][i] \in {"assert", "verify", "attest"}
    /\ p = "rmVerify" /\ i = Len(Programs[p]) => Programs[p][i] = "attest" /\ Since(p, i, "verify", {})
    /\ p = "rmAccept" => Programs[p][i] \notin Rewriting

LEMMA VerifiedPlaces ==
  \A p \in Names : \A i \in 1..Len(Programs[p]) : VerifiedAt(p, i)
<1>1. \A i \in 1..Len(Programs["ciStart"]) : VerifiedAt("ciStart", i)
  BY CiStartReads DEF Reads, VerifiedAt, Rewriting, Since
<1>2. \A i \in 1..Len(Programs["ciKeep"]) : VerifiedAt("ciKeep", i)
  BY CiKeepReads DEF Reads, VerifiedAt, Rewriting, Since
<1>3. \A i \in 1..Len(Programs["ciDeploy"]) : VerifiedAt("ciDeploy", i)
  BY CiDeployReads DEF Reads, VerifiedAt, Rewriting, Since
<1>4. \A i \in 1..Len(Programs["ciAbort"]) : VerifiedAt("ciAbort", i)
  BY CiAbortReads DEF Reads, VerifiedAt, Rewriting, Since
<1>5. \A i \in 1..Len(Programs["ciRollback"]) : VerifiedAt("ciRollback", i)
  BY CiRollbackReads DEF Reads, VerifiedAt, Rewriting, Since
<1>6. \A i \in 1..Len(Programs["rmCapture"]) : VerifiedAt("rmCapture", i)
  BY RmCaptureReads DEF Reads, VerifiedAt, Rewriting, Since
<1>7. \A i \in 1..Len(Programs["rmRelease"]) : VerifiedAt("rmRelease", i)
  BY RmReleaseReads DEF Reads, VerifiedAt, Rewriting, Since
<1>8. \A i \in 1..Len(Programs["rmDeploy"]) : VerifiedAt("rmDeploy", i)
  BY RmDeployReads DEF Reads, VerifiedAt, Rewriting, Since
<1>9. \A i \in 1..Len(Programs["rmVerify"]) : VerifiedAt("rmVerify", i)
  BY RmVerifyReads DEF Reads, VerifiedAt, Rewriting, Since
<1>10. \A i \in 1..Len(Programs["rmRollback"]) : VerifiedAt("rmRollback", i)
  BY RmRollbackReads DEF Reads, VerifiedAt, Rewriting, Since
<1>11. \A i \in 1..Len(Programs["rmVerifyRollback"]) : VerifiedAt("rmVerifyRollback", i)
  BY RmVerifyRollbackReads DEF Reads, VerifiedAt, Rewriting, Since
<1>12. \A i \in 1..Len(Programs["rmAccept"]) : VerifiedAt("rmAccept", i)
  BY RmAcceptReads DEF Reads, VerifiedAt, Rewriting, Since
<1>13. \A i \in 1..Len(Programs["rmReject"]) : VerifiedAt("rmReject", i)
  BY RmRejectReads DEF Reads, VerifiedAt, Rewriting, Since
<1>14. \A i \in 1..Len(Programs["rmGiveUp"]) : VerifiedAt("rmGiveUp", i)
  BY RmGiveUpReads DEF Reads, VerifiedAt, Rewriting, Since
<1>15. QED
  BY <1>1, <1>2, <1>3, <1>4, <1>5, <1>6, <1>7, <1>8, <1>9, <1>10, <1>11, <1>12, <1>13, <1>14 DEF Names

\* A rollback swaps once and judges what it restored before it finalizes.
RestoredAt(p, i) ==
    /\ Programs[p][i] = "unmark" =>
          \/ Since(p, i, "dropPrevious", {"park"})
          \/ p \in {"ciRollback", "rmRollback"} /\ ~Since(p, i, "mark", {})
    /\ p = "ciRollback" =>
          /\ Len(Programs[p]) > 13
          /\ Since(p, i, "mark", {}) => Programs[p][i] \notin {"park", "promote"}
          /\ i > Len(Programs[p]) - 12 => Since(p, i, "mark", {}) /\ Programs[p][i] \notin Rewriting
          /\ i = Len(Programs[p]) - 12 =>
                Programs[p][i] = "restored" /\ Since(p, i, "putBack", {"park", "promote", "dropRemote"})
          /\ Programs[p][i] = "noLock" => Since(p, i, "assert", Releasing)
          /\ Programs[p][i] = "rmLock" => i > Len(Programs[p]) - 12
    /\ p = "ciDeploy" /\ Programs[p][i] = "rmLock" => Since(p, i, "verify", {})
    /\ p \in {"ciKeep", "ciDeploy", "ciRollback", "rmAccept"} /\ i = Len(Programs[p]) => Programs[p][i] = "rmLock"
    /\ p \in {"ciStart", "rmCapture"} => Programs[p][i] # "rmLock"

LEMMA RestoredPlaces ==
  \A p \in Names : \A i \in 1..Len(Programs[p]) : RestoredAt(p, i)
<1>1. \A i \in 1..Len(Programs["ciStart"]) : RestoredAt("ciStart", i)
  BY CiStartReads DEF Reads, RestoredAt, Rewriting, Releasing, Since
<1>2. \A i \in 1..Len(Programs["ciKeep"]) : RestoredAt("ciKeep", i)
  BY CiKeepReads DEF Reads, RestoredAt, Rewriting, Releasing, Since
<1>3. \A i \in 1..Len(Programs["ciDeploy"]) : RestoredAt("ciDeploy", i)
  BY CiDeployReads DEF Reads, RestoredAt, Rewriting, Releasing, Since
<1>4. \A i \in 1..Len(Programs["ciAbort"]) : RestoredAt("ciAbort", i)
  BY CiAbortReads DEF Reads, RestoredAt, Rewriting, Releasing, Since
<1>5. \A i \in 1..Len(Programs["ciRollback"]) : RestoredAt("ciRollback", i)
  BY CiRollbackReads DEF Reads, RestoredAt, Rewriting, Releasing, Since
<1>6. \A i \in 1..Len(Programs["rmCapture"]) : RestoredAt("rmCapture", i)
  BY RmCaptureReads DEF Reads, RestoredAt, Rewriting, Releasing, Since
<1>7. \A i \in 1..Len(Programs["rmRelease"]) : RestoredAt("rmRelease", i)
  BY RmReleaseReads DEF Reads, RestoredAt, Rewriting, Releasing, Since
<1>8. \A i \in 1..Len(Programs["rmDeploy"]) : RestoredAt("rmDeploy", i)
  BY RmDeployReads DEF Reads, RestoredAt, Rewriting, Releasing, Since
<1>9. \A i \in 1..Len(Programs["rmVerify"]) : RestoredAt("rmVerify", i)
  BY RmVerifyReads DEF Reads, RestoredAt, Rewriting, Releasing, Since
<1>10. \A i \in 1..Len(Programs["rmRollback"]) : RestoredAt("rmRollback", i)
  BY RmRollbackReads DEF Reads, RestoredAt, Rewriting, Releasing, Since
<1>11. \A i \in 1..Len(Programs["rmVerifyRollback"]) : RestoredAt("rmVerifyRollback", i)
  BY RmVerifyRollbackReads DEF Reads, RestoredAt, Rewriting, Releasing, Since
<1>12. \A i \in 1..Len(Programs["rmAccept"]) : RestoredAt("rmAccept", i)
  BY RmAcceptReads DEF Reads, RestoredAt, Rewriting, Releasing, Since
<1>13. \A i \in 1..Len(Programs["rmReject"]) : RestoredAt("rmReject", i)
  BY RmRejectReads DEF Reads, RestoredAt, Rewriting, Releasing, Since
<1>14. \A i \in 1..Len(Programs["rmGiveUp"]) : RestoredAt("rmGiveUp", i)
  BY RmGiveUpReads DEF Reads, RestoredAt, Rewriting, Releasing, Since
<1>15. QED
  BY <1>1, <1>2, <1>3, <1>4, <1>5, <1>6, <1>7, <1>8, <1>9, <1>10, <1>11, <1>12, <1>13, <1>14 DEF Names

\* What an automatic deployment decided stays true, and it writes the wrapper's URL between two commits.
Decided(w) ==
    /\ prog[w] = "ciDeploy" => ha.lock.by = w
    /\ prog[w] \in {"ciDeploy", "ciRollback"} /\ ha.lock.by = w =>
          settled = LiveOf(snap[w]) /\ settled <= Candidate[w]
    /\ prog[w] \in {"ciDeploy", "ciRollback"} => Between(w) = {}
    /\ prog[w] \in {"ciDeploy", "ciRollback"} /\ ha.lock.by = w => ha.wrapper \in {Deployed(w), Candidate[w]}

\* The captured directory is there, served or retained.
Deploying(w) ==
    \/ prog[w] = "ciDeploy" /\ ~Finalized(w)
    \/ prog[w] \in {"rmDeploy", "rmVerify", "rmRollback"} /\ snap[w] # NoCapture

Kept(w) ==
    /\ Exists(Files(w))
    /\ Exists(ha.previous[w]) => ha.previous[w] = Files(w)
    /\ Files(w) \in {ha.remote, ha.previous[w]}

Retained(w) == Deploying(w) /\ ha.lock.by = w => Kept(w)

\* A lease taken stays until the program that holds it ends.
LEMMA StillHeld ==
  ASSUME TypeOK, NEW w \in Workflow, Acts(w), ha.lock.by = w, ip'[w] # 1
  PROVE  ha'.lock.by = w
<1>1. Running(w) /\ prog[w] \in Names /\ ip[w] \in 1..Len(Programs[prog[w]])
  BY Placed, ActsMoves
<1>2. ASSUME At(w, "rmLock") PROVE FALSE
  <2>1. ip[w] = Len(Programs[prog[w]])
    BY <1>1, <1>2, BeginningPlaces DEF BeginningAt, At, Op
  <2>2. ~Pending(w) /\ ~Planned(w)
    BY <1>2, OneCall DEF Pending, Planned
  <2>3. QED
    BY <2>1, <2>2, ActsMoves DEF Moves, Advanced, Follows, Thrown, Exited, Died
<1>3. QED
  BY <1>2, ActsEffects, ProductionConstants DEF LockEffects

\* Past its capture a program takes no lease and captures nothing.
LEMMA SwapsUnderLease ==
  ASSUME TypeOK, NEW w \in Workflow, Leased(w), Acts(w), prog[w] \notin {"ciStart", "rmCapture"}
  PROVE  /\ snap'[w] = snap[w]
         /\ ha'.lock.by = w => ha.lock.by = w /\ settled' = settled
<1>1. ~At(w, "capture") /\ ~At(w, "lockDir")
  BY Placed, OnlyThere DEF At, Op, OnlyAt
<1>2. QED
  BY <1>1, SnapOnlyCaptured, TakenOrHeld

LEMMA LaterPrograms ==
  ASSUME TypeOK, NEW w \in Workflow, Kind(w), Acts(w)
  PROVE  /\ prog'[w] = "ciDeploy" => Planned(w) \/ (prog[w] = "ciDeploy" /\ ip'[w] # 1)
         /\ prog'[w] = "ciRollback" => prog[w] \in {"ciDeploy", "ciRollback"}
         /\ prog'[w] = "ciRollback" /\ ip'[w] # 1 => prog[w] = "ciRollback"
         /\ prog'[w] = "deployed" => prog[w] = "ciDeploy"
         /\ prog'[w] = "rmDeploy" => prog[w] = "rmDeploy" \/ (prog[w] = "rmCapture" /\ Advanced(w) /\ Done(w))
         /\ prog'[w] = "rmVerify" => prog[w] = "rmVerify" \/ (prog[w] = "rmDeploy" /\ Advanced(w) /\ Done(w))
         /\ prog'[w] = "rmRollback" => prog[w] \in {"rmDeploy", "rmVerify", "rmRollback"}
         /\ prog'[w] = "rmAccept" => prog[w] = "rmAccept" \/ (prog[w] = "rmVerify" /\ Advanced(w) /\ Done(w))
<1>1. prog[w] \in Names /\ Moves(w) /\ Running(w) /\ ip[w] \in Nat \ {0} /\ ip[w] \in 1..Len(Programs[prog[w]])
  BY Placed, ActsMoves
<1>2. CASE Advanced(w) /\ prog'[w] = AfterSuccess[prog[w]] /\ ~Thrown(w)
  BY <1>1, <1>2 DEF AfterSuccess, Names, Done, Advanced
<1>3. CASE Exited(w)
  <2>1. prog[w] \notin {"rmDeploy", "rmCapture", "rmVerify"}
    BY <1>1, <1>3, SwapPlaces DEF SwapAt, Exited, At, Op
  <2>2. QED
    BY <1>1, <1>3, <2>1 DEF AfterSuccess, Names, Exited
<1>4. CASE Thrown(w)
  BY <1>1, <1>4 DEF Thrown, AfterError, Names
<1>5. CASE Planned(w)
  BY <1>5 DEF Planned
<1>6. CASE Died(w)
  <2>1. CASE w \in CI
    BY <1>6, <2>1 DEF Died
  <2>2. CASE w \notin CI
    <3>1. prog[w] \notin CiNames /\ prog'[w] \in AfterCrash(prog[w])
      BY <1>6, <2>2 DEF Kind, Died
    <3>2. QED
      BY <1>1, <3>1 DEF AfterCrash, AfterError, Names, CiNames
  <2>3. QED
    BY <2>1, <2>2
<1>7. CASE prog'[w] = prog[w] /\ ip'[w] # 1
  BY <1>1, <1>7 DEF Names
<1>8. CASE Pending(w)
  <2>1. ip[w] # 1
    <3>1. Op(w) \notin Unasserted
      BY <1>8 DEF Pending, At, Unasserted
    <3>2. Since(prog[w], ip[w], "assert", Releasing)
      BY <1>1, <3>1, AssertedFirst DEF AssertedAt, Op
    <3>3. QED
      BY <3>2, SinceNothing
  <2>2. QED
    BY <1>7, <1>8, <2>1 DEF Pending
<1>9. QED
  BY <1>1, <1>2, <1>3, <1>4, <1>5, <1>6, <1>7, <1>8 DEF Moves, Advanced, Follows

\* The plan is made under the lease, over what was captured.
LEMMA PlannedUnderLease ==
  ASSUME TypeOK, NEW w \in Workflow, Kind(w), Leased(w), Early(w), Acts(w), Planned(w)
  PROVE  /\ prog[w] = "ciStart" /\ ha.lock.by = w /\ ha' = ha /\ settled' = settled
         /\ snap[w] = Served(ha) /\ snap'[w] = snap[w] /\ Live(ha) = settled /\ Exists(ha.remote)
<1>1. Running(w) /\ prog[w] \in Names /\ ip[w] \in 1..Len(Programs[prog[w]]) /\ Op(w) = "plan" /\ ha' = ha
  BY Placed, ActsMoves DEF Planned, At
<1>2. prog[w] = "ciStart" /\ Since(prog[w], ip[w], "capture", {})
  BY <1>1, OnlyThere, BeginningPlaces DEF Op, OnlyAt, BeginningAt
<1>3. ha.lock.by = w
  BY <1>1, AssertedHolds DEF Unasserted, Holds
<1>4. settled' = settled
  BY <1>1, <1>3, TakenOrHeld
<1>5. snap'[w] = snap[w]
  BY SnapOnlyCaptured, OneCall DEF Planned
<1>6. QED
  BY <1>1, <1>2, <1>3, <1>4, <1>5 DEF Early, Beginning, CiNames

LEMMA WrapperWritten ==
  ASSUME TypeOK, NEW w \in Workflow, Acts(w)
  PROVE  ha'.wrapper \in {ha.wrapper, Deployed(w), Candidate[w]}
<1>1. CASE ha'.wrapper = ha.wrapper
  BY <1>1
<1>2. CASE ha'.wrapper # ha.wrapper
  <2>1. At(w, "wrapper")
    BY <1>2, ActsEffects DEF Effects
  <2>2. ~Crash(w)
    BY <1>2, <2>1, CrashMoves, OneCall DEF Died
  <2>3. Wrapper(w)
    BY <2>1, <2>2, ActionOfCall DEF Acts
  <2>4. ha' = [ha EXCEPT !.wrapper = WrapperUrl(w)]
    BY <1>2, <2>3 DEF Wrapper, Call
  <2>5. QED
    BY <2>4, Shapes DEF Host, WrapperUrl, Deployed
<1>3. QED
  BY <1>1, <1>2

LEMMA DecidedKept ==
  ASSUME TypeOK, NEW w \in Workflow, Kind(w), Leased(w), Early(w), Decided(w), Acts(w)
  PROVE  Decided(w)'
<1>1. ASSUME Planned(w), prog'[w] = "ciDeploy" PROVE Decided(w)'
  <2>1. /\ ha.lock.by = w /\ ha' = ha /\ settled' = settled
        /\ snap[w] = Served(ha) /\ snap'[w] = snap[w] /\ Live(ha) = settled
    BY <1>1, PlannedUnderLease
  <2>2. ~Refused(w) /\ ForwardNeeded(w)
    <3>1. Plan(w)
      <4>1. Step(w)
        <5>1. w \in CI
          BY <1>1, PlannedUnderLease DEF Kind, CiNames
        <5>2. QED
          BY <1>1, <5>1, CrashMoves DEF Acts, Died
      <4>2. QED
        BY <1>1, <4>1, ActionOfCall DEF Planned
    <3>2. QED
      BY <1>1, <3>1, GotoMoves DEF Plan
  <2>3. Between(w) = {}
    BY <2>2 DEF Refused
  <2>4. settled = LiveOf(snap[w])
    BY <2>1, LiveOfServed
  <2>5. settled <= Candidate[w]
    <3>1. settled \in {0, Deployed(w)}
      BY <2>4 DEF LiveOf, Deployed
    <3>2. Deployed(w) \in Nat /\ Candidate[w] \in Nat
      BY Shapes, ProductionConstants DEF Journals, Captures, Deployed
    <3>3. QED
      BY <2>2, <3>1, <3>2 DEF ForwardNeeded
  <2>6. Between(w)' = {}
    BY <2>1, <2>3 DEF Between, Deployed
  <2>7. ha'.wrapper = Deployed(w)' /\ Candidate[w]' = Candidate[w]
    BY <2>1 DEF Served, Deployed
  <2>8. QED
    BY <1>1, <2>1, <2>4, <2>5, <2>6, <2>7 DEF Decided
<1>2. ASSUME prog[w] \in {"ciDeploy", "ciRollback"} PROVE Decided(w)'
  <2>1. snap'[w] = snap[w] /\ (ha'.lock.by = w => ha.lock.by = w /\ settled' = settled)
    BY <1>2, SwapsUnderLease
  <2>2. prog'[w] = "ciDeploy" => ha'.lock.by = w
    BY <1>2, LaterPrograms, PlannedUnderLease, StillHeld DEF Decided
  <2>3. Deployed(w)' = Deployed(w) /\ Between(w)' = {}
    BY <1>2, <2>1 DEF Decided, Between, Deployed
  <2>4. ha'.lock.by = w => ha'.wrapper \in {Deployed(w), Candidate[w]}
    BY <1>2, <2>1, WrapperWritten DEF Decided
  <2>5. QED
    BY <1>2, <2>1, <2>2, <2>3, <2>4 DEF Decided
<1>3. CASE prog'[w] \notin {"ciDeploy", "ciRollback"}
  BY <1>3 DEF Decided
<1>4. QED
  BY <1>1, <1>2, <1>3, LaterPrograms

\* Whatever a call of a swap does or fails to do, the captured directory stays.
LEMMA SwapKeeps ==
  ASSUME TypeOK, NEW w \in Workflow, Kind(w), Recent(w), Kept(w), ha.lock.by = w, Acts(w),
         prog[w] \in Swappers, prog[w] = "ciDeploy" => ~Finalized(w), snap'[w] = snap[w]
  PROVE  Kept(w)'
<1> DEFINE p == prog[w]
           i == ip[w]
<1>1. Running(w) /\ p \in Names /\ i \in 1..Len(Programs[p]) /\ Effects(w)
  BY Placed, ActsMoves, ActsEffects
<1>2. Files(w)' = Files(w)
  BY DEF Files
<1>3. ~Exists(Absent)
  BY DEF Exists, Absent
<1>4. CASE ha'.remote = ha.remote /\ ha'.previous[w] = ha.previous[w]
  BY <1>2, <1>4 DEF Kept
<1>5. CASE undo[w] = "unpark"
  <2>1. CASE Undo(w)
    <3>1. CASE ~Exists(ha.remote) /\ Exists(ha.previous[w]) /\ ha' # ha
      <4>1. ha' = [ha EXCEPT !.remote = ha.previous[w], !.previous[w] = Absent]
        BY <1>5, <2>1, <3>1 DEF Undo
      <4>2. ha'.remote = ha.previous[w] /\ ha'.previous[w] = Absent
        BY <4>1, Shapes DEF Host
      <4>3. QED
        BY <1>2, <1>3, <3>1, <4>2 DEF Kept
    <3>2. CASE ha' = ha
      BY <1>4, <3>2
    <3>3. QED
      BY <1>5, <2>1, <3>1, <3>2 DEF Undo
  <2>2. CASE ~Undo(w)
    <3>1. Crash(w)
      BY <1>5, <2>2, CallOfAction DEF Acts, Step, Leasing, Reconciling, Deciding, Swapping, Checking, Finalizing, At
    <3>2. ha' = ha
      BY <1>5, <3>1, CrashMoves DEF Died, At
    <3>3. QED
      BY <1>4, <3>2
  <2>3. QED
    BY <2>1, <2>2
<1>6. ASSUME ha'.remote # ha.remote \/ ha'.previous[w] # ha.previous[w], undo[w] # "unpark"
      PROVE  Kept(w)'
  <2>1. /\ undo[w] = "none" /\ At(w, Op(w)) /\ Op(w) \in {"dropRemote", "putBack", "park", "promote", "dropPrevious"}
    BY <1>1, <1>6 DEF Effects, At
  <2>2. Left(w) /\ SwapAt(p, i) /\ Op(w) = Programs[p][i]
    BY <1>1, <2>1, SwapPlaces DEF Recent, Op
  <2>3. Op(w) # "dropPrevious"
    BY <1>1, <2>2, FinalLength DEF SwapAt, Finalized, FinalCalls
  <2>4. Step(w)
    BY <1>6, <2>1, CrashMoves, OneCall DEF Acts, Died
  <2>5. CASE Op(w) = "dropRemote"
    <3>1. DropRemote(w)
      BY <2>1, <2>4, <2>5, ActionOfCall
    <3>2. Exists(ha.previous[w])
      BY <1>6, <3>1, TestEffects DEF DropRemote
    <3>3. ha'.previous[w] = ha.previous[w]
      BY <1>1, <2>1, <2>5, OneCall DEF Effects
    <3>4. QED
      BY <1>2, <3>2, <3>3 DEF Kept
  <2>6. CASE Op(w) = "putBack"
    <3>1. PutBack(w)
      BY <2>1, <2>4, <2>6, ActionOfCall
    <3>2. Exists(ha.previous[w]) /\ ha' # ha
      BY <1>6, <3>1, TestEffects DEF PutBack
    <3>3. ha' = [ha EXCEPT !.remote = ha.previous[w], !.previous[w] = Absent, !.completed[w] = FALSE]
      BY <3>1, <3>2 DEF PutBack, Call, Test
    <3>4. ha'.remote = ha.previous[w] /\ ha'.previous[w] = Absent
      BY <3>3, Shapes DEF Host
    <3>5. QED
      BY <1>2, <1>3, <3>2, <3>4 DEF Kept
  <2>7. CASE Op(w) = "park"
    <3>1. Park(w)
      BY <2>1, <2>4, <2>7, ActionOfCall
    <3>2. ~ha.completed[w] /\ ha' # ha
      BY <1>6, <3>1, TestEffects DEF Park, Swap
    <3>3. Exists(ha.remote) /\ ha' = [ha EXCEPT !.previous[w] = ha.remote, !.remote = Absent]
      BY <3>1, <3>2 DEF Park, Swap, Call, Test
    <3>4. ha'.previous[w] = ha.remote
      BY <3>3, Shapes DEF Host
    <3>5. ~Exists(ha.previous[w])
      BY <2>2, <2>7, <3>2, <3>3 DEF SwapAt, Left, Unswapped
    <3>6. QED
      BY <1>2, <3>4, <3>5 DEF Kept
  <2>8. CASE Op(w) = "promote"
    <3>1. Promote(w)
      BY <2>1, <2>4, <2>8, ActionOfCall
    <3>2. ~ha.completed[w]
      BY <1>6, <3>1, TestEffects DEF Promote, Swap
    <3>3. ~Exists(ha.remote)
      BY <2>2, <2>8, <3>2 DEF SwapAt, Left
    <3>4. ha'.previous[w] = ha.previous[w]
      BY <1>1, <2>1, <2>8, OneCall DEF Effects
    <3>5. QED
      BY <1>2, <3>3, <3>4 DEF Kept
  <2>9. QED
    BY <2>1, <2>3, <2>5, <2>6, <2>7, <2>8
<1>7. QED
  BY <1>4, <1>5, <1>6

LEMMA RetainedKept ==
  ASSUME TypeOK, NEW w \in Workflow, Kind(w), Leased(w), Recent(w), Early(w), Vacant, Retained(w), Acts(w)
  PROVE  Retained(w)'
<1> SUFFICES ASSUME Deploying(w)', ha'.lock.by = w PROVE Kept(w)'
  BY DEF Retained
<1>1. CASE Planned(w)
  <2>1. ha' = ha /\ snap'[w] = Served(ha) /\ Exists(ha.remote) /\ ~Exists(ha.previous[w])
    BY <1>1, PlannedUnderLease DEF Early, Beginning
  <2>2. QED
    BY <2>1 DEF Kept, Files, Served
<1>2. CASE prog[w] = "rmCapture" /\ prog'[w] = "rmDeploy" /\ Done(w) /\ Advanced(w)
  <2>1. Running(w) /\ prog[w] \in Names /\ ip[w] = Len(Programs[prog[w]]) /\ ip[w] \in 1..Len(Programs[prog[w]])
    BY <1>2, Placed, ActsMoves DEF Advanced, Follows
  <2>2. At(w, "capture")
    BY <1>2, <2>1, SwapPlaces DEF SwapAt, At, Op, Advanced
  <2>3. Capture(w)
    BY <1>2, <2>2, ActionOfCall, CrashMoves DEF Acts, Died, Kind, AfterCrash, CiNames
  <2>4. ~Throw(w)
    BY <1>2, GotoMoves DEF Throw, Thrown, Done
  <2>5. snap'[w] = Served(ha) /\ ha' = ha
    BY <2>3, <2>4, Shapes DEF Capture, Journals
  <2>6. Exists(ha.remote) /\ ~Exists(ha.previous[w])
    BY <1>2, <2>5 DEF Early, Beginning
  <2>7. QED
    BY <2>5, <2>6 DEF Kept, Files, Served
<1>3. CASE prog[w] \in Swappers /\ prog'[w] \in Swappers
  <2>1. snap'[w] = snap[w] /\ ha.lock.by = w
    BY <1>3, SwapsUnderLease DEF Swappers
  <2>2. Deploying(w) /\ (prog[w] = "ciDeploy" => ~Finalized(w))
    <3>1. CASE prog[w] = "ciDeploy"
      <4>1. prog'[w] = "ciDeploy" /\ ip'[w] # 1
        BY <1>3, <3>1, LaterPrograms, PlannedUnderLease DEF Swappers
      <4>2. ip'[w] \in {ip[w], ip[w] + 1} /\ ip[w] \in Nat /\ Len(Programs["ciDeploy"]) \in Nat
        BY <3>1, <4>1, Placed, ActsMoves DEF Moves, Advanced, Follows, Thrown, Pending, Planned, Exited, Died
      <4>3. QED
        BY <3>1, <4>1, <4>2, FinalLength DEF Deploying, Finalized, FinalCalls
    <3>2. CASE prog[w] # "ciDeploy"
      <4>1. prog'[w] # "ciDeploy"
        BY <1>3, <3>2, LaterPrograms, PlannedUnderLease DEF Swappers
      <4>2. QED
        BY <1>3, <2>1, <3>2, <4>1 DEF Deploying, Swappers
    <3>3. QED
      BY <3>1, <3>2
  <2>3. QED
    BY <1>3, <2>1, <2>2, SwapKeeps DEF Retained
<1>4. QED
  BY <1>1, <1>2, <1>3, LaterPrograms DEF Deploying, Swappers

Own(w) == <<Built(w), Candidate[w], Candidate[w]>>

\* What a workflow verified stays so until its end.
Settled(w) == Unswapped(w) /\ (Exists(ha.remote) \/ ~Exists(ha.previous[w]))
OwnServed(w) == Served(ha) = Own(w) /\ Unswapped(w)

Verified(w) ==
    /\ prog[w] = "ciDeploy" /\ Since(prog[w], ip[w], "verify", {}) => OwnServed(w)
    /\ prog[w] = "rmDeploy" /\ ha.lock.by = w /\ undo[w] = "none" =>
          /\ Since(prog[w], ip[w], "card", {}) => ha.card = Candidate[w]
          /\ Since(prog[w], ip[w], "wrapper", {}) => ha.wrapper = Candidate[w]
    /\ prog[w] = "rmVerify" =>
          /\ deployed[w] = Own(w)
          /\ ha.lock.by = w => Unswapped(w)
          /\ Since(prog[w], ip[w], "verify", {}) => Served(ha) = Own(w)
    /\ prog[w] = "rmAccept" /\ ha.lock.by = w => OwnServed(w)
    /\ prog[w] = "ciRollback" /\ ha.lock.by = w =>
          /\ Since(prog[w], ip[w], "mark", {}) => Unswapped(w)
          /\ Finalized(w) => Served(ha) = snap[w] /\ Settled(w)

LEMMA OwnIsSettled == ASSUME NEW w \in Workflow, OwnServed(w) PROVE Settled(w)
  BY DEF OwnServed, Own, Served, Built, Build, Settled, Exists

\* The reconciliation and the cleanup of a settled host change nothing that is served.
LEMMA SettledStays ==
  ASSUME TypeOK, NEW w \in Workflow, Acts(w), Done(w), Step(w), At(w, Op(w)), Settled(w),
         Op(w) \notin Rewriting, Op(w) = "unmark" => ~Exists(ha.previous[w])
  PROVE  Served(ha') = Served(ha) /\ Settled(w)'
<1>1. /\ (At(w, "dropRemote") => DropRemote(w)) /\ (At(w, "putBack") => PutBack(w))
      /\ (At(w, "mark") => Mark(w)) /\ (At(w, "dropPrevious") => DropPrevious(w))
  BY ActionOfCall
<1>2. Effects(w) /\ (\A q : At(w, q) => q = Op(w)) /\ undo[w] = "none"
  BY ActsEffects, OneCall DEF At
<1>3. ha'.card = ha.card /\ ha'.wrapper = ha.wrapper
  BY <1>2 DEF Effects, Rewriting
<1>4. ha'.remote = ha.remote
  <2>1. At(w, "dropRemote") => ha'.remote = ha.remote
    BY <1>1, DropRemoteDone DEF Settled
  <2>2. At(w, "putBack") => ha'.remote = ha.remote
    BY <1>1, PutBackDone DEF Settled
  <2>3. QED
    BY <1>2, <2>1, <2>2 DEF Effects, Rewriting
<1>5. Exists(ha'.previous[w]) => ha'.previous[w] = ha.previous[w]
  BY <1>1, <1>2, DropPreviousDone, PutBackDone DEF Effects, Rewriting, Exists, Absent
<1>6. Unswapped(w)'
  <2>1. CASE Op(w) = "unmark"
    BY <1>2, <2>1 DEF Effects, Unswapped
  <2>2. CASE Op(w) = "putBack"
    BY <1>1, <2>2, PutBackDone DEF Settled, Unswapped, Exists, Absent
  <2>3. CASE Op(w) = "mark"
    BY <1>1, <2>3, MarkDone DEF Unswapped
  <2>4. CASE Op(w) \notin {"unmark", "putBack", "mark"}
    BY <1>2, <1>5, <2>4 DEF Effects, Settled, Unswapped
  <2>5. QED
    BY <2>1, <2>2, <2>3, <2>4
<1>7. QED
  BY <1>3, <1>4, <1>5, <1>6 DEF Served, Settled

\* Where it stands, a program that goes on and has been settled stays settled.
LEMMA CleansUp ==
  ASSUME TypeOK, NEW w \in Workflow, Recent(w), ha.lock.by = w, Acts(w), Running(w)', ip'[w] # 1,
         undo'[w] = "none", Settled(w), Op(w) \notin Rewriting,
         Op(w) = "unmark" => Since(prog[w], ip[w], "dropPrevious", {"park"})
  PROVE  Served(ha') = Served(ha) /\ Settled(w)'
<1>1. Done(w) /\ Step(w) /\ At(w, Op(w)) /\ Running(w)
  BY GoesOn
<1>2. Op(w) = "unmark" => ~Exists(ha.previous[w])
  BY <1>1 DEF Recent, Left, At
<1>3. QED
  BY <1>1, <1>2, SettledStays

\* A program that goes on is not half-way through a call that failed.
LEMMA NotPending ==
  ASSUME TypeOK, NEW w \in Workflow, Acts(w), Running(w), Op(w) \notin Rewriting
  PROVE  undo'[w] = "none"
  BY ActsMoves DEF Moves, Advanced, Thrown, Pending, Planned, Exited, Died, At, Rewriting

LEMMA DeployVerified ==
  ASSUME TypeOK, NEW w \in Workflow, Kind(w), Leased(w), Recent(w), Early(w), Decided(w), Verified(w), Acts(w),
         prog'[w] = "ciDeploy", Since("ciDeploy", ip'[w], "verify", {})
  PROVE  OwnServed(w)'
<1>1. prog[w] = "ciDeploy" /\ ip'[w] # 1
  BY SinceNothing, LaterPrograms DEF Planned
<1>2. /\ Running(w) /\ Running(w)' /\ ip[w] \in 1..Len(Programs["ciDeploy"]) /\ ip[w] \in Nat \ {0}
      /\ ha.lock.by = w /\ Op(w) = Programs["ciDeploy"][ip[w]]
  BY <1>1, Placed, ActsMoves DEF Decided, Op, Running
<1>3. VerifiedAt("ciDeploy", ip[w]) /\ RestoredAt("ciDeploy", ip[w])
  BY <1>2, VerifiedPlaces, RestoredPlaces DEF Names
<1>4. CASE Since("ciDeploy", ip[w], "verify", {})
  <2>1. Op(w) \notin Rewriting /\ (Op(w) = "unmark" => Since("ciDeploy", ip[w], "dropPrevious", {"park"}))
    BY <1>2, <1>3, <1>4 DEF VerifiedAt, RestoredAt
  <2>2. OwnServed(w)
    BY <1>1, <1>4 DEF Verified
  <2>3. Served(ha') = Served(ha) /\ Settled(w)'
    BY <1>1, <1>2, <2>1, <2>2, OwnIsSettled, NotPending, CleansUp
  <2>4. QED
    BY <2>2, <2>3 DEF OwnServed, Own, Built, Settled
<1>5. CASE ~Since("ciDeploy", ip[w], "verify", {})
  <2>1. ip'[w] = ip[w] + 1
    BY <1>1, <1>2, <1>5, ActsMoves DEF Moves, Advanced, Follows, Thrown, Pending, Planned, Exited, Died
  <2>2. Op(w) = "verify"
    BY <1>2, <1>5, <2>1, SinceNext
  <2>3. Done(w) /\ Step(w) /\ At(w, "verify")
    BY <1>1, <1>2, <2>2, GoesOn, NotPending DEF Rewriting
  <2>4. Verify(w) /\ undo[w] = "none"
    BY <2>3, ActionOfCall DEF At
  <2>5. w \in CI
    BY <1>1 DEF Kind, CiNames
  <2>6. Served(ha) = Own(w) /\ ha' = ha
    BY <2>3, <2>4, <2>5, TestDone DEF Verify, Own
  <2>7. ha.completed[w]
    BY <1>1, <1>2, <1>3, <2>2, <2>4 DEF VerifiedAt, Recent, Left
  <2>8. QED
    BY <2>6, <2>7 DEF OwnServed, Own, Built, Unswapped
<1>6. QED
  BY <1>4, <1>5

LEMMA DeployPoints ==
  ASSUME TypeOK, NEW w \in Workflow, Kind(w), Leased(w), Verified(w), Acts(w),
         prog'[w] = "rmDeploy", ha'.lock.by = w, undo'[w] = "none"
  PROVE  /\ Since("rmDeploy", ip'[w], "card", {}) => ha'.card = Candidate[w]
         /\ Since("rmDeploy", ip'[w], "wrapper", {}) => ha'.wrapper = Candidate[w]
<1>1. CASE ip'[w] = 1
  BY <1>1, SinceNothing
<1>2. CASE ip'[w] # 1
  <2>1. Running(w)'
    BY NamesOfPrograms DEF Running, Names
  <2>2. /\ Done(w) /\ Step(w) /\ At(w, Op(w)) /\ ip[w] \in Nat \ {0}
        /\ prog[w] = "rmDeploy" /\ ip'[w] = ip[w] + 1
    BY <1>2, <2>1, GoesOn
  <2>3. ha.lock.by = w /\ undo[w] = "none" /\ Op(w) = Programs["rmDeploy"][ip[w]]
    BY <2>2, SwapsUnderLease DEF At, Op
  <2>4. ~Rolling(w) /\ Compensation(w) \in {"none", "uncard"}
    BY <2>2 DEF Rolling, Compensation
  <2>5. ASSUME Op(w) = "card" PROVE ha'.card = Candidate[w]
    <3>1. Card(w)
      BY <2>2, <2>5, ActionOfCall
    <3>2. ha' = [ha EXCEPT !.card = Candidate[w]]
      BY <2>2, <2>3, <2>4, <3>1, CallDone DEF Card, CardUrl
    <3>3. QED
      BY <3>2, Shapes DEF Host
  <2>6. ASSUME Op(w) = "wrapper" PROVE ha'.wrapper = Candidate[w]
    <3>1. Wrapper(w)
      BY <2>2, <2>6, ActionOfCall
    <3>2. ha' = [ha EXCEPT !.wrapper = Candidate[w]]
      BY <2>2, <2>3, <2>4, <3>1, CallDone DEF Wrapper, WrapperUrl
    <3>3. QED
      BY <3>2, Shapes DEF Host
  <2>7. Effects(w) /\ \A q : At(w, q) => q = Op(w)
    BY <2>2, ActsEffects, OneCall
  <2>8. ASSUME Since("rmDeploy", ip'[w], "card", {}) PROVE ha'.card = Candidate[w]
    BY <2>2, <2>3, <2>5, <2>7, <2>8, SinceNext DEF Verified, Effects
  <2>9. ASSUME Since("rmDeploy", ip'[w], "wrapper", {}) PROVE ha'.wrapper = Candidate[w]
    BY <2>2, <2>3, <2>6, <2>7, <2>9, SinceNext DEF Verified, Effects
  <2>10. QED
    BY <2>8, <2>9
<1>3. QED
  BY <1>1, <1>2

LEMMA ReleaseVerified ==
  ASSUME TypeOK, NEW w \in Workflow, Kind(w), Leased(w), Recent(w), Verified(w), Acts(w), prog'[w] = "rmVerify"
  PROVE  /\ deployed'[w] = Own(w)
         /\ ha'.lock.by = w => Unswapped(w)'
         /\ Since("rmVerify", ip'[w], "verify", {}) => Served(ha') = Own(w)
<1>1. Running(w) /\ prog[w] \in Names /\ ip[w] \in 1..Len(Programs[prog[w]]) /\ ip[w] \in Nat \ {0}
  BY Placed, ActsMoves
<1>2. VerifiedAt(prog[w], ip[w]) /\ Op(w) = Programs[prog[w]][ip[w]]
  BY <1>1, VerifiedPlaces DEF Op
<1>3. w \notin CI
  <2>1. prog'[w] \notin CiNames \cup CiEnds
    BY DEF CiNames, CiEnds
  <2>2. QED
    BY <2>1, KindKept DEF Kind
<1>4. CASE prog[w] = "rmDeploy" /\ Advanced(w) /\ Done(w)
  <2>1. ip[w] = Len(Programs["rmDeploy"]) /\ ip'[w] = 1 /\ undo[w] = "none"
    BY <1>4 DEF Advanced, Follows
  <2>2. At(w, "save")
    BY <1>1, <1>2, <1>4, <2>1 DEF VerifiedAt, At
  <2>3. Save(w)
    <3>1. Step(w)
      <4>1. AfterCrash("rmDeploy") = {"rmDeploy", "rmRollback"}
        BY DEF AfterCrash, AfterError
      <4>2. ~Crash(w)
        BY <1>3, <1>4, <4>1, CrashMoves DEF Died
      <4>3. QED
        BY <4>2 DEF Acts
    <3>2. QED
      BY <2>2, <3>1, ActionOfCall
  <2>4. deployed'[w] = <<Built(w), ha.card, ha.wrapper>> /\ ha' = ha
    BY <2>3, Shapes DEF Save, Journals
  <2>5. ha.lock.by = w
    BY <2>2, AssertedHolds DEF At, Unasserted, Holds
  <2>6. ha.card = Candidate[w] /\ ha.wrapper = Candidate[w] /\ ha.completed[w]
    BY <1>1, <1>2, <1>4, <2>1, <2>2, <2>5 DEF VerifiedAt, Verified, Recent, Left, At
  <2>7. QED
    BY <2>1, <2>4, <2>6, SinceNothing DEF Own, Unswapped
<1>5. CASE prog[w] = "rmVerify"
  <2>1. Op(w) \in {"assert", "verify", "attest"}
    BY <1>2, <1>5 DEF VerifiedAt
  <2>2. Served(ha') = Served(ha) /\ ha'.previous[w] = ha.previous[w] /\ ha'.completed[w] = ha.completed[w]
    BY <2>1, ActsEffects DEF Effects, Served, At, Kind
  <2>3. deployed'[w] = deployed[w]
    <3>1. CASE Crash(w)
      BY <3>1 DEF Crash
    <3>2. CASE Step(w)
      <4>1. undo[w] = "none"
        BY <1>1, <2>1, Shapes DEF Kind, Control
      <4>2. AssertLease(w) \/ Verify(w) \/ Attest(w)
        BY <1>1, <2>1, <3>2, <4>1, ActionOfCall DEF At
      <4>3. QED
        BY <4>2 DEF AssertLease, Verify, Attest, Test
    <3>3. QED
      BY <3>1, <3>2 DEF Acts
  <2>4. deployed[w] = Own(w)
    BY <1>5 DEF Verified
  <2>5. ha'.lock.by = w => Unswapped(w)'
    BY <1>5, <2>2, SwapsUnderLease DEF Verified, Unswapped
  <2>6. ASSUME Since("rmVerify", ip'[w], "verify", {}) PROVE Served(ha') = Own(w)
    <3>1. CASE Since("rmVerify", ip[w], "verify", {})
      BY <1>5, <2>2, <3>1 DEF Verified
    <3>2. CASE ~Since("rmVerify", ip[w], "verify", {})
      <4>1. ip'[w] # 1 /\ undo'[w] = "none"
        BY <1>1, <2>1, <2>6, SinceNothing, NotPending DEF Rewriting
      <4>2. Running(w)'
        BY <1>1, <1>5 DEF Running
      <4>3. Done(w) /\ Step(w) /\ ip'[w] = ip[w] + 1 /\ At(w, Op(w))
        BY <4>1, <4>2, GoesOn
      <4>4. Op(w) = "verify"
        BY <1>1, <1>2, <1>5, <2>6, <3>2, <4>3, SinceNext
      <4>5. Verify(w) /\ undo[w] = "none"
        BY <4>3, <4>4, ActionOfCall DEF At
      <4>6. Served(ha) = deployed[w]
        BY <1>3, <4>3, <4>5, TestDone DEF Verify
      <4>7. QED
        BY <2>2, <2>4, <4>6
    <3>3. QED
      BY <3>1, <3>2
  <2>7. QED
    BY <2>3, <2>4, <2>5, <2>6
<1>6. QED
  BY <1>4, <1>5, LaterPrograms

LEMMA AcceptVerified ==
  ASSUME TypeOK, NEW w \in Workflow, Kind(w), Leased(w), Recent(w), Verified(w), Acts(w), prog'[w] = "rmAccept",
         ha'.lock.by = w
  PROVE  OwnServed(w)'
<1>1. Running(w) /\ prog[w] \in Names /\ ip[w] \in 1..Len(Programs[prog[w]]) /\ ip[w] \in Nat \ {0}
  BY Placed, ActsMoves
<1>2. VerifiedAt(prog[w], ip[w]) /\ RestoredAt(prog[w], ip[w]) /\ Op(w) = Programs[prog[w]][ip[w]]
  BY <1>1, VerifiedPlaces, RestoredPlaces DEF Op
<1>3. prog[w] \in {"rmVerify", "rmAccept"} /\ ha.lock.by = w
  BY LaterPrograms, SwapsUnderLease
<1>4. CASE prog[w] = "rmVerify"
  <2>1. ip[w] = Len(Programs["rmVerify"]) /\ undo[w] = "none"
    BY <1>4, LaterPrograms DEF Advanced, Follows
  <2>2. Served(ha) = Own(w) /\ Unswapped(w) /\ Op(w) = "attest"
    BY <1>1, <1>2, <1>3, <1>4, <2>1 DEF VerifiedAt, Verified
  <2>3. Served(ha') = Served(ha) /\ ha'.previous[w] = ha.previous[w] /\ ha'.completed[w] = ha.completed[w]
    BY <2>1, <2>2, ActsEffects DEF Effects, Served, At
  <2>4. QED
    BY <2>2, <2>3 DEF OwnServed, Own, Built, Unswapped
<1>5. CASE prog[w] = "rmAccept"
  <2>1. Op(w) \notin Rewriting /\ (Op(w) = "unmark" => Since(prog[w], ip[w], "dropPrevious", {"park"}))
    BY <1>2, <1>5 DEF VerifiedAt, RestoredAt
  <2>2. OwnServed(w)
    BY <1>3, <1>5 DEF Verified
  <2>3. CASE ip'[w] = 1
    <3>1. Died(w)
      BY <1>1, <1>5, <2>1, <2>3, ActsMoves
         DEF Moves, Advanced, Follows, Thrown, Pending, Planned, Exited, AfterSuccess, AfterError, At, Rewriting
    <3>2. ha' = ha
      BY <1>3, <3>1, ProductionConstants, Shapes DEF Died, FreeLock, Host
    <3>3. QED
      BY <2>2, <3>2 DEF OwnServed, Own, Built, Unswapped
  <2>4. CASE ip'[w] # 1
    <3>1. Running(w)'
      BY <1>1, <1>5 DEF Running
    <3>2. Served(ha') = Served(ha) /\ Settled(w)'
      BY <1>1, <1>3, <2>1, <2>2, <2>4, <3>1, OwnIsSettled, NotPending, CleansUp
    <3>3. QED
      BY <2>2, <3>2 DEF OwnServed, Own, Built, Settled
  <2>5. QED
    BY <2>3, <2>4
<1>6. QED
  BY <1>3, <1>4, <1>5

LEMMA RollbackVerified ==
  ASSUME TypeOK, NEW w \in Workflow, Kind(w), Leased(w), Recent(w), Verified(w), Acts(w),
         prog'[w] = "ciRollback", ha'.lock.by = w
  PROVE  /\ Since("ciRollback", ip'[w], "mark", {}) => Unswapped(w)'
         /\ Finalized(w)' => Served(ha') = snap'[w] /\ Settled(w)'
<1> DEFINE n == Len(Programs["ciRollback"])
<1>1. CASE ip'[w] = 1
  <2>1. n \in Nat /\ n > 13
    <3>1. 1 \in 1..n /\ n \in Nat
      BY ProgramsHaveCalls DEF Names
    <3>2. QED
      BY <3>1, RestoredPlaces DEF RestoredAt, Names
  <2>2. ~Finalized(w)'
    BY <1>1, <2>1, FinalLength DEF Finalized, FinalCalls
  <2>3. QED
    BY <1>1, <2>2, SinceNothing
<1>2. CASE ip'[w] # 1
  <2>1. prog[w] = "ciRollback"
    BY <1>2, LaterPrograms
  <2>2. Running(w) /\ Running(w)' /\ ip[w] \in 1..n /\ ip[w] \in Nat \ {0} /\ n \in Nat
    BY <2>1, Placed, ActsMoves DEF Running
  <2>3. snap'[w] = snap[w] /\ ha.lock.by = w
    BY <2>1, SwapsUnderLease
  <2>4. RestoredAt("ciRollback", ip[w]) /\ Op(w) = Programs["ciRollback"][ip[w]]
    BY <2>1, <2>2, RestoredPlaces DEF Op, Names
  <2>5. CASE Pending(w)
    <3>1. Op(w) \in Rewriting /\ ip'[w] = ip[w]
      BY <2>5 DEF Pending, At, Rewriting
    <3>2. ~Finalized(w)'
      BY <2>1, <2>2, <2>4, <2>5, <3>1, FinalLength DEF RestoredAt, Finalized, FinalCalls, Pending
    <3>3. ASSUME Since("ciRollback", ip'[w], "mark", {}) PROVE Unswapped(w)'
      <4>1. Unswapped(w)
        BY <2>1, <2>3, <3>1, <3>3 DEF Verified
      <4>2. ha'.previous[w] = ha.previous[w] /\ ha'.completed[w] = ha.completed[w]
        BY <2>5, <3>1, ActsEffects DEF Effects, At, Pending, Rewriting
      <4>3. QED
        BY <4>1, <4>2 DEF Unswapped
    <3>4. QED
      BY <3>2, <3>3
  <2>6. CASE ~Pending(w)
    <3>1. undo'[w] = "none"
      BY <1>2, <2>6, ActsMoves DEF Moves, Advanced, Thrown, Planned, Exited, Died
    <3>2. Done(w) /\ Step(w) /\ At(w, Op(w)) /\ ip'[w] = ip[w] + 1
      BY <1>2, <2>2, <3>1, GoesOn
    <3>3. Left(w) /\ undo[w] = "none"
      BY <2>2, <2>3, <3>2 DEF Recent, At
    <3>4. Effects(w) /\ (\A q : At(w, q) => q = Op(w))
      BY <3>2, ActsEffects, OneCall
    <3>5. ASSUME Since("ciRollback", ip'[w], "mark", {}) PROVE Unswapped(w)'
      <4>1. CASE Op(w) = "mark"
        BY <3>2, <4>1, ActionOfCall, MarkDone DEF Unswapped
      <4>2. CASE Op(w) # "mark"
        <5>1. Since("ciRollback", ip[w], "mark", {})
          BY <2>2, <2>4, <3>2, <3>5, <4>2, SinceNext
        <5>2. Unswapped(w) /\ Op(w) \notin {"park", "promote"}
          BY <2>1, <2>3, <2>4, <5>1 DEF Verified, RestoredAt
        <5>3. CASE Op(w) = "unmark"
          BY <2>4, <3>3, <3>4, <5>1, <5>3, <2>1 DEF RestoredAt, Left, Effects, Unswapped
        <5>4. CASE Op(w) = "putBack"
          BY <3>2, <5>2, <5>4, ActionOfCall, PutBackDone DEF Unswapped, Exists, Absent
        <5>5. CASE Op(w) = "dropPrevious"
          BY <3>2, <5>5, ActionOfCall, DropPreviousDone DEF Unswapped
        <5>6. CASE Op(w) \notin {"unmark", "putBack", "dropPrevious"}
          BY <3>3, <3>4, <4>2, <5>2, <5>6 DEF Effects, Unswapped
        <5>7. QED
          BY <5>3, <5>4, <5>5, <5>6
      <4>3. QED
        BY <4>1, <4>2
    <3>6. ASSUME Finalized(w)' PROVE Served(ha') = snap[w] /\ Settled(w)'
      <4>1. ip[w] >= n - 12
        BY <2>2, <3>2, <3>6, FinalLength DEF Finalized, FinalCalls
      <4>2. CASE ip[w] = n - 12
        <5>1. Op(w) = "restored" /\ (Exists(ha.remote) \/ ~Exists(ha.previous[w]))
          BY <2>1, <2>4, <3>3, <4>2 DEF RestoredAt, Left
        <5>2. Restored(w)
          BY <3>2, <5>1, ActionOfCall
        <5>3. Served(ha) = snap[w] /\ ha' = ha
          BY <3>2, <3>3, <5>2, TestDone DEF Restored
        <5>4. Unswapped(w)'
          <6>1. ip[w] + 1 \in 1..n /\ ip[w] + 1 > n - 12
            BY <2>2, <4>2
          <6>2. Since("ciRollback", ip[w] + 1, "mark", {})
            BY <6>1, RestoredPlaces DEF RestoredAt, Names
          <6>3. QED
            BY <3>2, <3>5, <6>2
        <5>5. QED
          BY <5>1, <5>3, <5>4 DEF Settled
      <4>3. CASE ip[w] > n - 12
        <5>1. Op(w) \notin Rewriting /\ Since("ciRollback", ip[w], "mark", {})
          BY <2>4, <4>3 DEF RestoredAt
        <5>2. Op(w) = "unmark" => Since(prog[w], ip[w], "dropPrevious", {"park"})
          BY <2>1, <2>4, <5>1 DEF RestoredAt
        <5>3. Finalized(w)
          BY <2>1, <2>2, <4>3, FinalLength DEF Finalized, FinalCalls
        <5>4. Served(ha) = snap[w] /\ Settled(w)
          BY <2>1, <2>3, <5>3 DEF Verified
        <5>5. QED
          BY <1>2, <2>2, <2>3, <3>1, <5>1, <5>2, <5>4, CleansUp
      <4>4. QED
        BY <2>2, <4>1, <4>2, <4>3
    <3>7. QED
      BY <2>3, <3>5, <3>6
  <2>7. QED
    BY <2>5, <2>6
<1>3. QED
  BY <1>1, <1>2

LEMMA VerifiedKept ==
  ASSUME TypeOK, NEW w \in Workflow, Kind(w), Leased(w), Recent(w), Early(w), Decided(w), Verified(w), Acts(w)
  PROVE  Verified(w)'
<1>1. Own(w)' = Own(w)
  BY DEF Own, Built
<1>2. QED
  BY <1>1, DeployVerified, DeployPoints, ReleaseVerified, AcceptVerified, RollbackVerified DEF Verified

-----------------------------------------------------------------------------
(* The invariant of production.                                            *)
ProductionInv ==
    /\ TypeOK /\ Leases /\ Vacant
    /\ \A w \in Workflow : Recent(w) /\ Early(w) /\ Decided(w) /\ Retained(w) /\ Verified(w)

LEMMA UndisturbedJobs ==
  ASSUME NEW v \in Workflow, TypeOK, Leased(v), Undisturbed(v), Decided(v), Retained(v), Verified(v)
  PROVE  Decided(v)' /\ Retained(v)' /\ Verified(v)'
<1>1. /\ prog'[v] = prog[v] /\ ip'[v] = ip[v] /\ undo'[v] = undo[v]
      /\ snap'[v] = snap[v] /\ deployed'[v] = deployed[v]
      /\ ha'.previous[v] = ha.previous[v] /\ ha'.completed[v] = ha.completed[v]
      /\ ha'.lock.by = v <=> ha.lock.by = v
  BY DEF Undisturbed, Untouched
<1>2. ASSUME ha.lock.by = v
      PROVE  /\ Served(ha') = Served(ha) /\ settled' = settled
             /\ ha'.remote = ha.remote /\ ha'.card = ha.card /\ ha'.wrapper = ha.wrapper
  BY <1>2 DEF Undisturbed, Served
<1>3. Decided(v)'
  BY <1>1, <1>2 DEF Decided, Between, Deployed
<1>4. Retained(v)'
  <2>1. Deploying(v)' => Deploying(v)
    BY <1>1 DEF Deploying, Finalized
  <2>2. QED
    BY <1>1, <1>2, <2>1 DEF Retained, Kept, Files
<1>5. ASSUME prog[v] = "rmVerify", Since("rmVerify", ip[v], "verify", {}) PROVE ha.lock.by = v
  <2>1. Running(v) /\ ip[v] \in 1..Len(Programs["rmVerify"])
    BY <1>5, Placed, NamesOfPrograms DEF Running, Names
  <2>2. Op(v) # "assert"
    BY <1>5, <2>1, RmVerifyReads DEF Reads, Since, Op
  <2>3. Op(v) \in {"verify", "attest"}
    BY <1>5, <2>1, <2>2, VerifiedPlaces DEF VerifiedAt, Op, Names
  <2>4. QED
    BY <2>1, <2>3, AssertedHolds DEF Unasserted, Holds
<1>6. Verified(v)'
  <2>1. Own(v)' = Own(v) /\ (Finalized(v)' <=> Finalized(v)) /\ (Unswapped(v)' <=> Unswapped(v))
    BY <1>1 DEF Own, Built, Finalized, Unswapped
  <2>2. ha.lock.by = v => (OwnServed(v)' <=> OwnServed(v)) /\ (Settled(v)' <=> Settled(v))
    BY <1>1, <1>2, <2>1 DEF OwnServed, Settled
  <2>3. QED
    BY <1>1, <1>2, <1>5, <2>1, <2>2 DEF Verified, Decided
<1>7. QED
  BY <1>3, <1>4, <1>6

LEMMA InitProduction == ASSUME Init PROVE ProductionInv
<1>1. TypeOK /\ Leases
  BY InitShape, InitLeases
<1>2. ASSUME NEW w \in Workflow
      PROVE  prog[w] \in {"ciStart", "rmCapture"} /\ ip[w] = 1 /\ ~Exists(ha.previous[w])
  BY DEF Init, Exists, Absent
<1>3. ha.lock.by = NoOne /\ settled = Live(ha) /\ Exists(ha.remote)
  BY DEF Init, FreeLock, Live, Build, Exists
<1>4. ASSUME NEW w \in Workflow PROVE Recent(w) /\ Early(w) /\ Decided(w) /\ Retained(w) /\ Verified(w)
  <2>1. prog[w] \in {"ciStart", "rmCapture"} /\ ip[w] = 1 /\ ~Exists(ha.previous[w]) /\ ha.lock.by # w
    BY <1>2, <1>3, ProductionConstants
  <2>2. Recent(w) /\ Decided(w) /\ Retained(w) /\ Verified(w)
    BY <2>1 DEF Recent, Decided, Retained, Verified
  <2>3. Early(w)
    BY <2>1, SinceNothing DEF Early
  <2>4. QED
    BY <2>2, <2>3
<1>5. QED
  BY <1>1, <1>3, <1>4 DEF ProductionInv, Vacant

LEMMA IdleVacant == ASSUME TypeOK, Vacant, UNCHANGED vars \/ Expire PROVE Vacant'
  BY Shapes DEF Vacant, vars, Expire, Live, Host

LEMMA ProductionKept == ASSUME ProductionInv, [Next]_vars PROVE ProductionInv'
<1>1. TypeOK /\ Leases /\ Vacant
  BY DEF ProductionInv
<1>2. TypeOK' /\ Leases'
  BY <1>1, NextShape, LeasesKept
<1>3. Vacant'
  <2>1. CASE UNCHANGED vars \/ Expire
    BY <1>1, <2>1, IdleVacant
  <2>2. ASSUME NEW w \in Workflow, Acts(w) PROVE Vacant'
    BY <1>1, <2>2, VacantKept DEF ProductionInv, Leases
  <2>3. QED
    BY <2>1, <2>2 DEF Next, Acts
<1>4. ASSUME NEW v \in Workflow PROVE Recent(v)' /\ Early(v)' /\ Decided(v)' /\ Retained(v)' /\ Verified(v)'
  <2>1. /\ Kind(v) /\ Leased(v) /\ Recent(v) /\ Early(v) /\ Decided(v) /\ Retained(v) /\ Verified(v)
    BY DEF ProductionInv, Leases
  <2>2. CASE Acts(v)
    BY <1>1, <2>1, <2>2, RecentKept, EarlyKept, DecidedKept, RetainedKept, VerifiedKept
  <2>3. CASE Undisturbed(v)
    BY <1>1, <2>1, <2>3, UndisturbedRecent, UndisturbedEarly, UndisturbedJobs
  <2>4. QED
    BY <1>1, <2>2, <2>3, NextSplits
<1>5. QED
  BY <1>2, <1>3, <1>4 DEF ProductionInv

\* Leases, directories and URLs agree with the place each program is at, in every reachable state.
THEOREM ProductionInvariant == Spec => []ProductionInv
<1>1. Init => ProductionInv
  BY InitProduction
<1>2. ProductionInv /\ [Next]_vars => ProductionInv'
  BY ProductionKept
<1>3. QED
  BY <1>1, <1>2, PTL DEF Spec

-----------------------------------------------------------------------------
(* What follows from it.                                                   *)
\* A commit that changes Home Assistant files or the panel bridge is never passed over by what an
\* automatic deployment puts live, whatever the commits and however many deployments there are: the
\* capture it decides over is what production settled on, and stays so while its lease is held.
THEOREM RuntimeNotSkipped == Spec => RuntimeNeverSkipped
<1> DEFINE Passed(w) == \E n \in Runtime : settled < n /\ n <= Live(ha')
           Puts(w) == Moved(w) /\ settled # 0 /\ Live(ha') # Live(ha)
<1>1. ASSUME ProductionInv, [Next]_vars, NEW w \in CI, Puts(w) PROVE ~Passed(w)
  <2>1. w \in Workflow /\ TypeOK /\ Leases /\ Kind(w) /\ Leased(w) /\ Early(w) /\ Decided(w)
    BY <1>1, ProductionConstants DEF ProductionInv, Leases
  <2>2. Acts(w) /\ Served(ha') # Served(ha)
    BY <1>1, <2>1, MovedActs DEF Served, Live
  <2>3. ha.lock.by = w /\ Running(w) /\ prog[w] \in Names
    BY <2>1, <2>2, ServedByHolder, ActsMoves, Placed DEF Holds
  <2>4. prog[w] \in {"ciDeploy", "ciRollback"}
    <3>1. prog[w] \in CiNames
      BY <1>1, <2>1, <2>3 DEF Kind, Names, CiNames, CiEnds
    <3>2. prog[w] \notin Beginning
      BY <2>1, <2>2, BeginningIdle DEF Early
    <3>3. QED
      BY <3>1, <3>2 DEF CiNames, Beginning
  <2>5. settled = Deployed(w) /\ Between(w) = {}
    BY <1>1, <2>1, <2>3, <2>4 DEF Decided, LiveOf, Deployed
  <2>6. Live(ha') \in {0, Deployed(w), Candidate[w]}
    <3>1. ha'.wrapper \in {Deployed(w), Candidate[w]}
      BY <2>1, <2>2, <2>3, <2>4, WrapperWritten DEF Decided
    <3>2. Live(ha') \in {0, ha'.wrapper}
      BY DEF Live
    <3>3. QED
      BY <3>1, <3>2
  <2>7. Deployed(w) \in Nat /\ Candidate[w] \in Nat /\ Runtime \subseteq Nat
    BY <2>1, Shapes, ProductionConstants DEF Journals, Captures, Deployed
  <2>8. \A n \in Runtime : ~(Deployed(w) < n /\ n <= Candidate[w])
    BY <2>5 DEF Between
  <2>9. QED
    BY <2>5, <2>6, <2>7, <2>8
<1>2. ProductionInv /\ [Next]_vars => [\A w \in CI : Puts(w) => ~Passed(w)]_vars
  BY <1>1
<1>3. QED
  BY <1>2, ProductionInvariant, PTL DEF Spec, RuntimeNeverSkipped

\* Until a deployment starts to finalize, the captured directory is whole in one of its places.
THEOREM CaptureRetained == Spec => []PriorRetained
<1>1. ProductionInv => PriorRetained
  BY DEF ProductionInv, Retained, Deploying, Kept, PriorRetained
<1>2. QED
  BY <1>1, ProductionInvariant, PTL

\* The end of a workflow that reports one comes with the end of its lease.
LEMMA Ending ==
  ASSUME ProductionInv, NEW w \in Workflow, Acts(w),
         prog'[w] \in {"kept", "deployed", "rolledBack", "accepted"}
  PROVE  /\ prog[w] = CASE prog'[w] = "kept" -> "ciKeep" [] prog'[w] = "deployed" -> "ciDeploy"
                        [] prog'[w] = "rolledBack" -> "ciRollback" [] prog'[w] = "accepted" -> "rmAccept"
         /\ ha'.lock.by # w
         /\ \/ At(w, "rmLock") /\ ha.lock.by = w /\ Served(ha') = Served(ha) /\ Live(ha') = Live(ha)
            \/ Exited(w)
<1>1. TypeOK /\ Kind(w) /\ Leased(w)
  BY DEF ProductionInv, Leases
<1>2. Running(w) /\ prog[w] \in Names /\ ip[w] \in 1..Len(Programs[prog[w]]) /\ Moves(w) /\ prog'[w] # prog[w]
  <2>1. Running(w) /\ prog[w] \in Names /\ ip[w] \in 1..Len(Programs[prog[w]]) /\ Moves(w)
    BY <1>1, Placed, ActsMoves
  <2>2. QED
    BY <2>1 DEF Names
<1>3. ~Died(w)
  <2>1. CASE w \in CI
    BY <2>1 DEF Died
  <2>2. CASE w \notin CI
    <3>1. AfterCrash(prog[w]) \cap {"kept", "deployed", "rolledBack", "accepted"} = {}
      BY <1>2 DEF AfterCrash, AfterError, Names
    <3>2. QED
      BY <2>2, <3>1 DEF Died
  <2>3. QED
    BY <2>1, <2>2
<1>4. ~Thrown(w)
  BY <1>2 DEF Thrown, AfterError, Names
<1>5. (Advanced(w) /\ ip[w] = Len(Programs[prog[w]])) \/ Exited(w)
  BY <1>2, <1>3, <1>4 DEF Moves, Advanced, Follows, Pending, Planned
<1>6. prog'[w] = AfterSuccess[prog[w]]
  BY <1>5 DEF Advanced, Follows, Exited
<1>7. prog[w] = CASE prog'[w] = "kept" -> "ciKeep" [] prog'[w] = "deployed" -> "ciDeploy"
                  [] prog'[w] = "rolledBack" -> "ciRollback" [] prog'[w] = "accepted" -> "rmAccept"
  BY <1>2, <1>6 DEF AfterSuccess, Names
<1>8. CASE Exited(w)
  BY <1>7, <1>8, ProductionConstants DEF Exited
<1>9. CASE Advanced(w) /\ ip[w] = Len(Programs[prog[w]])
  <2>1. prog[w] \in {"ciKeep", "ciDeploy", "ciRollback", "rmAccept"}
    BY <1>7
  <2>2. At(w, "rmLock")
    BY <1>2, <1>9, <2>1, RestoredPlaces DEF RestoredAt, At, Op, Advanced
  <2>3. ha.lock.by = w
    BY <1>1, <2>2 DEF At, Leased
  <2>4. Step(w)
    BY <1>1, <1>3, CrashMoves DEF Acts
  <2>5. ha' = [ha EXCEPT !.lock = FreeLock]
    <3>1. Call(w, [ha EXCEPT !.lock = FreeLock], {}, "none") /\ undo[w] = "none"
      BY <2>2, <2>4, ActionOfCall DEF RmLock, At
    <3>2. Done(w)
      BY <1>4, <1>9 DEF Done, Advanced
    <3>3. QED
      BY <1>1, <3>1, <3>2, CallDone
  <2>6. ha'.lock.by = NoOne /\ ha'.remote = ha.remote /\ ha'.card = ha.card /\ ha'.wrapper = ha.wrapper
    BY <1>1, <2>5, Shapes DEF Host, FreeLock
  <2>7. QED
    BY <1>7, <2>2, <2>3, <2>6, ProductionConstants DEF Served, Live
<1>10. QED
  BY <1>5, <1>8, <1>9

LEMMA OwnIsLive == ASSUME NEW w \in Workflow, Served(ha) = Own(w) PROVE Live(ha) = Candidate[w]
  BY DEF Served, Own, Built, Build, Live

\* At the call that gives the lease up a program has verified what it reports.
LEMMA LastCall ==
  ASSUME ProductionInv, NEW w \in Workflow, At(w, "rmLock")
  PROVE  /\ ha.lock.by = w
         /\ prog[w] \in {"ciKeep", "ciAbort"} => Live(ha) = settled
         /\ prog[w] = "ciKeep" => Served(ha) = snap[w]
         /\ prog[w] = "ciDeploy" => Served(ha) = Own(w) /\ settled <= Candidate[w]
         /\ prog[w] = "ciRollback" => Served(ha) = snap[w] /\ Live(ha) = settled
         /\ prog[w] = "rmAccept" => Served(ha) = Own(w)
         /\ prog[w] \notin {"ciStart", "rmCapture"}
<1>1. TypeOK /\ Leased(w) /\ Early(w) /\ Decided(w) /\ Verified(w)
  BY DEF ProductionInv, Leases
<1>2. Running(w) /\ prog[w] \in Names /\ ip[w] \in 1..Len(Programs[prog[w]]) /\ Op(w) = "rmLock"
  BY <1>1, Placed DEF At
<1>3. RestoredAt(prog[w], ip[w]) /\ Programs[prog[w]][ip[w]] = "rmLock"
  BY <1>2, RestoredPlaces DEF Op
<1>4. ha.lock.by = w
  BY <1>1, <1>2 DEF Leased
<1>5. prog[w] = "ciDeploy" => Served(ha) = Own(w) /\ settled <= Candidate[w]
  BY <1>1, <1>3, <1>4 DEF RestoredAt, Verified, OwnServed, Decided
<1>6. prog[w] = "ciRollback" => Served(ha) = snap[w] /\ Live(ha) = settled
  <2>1. prog[w] = "ciRollback" => Finalized(w)
    BY <1>3, FinalLength DEF RestoredAt, Finalized, FinalCalls
  <2>2. QED
    BY <1>1, <1>4, <2>1, LiveOfServed DEF Verified, Decided
<1>7. prog[w] = "rmAccept" => Served(ha) = Own(w)
  BY <1>1, <1>4 DEF Verified, OwnServed
<1>8. QED
  BY <1>1, <1>3, <1>4, <1>5, <1>6, <1>7 DEF Early, RestoredAt, Beginning, CiNames

\* A workflow that reports success, a no-op or a rollback tells the truth, and leaves no lease.
THEOREM EndsAreTruthful == Spec => TruthfulEnd
<1> DEFINE Truth(w) ==
      /\ prog'[w] \in {"deployed", "accepted"} /\ ha.lock.by # NoOne => Live(ha') = Candidate[w]
      /\ prog'[w] \in {"kept", "rolledBack"} => Served(ha') = snap[w]
      /\ prog'[w] \in {"kept", "deployed", "rolledBack", "accepted"} => ha'.lock.by # w
<1>1. ASSUME ProductionInv, [Next]_vars, NEW w \in Workflow, prog'[w] # prog[w] PROVE Truth(w)
  <2>1. Acts(w)
    BY <1>1, NextSplits DEF ProductionInv, Undisturbed, Untouched
  <2>2. CASE prog'[w] \notin {"kept", "deployed", "rolledBack", "accepted"}
    BY <2>2
  <2>3. CASE prog'[w] \in {"kept", "deployed", "rolledBack", "accepted"}
    <3>1. /\ prog[w] = CASE prog'[w] = "kept" -> "ciKeep" [] prog'[w] = "deployed" -> "ciDeploy"
                         [] prog'[w] = "rolledBack" -> "ciRollback" [] prog'[w] = "accepted" -> "rmAccept"
          /\ ha'.lock.by # w
          /\ \/ At(w, "rmLock") /\ ha.lock.by = w /\ Served(ha') = Served(ha) /\ Live(ha') = Live(ha)
             \/ Exited(w)
      BY <1>1, <2>1, <2>3, Ending
    <3>2. CASE At(w, "rmLock") /\ ha.lock.by = w /\ Served(ha') = Served(ha) /\ Live(ha') = Live(ha)
      <4>1. Served(ha) = Own(w) => Live(ha) = Candidate[w]
        BY OwnIsLive
      <4>2. QED
        BY <1>1, <2>3, <3>1, <3>2, <4>1, LastCall
    <3>3. CASE Exited(w)
      <4>1. ha.lock.by = NoOne
        BY <3>3 DEF Exited
      <4>2. prog[w] # "ciKeep"
        BY <1>1, <4>1, ProductionConstants DEF ProductionInv, Early
      <4>3. prog[w] # "ciRollback"
        <5>1. Running(w) /\ Op(w) = "noLock" /\ TypeOK /\ Leased(w)
          BY <1>1, <3>3 DEF Exited, At, ProductionInv, Leases
        <5>2. ~Since(prog[w], ip[w], "assert", Releasing)
          BY <4>1, <5>1, ProductionConstants DEF Leased, Holds
        <5>3. QED
          BY <5>1, <5>2, Placed, RestoredPlaces DEF RestoredAt, Op
      <4>4. QED
        BY <2>3, <3>1, <4>1, <4>2, <4>3
    <3>4. QED
      BY <3>1, <3>2, <3>3
  <2>4. QED
    BY <2>2, <2>3
<1>2. ProductionInv /\ [Next]_vars => [\A w \in Workflow : prog'[w] # prog[w] => Truth(w)]_vars
  BY <1>1
<1>3. QED
  BY <1>2, ProductionInvariant, PTL DEF Spec, TruthfulEnd

\* Every turn is atomic: production is as it was or wholly on the turn's commit when the lease
\* is free again, and automatic turns never publish an older commit.
THEOREM TurnsAreAtomic == Spec => Publication
<1>1. Init => AP!Init
  <2>1. Init => settled = Base /\ ha.lock.by = NoOne
    BY DEF Init, FreeLock
  <2>2. QED
    BY <2>1, ProductionConstants DEF AP!Init
<1>2. ASSUME ProductionInv, [Next]_vars PROVE [AP!Next]_<<settled, ha.lock.by>>
  <2>1. CASE UNCHANGED vars \/ Expire
    BY <1>2, <2>1, Shapes DEF vars, Expire, ProductionInv, Host
  <2>2. ASSUME NEW w \in Workflow, Acts(w) PROVE [AP!Next]_<<settled, ha.lock.by>>
    <3>1. TypeOK /\ Kind(w) /\ Leased(w) /\ Recent(w) /\ Early(w) /\ Vacant
      BY <1>2 DEF ProductionInv, Leases
    <3>2. LockEffects(w) /\ Running(w)
      BY <2>2, <3>1, ActsEffects, ActsMoves
    <3>3. CASE ha'.lock.by = ha.lock.by
      <4>1. CASE ha.lock.by = NoOne
        <5>1. Served(ha') = Served(ha)
          BY <2>2, <3>1, <4>1, ServedByHolder, ProductionConstants DEF Holds
        <5>2. settled' = settled
          BY <2>2, <3>1, <4>1, <5>1, ActsSettle DEF Settling, Served, Live, Vacant
        <5>3. QED
          BY <3>3, <5>2
      <4>2. CASE ha.lock.by # NoOne
        BY <2>2, <3>1, <3>3, <4>2, ActsSettle DEF Settling
      <4>3. QED
        BY <4>1, <4>2
    <3>4. CASE At(w, "lockDir") /\ ha.lock.by = NoOne /\ ha'.lock.by = w
      <4>1. settled' = settled
        BY <2>2, <3>1, <3>4, ActsSettle, ProductionConstants DEF Settling
      <4>2. AP!Take(w)
        BY <3>4, <4>1 DEF AP!Take
      <4>3. QED
        BY <4>2 DEF AP!Next
    <3>5. CASE At(w, "rmLock") /\ ha'.lock = FreeLock
      <4>1. ha.lock.by = w /\ ha'.lock.by = NoOne /\ NoOne # w
        BY <1>2, <3>5, LastCall, ProductionConstants DEF FreeLock
      <4>2. settled' = Live(ha') /\ settled' \in Nat
        <5>1. TypeOK'
          BY <2>2, <3>1, NextShape DEF Next, Acts
        <5>2. QED
          BY <2>2, <3>1, <4>1, <5>1, VacantKept DEF Vacant, TypeOK
      <4>3. Live(ha') = Live(ha)
        BY <2>2, <3>1, <3>5, ActsEffects, OneCall DEF Effects, Live, At
      <4>4. CASE w \notin CI
        <5>1. AP!Abandon(w)
          BY <4>1, <4>2, <4>4 DEF AP!Abandon
        <5>2. QED
          BY <5>1 DEF AP!Next
      <4>5. CASE w \in CI
        <5>1. prog[w] \in {"ciKeep", "ciAbort", "ciDeploy", "ciRollback"}
          BY <1>2, <3>1, <3>2, <3>5, <4>5, Placed, LastCall DEF Kind, CiNames, CiEnds, Names
        <5>2. CASE prog[w] = "ciDeploy"
          <6>1. Live(ha) = Candidate[w] /\ settled <= Candidate[w]
            BY <1>2, <3>5, <5>2, LastCall, OwnIsLive
          <6>2. AP!Publish(w)
            BY <4>1, <4>2, <4>3, <6>1 DEF AP!Publish
          <6>3. QED
            BY <6>2 DEF AP!Next
        <5>3. CASE prog[w] # "ciDeploy"
          <6>1. Live(ha) = settled
            BY <1>2, <3>5, <5>1, <5>3, LastCall
          <6>2. AP!Keep(w)
            BY <4>1, <4>2, <4>3, <6>1 DEF AP!Keep
          <6>3. QED
            BY <6>2 DEF AP!Next
        <5>4. QED
          BY <5>2, <5>3
      <4>6. QED
        BY <4>4, <4>5
    <3>6. CASE At(w, "lockOwner") /\ ha'.lock.by = w
      <4>1. ha.lock.by = w
        BY <3>1, <3>6 DEF At, Leased
      <4>2. QED
        BY <3>3, <3>6, <4>1
    <3>7. QED
      BY <3>2, <3>3, <3>4, <3>5, <3>6 DEF LockEffects
  <2>3. QED
    BY <1>2, <2>1, <2>2 DEF Next, Acts
<1>3. QED
  BY <1>1, <1>2, ProductionInvariant, PTL DEF Spec, Publication, AP!Spec

=============================================================================
