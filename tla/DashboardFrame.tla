--------------------------- MODULE DashboardFrame ---------------------------
(***************************************************************************)
(* The iframe in which Home Assistant shows the React dashboard, and the   *)
(* card element that owns it (src/src/panel/sfentonReactAppCard.ts).  Home *)
(* Assistant attaches, detaches and replaces the card as it likes; the     *)
(* iframe is kept in a window property and outlives the card, so that the  *)
(* running app survives.  Three other parties act on it: deployments,      *)
(* which change the published build and the card's configured version; the *)
(* web view, which hides, shows and freezes the page; and the browser,     *)
(* which answers, commits, parses and starts the document on its own time. *)
(*                                                                         *)
(* Every action is one event-loop task: an element callback, an event, a   *)
(* timer or a settled promise, with everything it calls.                   *)
(***************************************************************************)
EXTENDS Naturals, Sequences

CONSTANTS Cards,        \* the card elements Home Assistant creates
          Nobody,       \* no card owns the frame
          MaxVersion,   \* bound: versions configured
          MaxBuild      \* bound: bundles published

ASSUME FrameAssumption ==
  MaxVersion \in Nat \ {0} /\ MaxBuild \in Nat \ {0} /\ Nobody \notin Cards

VARIABLES site,    \* the published bundle, the version the card config names
          page,    \* Home Assistant's page: on the card's path, hidden
          card,    \* each card element: connected, and the version it was given
          frame,   \* the window property: the frame and the work pending on it
          doc      \* the iframe's document and the navigation replacing it

vars == <<site, page, card, frame, doc>>

Versions == 1..MaxVersion
Builds == 1..MaxBuild

NoFrame == [kind |-> "none"]
NoUpdate == [at |-> "none", running |-> 0]
EmptyDocument == [phase |-> "blank", build |-> 0, nav |-> "none", got |-> 0, stalled |-> FALSE]

(* A frame as createPersistentFrame and watchStalledFrameLoads leave it.    *)
(* check is the four-second timer of the stalled-load watch; "refused"      *)
(* records that it fired within a minute of the last recovery, and load     *)
(* "mistaken" that it took the app of a document on its way out for the one *)
(* being loaded; the code has no pending load then.                         *)
Created ==
  [kind |-> "frame", attached |-> TRUE, owner |-> Nobody, url |-> 0,
   listening |-> FALSE, timer |-> FALSE, load |-> "none", check |-> "none",
   recent |-> FALSE, update |-> NoUpdate]

Present == frame # NoFrame
Pending(f) == f.load \in {"clean", "interrupted"}

Frames ==
  [kind : {"frame"}, attached : BOOLEAN, owner : Cards \cup {Nobody},
   url : 0..MaxVersion, listening : BOOLEAN, timer : BOOLEAN,
   load : {"none", "mistaken", "clean", "interrupted"},
   check : {"none", "set", "refused"}, recent : BOOLEAN,
   update : [at : {"none", "fetch", "wait"}, running : 0..MaxBuild]]
Documents ==
  [phase : {"blank", "loading", "interactive", "started", "ended"},
   build : 0..MaxBuild, nav : {"none", "sent", "answered"},
   got : 0..MaxBuild, stalled : BOOLEAN]

(* Only a frame that is there and in the page has a document.               *)
TypeOK ==
  /\ site \in [ver : Versions, build : Builds, of : Seq(Builds)]
  /\ page \in [card : BOOLEAN, hidden : BOOLEAN]
  /\ card \in [Cards -> [on : BOOLEAN, ver : 0..MaxVersion]]
  /\ frame \in Frames \cup {NoFrame}
  /\ doc \in Documents
  /\ ~(Present /\ frame.attached) => doc = EmptyDocument

Init ==
  /\ site = [ver |-> 1, build |-> 1, of |-> <<1>>]
  /\ page = [card |-> TRUE, hidden |-> FALSE]
  /\ card = [c \in Cards |-> [on |-> FALSE, ver |-> 0]]
  /\ frame = NoFrame
  /\ doc = EmptyDocument

-----------------------------------------------------------------------------
(* Documents.  A frame's document stays in place, and can be read, until    *)
(* the navigation that replaces it commits.                                 *)

FrameAppStarted == doc.phase = "started"

(* The module script of the document in place, once it can be read; a       *)
(* disposed app's document still shows its script.                          *)
RunningEntryScript ==
  IF doc.phase \in {"interactive", "started", "ended"} THEN doc.build ELSE 0

(* disposeReactDashboardFrame: the app unmounts if it was there to be told. *)
Disposed(d) == [d EXCEPT !.phase = IF @ = "started" THEN "ended" ELSE @]

(* navigateFrame, on the frame's record and on its document.                *)
NeverInterrupted(hidden) == "clean"
Interrupted(hidden) == IF hidden THEN "interrupted" ELSE "clean"
Navigated(f, hidden) == [f EXCEPT !.load = Interrupted(hidden)]
Replaced(f, d) == IF f.attached THEN [Disposed(d) EXCEPT !.nav = "sent", !.got = 0,
                                                         !.stalled = FALSE]
                  ELSE d

(* loadFrameSource: a pending update is dropped with the source it was for. *)
LoadFrameSource(f, d, v) ==
  /\ frame' = Navigated([f EXCEPT !.update = NoUpdate, !.url = v], page.hidden)
  /\ doc' = Replaced(f, d)

ReloadAtOnce(f, v) == LoadFrameSource(f, doc, v)
(* scheduleVersionUpdate with a build to compare with: the published page   *)
(* is fetched, and the running one kept meanwhile.                          *)
ScheduleVersionUpdate(f, v) ==
  /\ frame' = [f EXCEPT !.url = v, !.update = [at |-> "fetch", running |-> RunningEntryScript]]
  /\ doc' = doc

(* apply in scheduleVersionUpdate.                                          *)
ApplyUpdate(f, hidden) ==
  /\ frame' = Navigated([f EXCEPT !.update = NoUpdate], hidden)
  /\ doc' = Replaced(f, doc)

-----------------------------------------------------------------------------
(* Ownership.                                                               *)

Cleared(f) == [f EXCEPT !.timer = FALSE, !.listening = FALSE]

(* A frame whose iframe was removed is forgotten and another is created.    *)
AcquirePersistentFrame(c) ==
  [Cleared(IF Present /\ frame.attached THEN frame ELSE Created) EXCEPT !.owner = c]

DisposePersistentFrame == frame' = NoFrame /\ doc' = EmptyDocument

Render(c, v) ==
  LET f == AcquirePersistentFrame(c)
      d == IF Present /\ frame.attached THEN doc ELSE EmptyDocument
  IN  CASE f.url = v -> frame' = f /\ doc' = d
        [] f.url # v /\ f.url # 0 /\ RunningEntryScript # 0 -> ScheduleVersionUpdate(f, v)
        [] OTHER -> LoadFrameSource(f, d, v)

UntilGraceEnds(f, onCard) ==
  IF f.owner = Nobody /\ (~f.attached \/ ~onCard) THEN DisposePersistentFrame
  ELSE frame' = Cleared(f) /\ doc' = doc
(* disposeIfDeparted: run by a route event or by the grace timer, for the   *)
(* frame f as it then stands and the path Home Assistant then shows.        *)
DisposeIfDeparted(f, onCard) ==
  IF f.owner # Nobody THEN frame' = Cleared(f) /\ doc' = doc
  ELSE IF ~f.attached \/ ~onCard THEN DisposePersistentFrame
  ELSE frame' = f /\ doc' = doc

ReleasePersistentFrame(c) ==
  IF ~Present \/ frame.owner # c THEN UNCHANGED <<frame, doc>>
  ELSE IF ~page.card THEN DisposePersistentFrame
  ELSE /\ frame' = [frame EXCEPT !.owner = Nobody, !.listening = TRUE, !.timer = TRUE]
       /\ doc' = doc

-----------------------------------------------------------------------------
(* Home Assistant and the card's callbacks.                                 *)

SetConfig(c) ==
  /\ card[c].ver # site.ver
  /\ card' = [card EXCEPT ![c].ver = site.ver]
  /\ IF card[c].on THEN Render(c, site.ver) ELSE UNCHANGED <<frame, doc>>
  /\ UNCHANGED <<site, page>>

Connect(c) ==
  /\ page.card /\ ~card[c].on /\ card[c].ver # 0
  /\ card' = [card EXCEPT ![c].on = TRUE]
  /\ Render(c, card[c].ver)
  /\ UNCHANGED <<site, page>>

Disconnect(c) ==
  /\ card[c].on
  /\ card' = [card EXCEPT ![c].on = FALSE]
  /\ ReleasePersistentFrame(c)
  /\ UNCHANGED <<site, page>>

(* Home Assistant moves to the card's path or away from it, or comes back   *)
(* from the background without moving; each tells the window.               *)
RouteEvent(onCard) ==
  /\ page' = [page EXCEPT !.card = onCard]
  /\ IF Present /\ frame.listening THEN DisposeIfDeparted(frame, onCard)
     ELSE UNCHANGED <<frame, doc>>
  /\ UNCHANGED <<site, card>>

GraceExpires ==
  /\ Present /\ frame.timer
  /\ DisposeIfDeparted([frame EXCEPT !.timer = FALSE], page.card)
  /\ UNCHANGED <<site, page, card>>

(* Something else in the page removes the iframe; its document goes too.    *)
Detach ==
  /\ Present /\ frame.attached
  /\ frame' = [frame EXCEPT !.attached = FALSE]
  /\ doc' = EmptyDocument
  /\ UNCHANGED <<site, page, card>>

-----------------------------------------------------------------------------
(* Deployments: the bundle is published before the metadata names a new     *)
(* version; many deployments leave the bundle as it was.                    *)

Publish ==
  /\ site.build < MaxBuild
  /\ site' = [site EXCEPT !.build = @ + 1]
  /\ UNCHANGED <<page, card, frame, doc>>

Configure ==
  /\ site.ver < MaxVersion
  /\ site' = [site EXCEPT !.ver = @ + 1, !.of = Append(@, site.build)]
  /\ UNCHANGED <<page, card, frame, doc>>

UnreadableIsUnchanged(ok) ==
  /\ Present /\ frame.update.at = "fetch"
  /\ IF ok => site.build = frame.update.running
     THEN frame' = [frame EXCEPT !.update = NoUpdate] /\ doc' = doc
     ELSE IF page.hidden THEN ApplyUpdate(frame, TRUE)
     ELSE frame' = [frame EXCEPT !.update.at = "wait"] /\ doc' = doc
  /\ UNCHANGED <<site, page, card>>
(* deferUnlessIdentical; a page that cannot be read counts as changed.      *)
Published(ok) ==
  /\ Present /\ frame.update.at = "fetch"
  /\ IF ok /\ site.build = frame.update.running
     THEN frame' = [frame EXCEPT !.update = NoUpdate] /\ doc' = doc
     ELSE IF page.hidden THEN ApplyUpdate(frame, TRUE)
     ELSE frame' = [frame EXCEPT !.update.at = "wait"] /\ doc' = doc
  /\ UNCHANGED <<site, page, card>>

DeferredForGood ==
  /\ Present /\ frame.update.at = "wait" /\ page.hidden
  /\ ApplyUpdate(frame, TRUE)
  /\ UNCHANGED <<site, page, card>>
(* REACT_DASHBOARD_UPDATE_MAX_DEFER_MS has passed.                          *)
DeferralEnds ==
  /\ Present /\ frame.update.at = "wait"
  /\ ApplyUpdate(frame, page.hidden)
  /\ UNCHANGED <<site, page, card>>

-----------------------------------------------------------------------------
(* The web view: both visibility listeners run, the watch's first.          *)

Watched(f) ==
  [f EXCEPT !.load = IF Pending(f) THEN "interrupted" ELSE @, !.check = "none"]

Hide ==
  /\ ~page.hidden
  /\ page' = [page EXCEPT !.hidden = TRUE]
  /\ IF ~Present THEN UNCHANGED <<frame, doc>>
     ELSE IF frame.update.at = "wait" THEN ApplyUpdate(Watched(frame), TRUE)
     ELSE frame' = Watched(frame) /\ doc' = doc
  /\ UNCHANGED <<site, card>>

Show ==
  /\ page.hidden
  /\ page' = [page EXCEPT !.hidden = FALSE]
  /\ frame' = IF Present /\ frame.load = "interrupted"
              THEN [frame EXCEPT !.check = "set"] ELSE frame
  /\ UNCHANGED <<site, card, doc>>

(* iOS freezes a backgrounded web view, and the load it catches never       *)
(* finishes.                                                                *)
Freeze ==
  /\ page.hidden /\ doc.phase \in {"loading", "interactive"}
  /\ doc' = [doc EXCEPT !.stalled = TRUE]
  /\ UNCHANGED <<site, page, card, frame>>

(* recoverIfStalled, four seconds after the page came back.                 *)
CheckStalled ==
  /\ Present /\ frame.check = "set"
  /\ LET f == [frame EXCEPT !.check = "none"]
     IN  CASE f.load # "interrupted" \/ ~f.attached -> frame' = f /\ doc' = doc
           [] f.load = "interrupted" /\ f.attached /\ FrameAppStarted ->
                frame' = [f EXCEPT !.load = IF doc.nav = "none" THEN "none" ELSE "mistaken"]
                /\ doc' = doc
           [] f.load = "interrupted" /\ f.attached /\ ~FrameAppStarted /\ f.recent ->
                frame' = [f EXCEPT !.check = "refused"] /\ doc' = doc
           [] OTHER ->
                /\ frame' = Navigated([f EXCEPT !.recent = TRUE], page.hidden)
                /\ doc' = Replaced(f, doc)
  /\ UNCHANGED <<site, page, card>>

(* REACT_DASHBOARD_STALLED_LOAD_RETRY_MS have passed since a recovery.      *)
RetryWindowPasses ==
  /\ Present /\ frame.recent
  /\ frame' = [frame EXCEPT !.recent = FALSE]
  /\ UNCHANGED <<site, page, card, doc>>

-----------------------------------------------------------------------------
(* The browser.                                                             *)

Answer ==
  /\ doc.nav = "sent"
  /\ doc' = [doc EXCEPT !.nav = "answered", !.got = site.build]
  /\ UNCHANGED <<site, page, card, frame>>

Commit ==
  /\ doc.nav = "answered"
  /\ doc' = [EmptyDocument EXCEPT !.phase = "loading", !.build = doc.got]
  /\ UNCHANGED <<site, page, card, frame>>

Parse ==
  /\ doc.phase = "loading" /\ ~doc.stalled
  /\ doc' = [doc EXCEPT !.phase = "interactive"]
  /\ UNCHANGED <<site, page, card, frame>>

Mount ==
  /\ doc.phase = "interactive" /\ ~doc.stalled
  /\ doc' = [doc EXCEPT !.phase = "started"]
  /\ UNCHANGED <<site, page, card, frame>>

(* onLoad, for the document of the last navigation.                         *)
Loaded ==
  /\ Present /\ Pending(frame)
  /\ doc.nav = "none" /\ doc.phase \in {"started", "ended"}
  /\ frame' = [frame EXCEPT !.load = "none"]
  /\ UNCHANGED <<site, page, card, doc>>

-----------------------------------------------------------------------------
HomeAssistant ==
  \/ \E c \in Cards : SetConfig(c) \/ Connect(c) \/ Disconnect(c)
  \/ \E onCard \in BOOLEAN : RouteEvent(onCard)
  \/ GraceExpires
  \/ Detach
WebView == Hide \/ Show \/ Freeze \/ CheckStalled \/ RetryWindowPasses
Deployment == Publish \/ Configure \/ DeferralEnds \/ \E ok \in BOOLEAN : Published(ok)
Browser == Answer \/ Commit \/ Parse \/ Mount \/ Loaded

Next == HomeAssistant \/ WebView \/ Deployment \/ Browser

(* A request is settled, a timer fires, a navigation is answered and        *)
(* committed, and Home Assistant gives every card it keeps the current      *)
(* config in the end; nothing else is assumed of it, of the web view or of  *)
(* the deployments.                                                         *)
Fairness ==
  /\ WF_vars(\E c \in Cards : SetConfig(c))
  /\ WF_vars(\E ok \in BOOLEAN : Published(ok))
  /\ WF_vars(DeferralEnds)
  /\ WF_vars(Answer)
  /\ WF_vars(Commit)

Spec == Init /\ [][Next]_vars /\ Fairness

-----------------------------------------------------------------------------
(* The frame covers the whole window.  Whatever order Home Assistant        *)
(* connects, replaces and removes cards and routes in, a frame is there     *)
(* only while its owner is, or on the card's own path with something        *)
(* listening for the departure.                                             *)
OverlayHasReason ==
  Present => \/ frame.owner # Nobody /\ card[frame.owner].on
             \/ frame.owner = Nobody /\ page.card /\ frame.listening

(* With no update pending and no navigation under way, the app that runs is *)
(* at least the build the frame's configured version stands for: no order   *)
(* of deployments, config refreshes, hiding and recovery loses an update.   *)
SettledIsCurrent ==
  Present /\ frame.update.at = "none" /\ doc.nav = "none" /\ FrameAppStarted
    => doc.build >= site.of[frame.url]

(* A load that a freeze caught is never shown without a recovery: once the  *)
(* page is visible the check is set, unless it was refused for coming       *)
(* within a minute of the last one, or had been satisfied too early.        *)
StallIsWatched ==
  Present /\ doc.stalled /\ ~page.hidden
    => frame.check # "none" \/ frame.load = "mistaken"

(* An app somebody is looking at is torn down only when an update that      *)
(* found a changed build has waited for it, or with the whole frame,        *)
(* however many versions and cards come and go; otherwise its document was  *)
(* already being replaced when it started.                                  *)
Shown == Present /\ frame.owner # Nobody /\ ~page.hidden /\ FrameAppStarted
Taken == Present' /\ frame'.attached /\ doc'.phase # "started"
QuietUpdate == [][Shown /\ Taken => frame.update.at = "wait" \/ doc.nav # "none"]_vars

(* A running app that is behind the configured version does not stay so.    *)
Behind == Present /\ FrameAppStarted /\ doc.build < site.of[frame.url]
BehindEnds == Behind ~> ~Behind
=============================================================================
