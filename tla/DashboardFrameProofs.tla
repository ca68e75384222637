------------------------ MODULE DashboardFrameProofs ------------------------
(***************************************************************************)
(* What holds of the dashboard's frame for any number of cards, versions   *)
(* and builds.                                                             *)
(***************************************************************************)
EXTENDS DashboardFrame, SequenceTheorems, TLAPS

(* Builds and versions only grow, and nothing is ahead of the site: not the *)
(* cards, not the frame, not the document or the one that replaces it.      *)
Grown ==
  /\ Len(site.of) = site.ver
  /\ \A v \in 1..site.ver : site.of[v] <= site.build
  /\ \A c \in Cards : card[c].ver <= site.ver
  /\ Present => frame.url \in 1..site.ver
  /\ doc.build <= site.build /\ doc.got <= site.build
  /\ doc.phase # "blank" => doc.build >= 1
  /\ doc.nav = "answered" => doc.build <= doc.got /\ doc.got >= 1

(* Without an update to wait for, the document and the answer that is to    *)
(* replace it are current; with one, the document is no older than the      *)
(* build the published one is compared with.                                *)
Current ==
  Present /\ frame.update.at = "none" =>
    /\ doc.nav = "none" /\ doc.phase # "blank" => doc.build >= site.of[frame.url]
    /\ doc.nav = "answered" => doc.got >= site.of[frame.url]
Compared ==
  Present /\ frame.attached /\ frame.update.at # "none" => frame.update.running <= doc.build

(* A document under way has a load pending, which hiding interrupts; what   *)
(* a freeze caught is such a document.                                      *)
Awaited ==
  Present /\ (doc.nav # "none" \/ doc.phase \in {"loading", "interactive"}) => frame.load # "none"
HiddenIsInterrupted == Present /\ page.hidden => frame.load # "clean"
Caught ==
  doc.stalled => /\ Present /\ frame.load \in {"interrupted", "mistaken"}
                 /\ doc.phase \in {"loading", "interactive"}

FrameInv ==
  /\ TypeOK /\ OverlayHasReason
  /\ Grown /\ Current /\ Compared
  /\ Awaited /\ HiddenIsInterrupted /\ Caught /\ StallIsWatched

-----------------------------------------------------------------------------
(* A frame is told from its absence by its kind.                            *)
LEMMA AbsentIsNoFrame == NoFrame \notin Frames
  BY DEF NoFrame, Frames

LEMMA PresentIsFrame ==
  ASSUME TypeOK PROVE Present <=> frame \in Frames
  BY AbsentIsNoFrame DEF TypeOK, Present

(* The initial state.                                                       *)
LEMMA InitFrame == Init => FrameInv
  BY FrameAssumption
  DEF Init, FrameInv, TypeOK, Present, NoFrame, EmptyDocument, Documents, Versions, Builds,
      OverlayHasReason, Grown, Current, Compared, Awaited, HiddenIsInterrupted, Caught,
      StallIsWatched, FrameAppStarted

(* Steps of the browser that only move the document of an attached frame.   *)
LEMMA DocumentTypes ==
  ASSUME TypeOK, doc # EmptyDocument, doc' \in Documents, UNCHANGED <<site, page, card, frame>>
  PROVE  TypeOK' /\ Present /\ frame.attached
<1>1. Present /\ frame.attached
  BY DEF TypeOK
<1>2. QED
  BY <1>1 DEF TypeOK, Present

LEMMA FreezeKeeps ==
  ASSUME FrameInv, Freeze PROVE FrameInv'
<1> USE PresentIsFrame DEF Freeze, FrameInv
<1>1. TypeOK' /\ Present /\ frame.attached
  <2>1. doc # EmptyDocument
    BY DEF EmptyDocument
  <2>2. doc' \in Documents
    BY DEF TypeOK, Documents
  <2>3. QED  BY <2>1, <2>2, DocumentTypes
<1>2. OverlayHasReason'
  BY DEF OverlayHasReason, Present
<1>3. Grown'
  BY DEF Grown, Present, TypeOK, Documents
<1>4. Current' /\ Compared'
  BY DEF Current, Compared, Present, TypeOK, Documents
<1>5. Awaited' /\ HiddenIsInterrupted' /\ Caught' /\ StallIsWatched'
  BY <1>1 DEF Awaited, HiddenIsInterrupted, Caught, StallIsWatched, Present, Frames, TypeOK, Documents
<1>6. QED  BY <1>1, <1>2, <1>3, <1>4, <1>5

LEMMA AnswerKeeps ==
  ASSUME FrameInv, Answer PROVE FrameInv'
<1> USE DEF Answer, FrameInv
<1>1. TypeOK' /\ Present /\ frame.attached
  <2>1. doc # EmptyDocument
    BY DEF EmptyDocument
  <2>2. doc' \in Documents
    <3>1. site.build \in 0..MaxBuild
      BY FrameAssumption DEF TypeOK, Builds
    <3>2. QED  BY <3>1 DEF TypeOK, Documents
  <2>3. QED  BY <2>1, <2>2, DocumentTypes
<1>2. OverlayHasReason'
  BY DEF OverlayHasReason, Present
<1>3. Grown'
  BY DEF Grown, Present, TypeOK, Documents, Builds
<1>4. Current' /\ Compared'
  BY <1>1, PresentIsFrame DEF Current, Compared, Present, Grown, Frames, TypeOK, Documents, Builds
<1>5. Awaited' /\ HiddenIsInterrupted' /\ Caught' /\ StallIsWatched'
  BY <1>1 DEF Awaited, HiddenIsInterrupted, Caught, StallIsWatched, Present, TypeOK, Documents
<1>6. QED  BY <1>1, <1>2, <1>3, <1>4, <1>5

LEMMA CommitKeeps ==
  ASSUME FrameInv, Commit PROVE FrameInv'
<1> USE DEF Commit, FrameInv
<1>1. TypeOK' /\ Present /\ frame.attached
  <2>1. doc # EmptyDocument
    BY DEF EmptyDocument
  <2>2. doc' \in Documents
    <3>1. doc.got \in 0..MaxBuild /\ 0 \in 0..MaxBuild
      BY FrameAssumption DEF TypeOK, Documents
    <3>2. doc' = [phase |-> "loading", build |-> doc.got, nav |-> "none", got |-> 0,
                  stalled |-> FALSE]
      BY DEF EmptyDocument
    <3> HIDE DEF Commit, FrameInv
    <3>3. QED  BY <3>1, <3>2 DEF Documents
  <2>3. QED  BY <2>1, <2>2, DocumentTypes
<1>2. OverlayHasReason'
  BY DEF OverlayHasReason, Present
<1>3. Grown'
  BY DEF Grown, Present, TypeOK, Documents, EmptyDocument, Builds
<1>4. Current' /\ Compared'
  BY <1>1, PresentIsFrame DEF Current, Compared, Present, Grown, Frames, TypeOK, Documents, EmptyDocument, Builds
<1>5. Awaited' /\ HiddenIsInterrupted' /\ Caught' /\ StallIsWatched'
  BY <1>1 DEF Awaited, HiddenIsInterrupted, Caught, StallIsWatched, Present, TypeOK, Documents,
              EmptyDocument
<1>6. QED  BY <1>1, <1>2, <1>3, <1>4, <1>5

LEMMA ParseMountKeeps ==
  ASSUME FrameInv, Parse \/ Mount PROVE FrameInv'
<1> USE PresentIsFrame DEF Parse, Mount, FrameInv
<1>1. TypeOK' /\ Present /\ frame.attached
  <2>1. doc # EmptyDocument
    BY DEF EmptyDocument
  <2>2. doc' \in Documents
    BY DEF TypeOK, Documents
  <2>3. QED  BY <2>1, <2>2, DocumentTypes
<1>2. OverlayHasReason'
  BY DEF OverlayHasReason, Present
<1>3. Grown'
  BY DEF Grown, Present, TypeOK, Documents
<1>4. Current' /\ Compared'
  BY DEF Current, Compared, Present, TypeOK, Documents
<1>5. Awaited' /\ HiddenIsInterrupted' /\ Caught' /\ StallIsWatched'
  BY <1>1 DEF Awaited, HiddenIsInterrupted, Caught, StallIsWatched, Present, TypeOK, Documents
<1>6. QED  BY <1>1, <1>2, <1>3, <1>4, <1>5

-----------------------------------------------------------------------------
(* Steps that only move the frame's timers and pending load.                *)
LEMMA FrameTypes ==
  ASSUME TypeOK, Present, frame' \in Frames, frame'.attached = frame.attached,
         page' \in [card : BOOLEAN, hidden : BOOLEAN], UNCHANGED <<site, card, doc>>
  PROVE  TypeOK' /\ Present'
<1>1. Present'
  BY AbsentIsNoFrame DEF Present
<1>2. QED
  BY <1>1 DEF TypeOK

LEMMA LoadedKeeps ==
  ASSUME FrameInv, Loaded PROVE FrameInv'
<1> USE DEF Loaded, FrameInv
<1>1. frame \in Frames
  BY PresentIsFrame
<1>2. TypeOK' /\ Present'
  <2>1. frame' \in Frames /\ frame'.attached = frame.attached
    BY <1>1 DEF Frames
  <2>2. QED  BY <2>1, FrameTypes DEF TypeOK
<1>3. OverlayHasReason'
  BY <1>1 DEF OverlayHasReason, Frames
<1>4. Grown' /\ Current' /\ Compared'
  BY <1>1 DEF Grown, Current, Compared, Frames
<1>5. Awaited' /\ HiddenIsInterrupted' /\ Caught' /\ StallIsWatched'
  BY <1>1 DEF Awaited, HiddenIsInterrupted, Caught, StallIsWatched, Frames, TypeOK, Documents
<1>6. QED  BY <1>2, <1>3, <1>4, <1>5

(* Whatever a step does to the owner, the listeners and the timers of a     *)
(* frame, the parts about its load and its document only ask that these     *)
(* stay, that the page is not hidden by it and that the check is not lost.  *)
LEMMA TimersKeep ==
  ASSUME FrameInv, Present, frame' \in Frames,
         frame'.attached = frame.attached, frame'.url = frame.url,
         frame'.load = frame.load, frame'.update = frame.update,
         page' \in [card : BOOLEAN, hidden : BOOLEAN], page'.hidden = page.hidden,
         card' \in [Cards -> [on : BOOLEAN, ver : 0..MaxVersion]],
         \A c \in Cards : card'[c].ver <= site.ver,
         UNCHANGED <<site, doc>>,
         frame.check # "none" => frame'.check # "none"
  PROVE  /\ TypeOK' /\ Present' /\ Grown' /\ Current' /\ Compared'
         /\ Awaited' /\ HiddenIsInterrupted' /\ Caught' /\ StallIsWatched'
<1> USE DEF FrameInv
<1>1. Present'
  BY AbsentIsNoFrame DEF Present
<1>2. TypeOK'
  BY <1>1 DEF TypeOK
<1>3. Grown' /\ Current' /\ Compared'
  BY <1>1 DEF Grown, Current, Compared
<1>4. Awaited' /\ HiddenIsInterrupted' /\ Caught' /\ StallIsWatched'
  BY <1>1 DEF Awaited, HiddenIsInterrupted, Caught, StallIsWatched
<1>5. QED  BY <1>1, <1>2, <1>3, <1>4

LEMMA RetryWindowKeeps ==
  ASSUME FrameInv, RetryWindowPasses PROVE FrameInv'
<1> USE DEF RetryWindowPasses
<1>1. frame \in Frames
  BY PresentIsFrame DEF FrameInv
<1>2. /\ frame' \in Frames /\ frame'.attached = frame.attached /\ frame'.url = frame.url
      /\ frame'.load = frame.load /\ frame'.update = frame.update /\ frame'.check = frame.check
      /\ frame'.owner = frame.owner /\ frame'.listening = frame.listening
  BY <1>1 DEF Frames
<1>3. OverlayHasReason'
  BY <1>2 DEF FrameInv, OverlayHasReason
<1>4. QED
  BY <1>2, <1>3, TimersKeep DEF FrameInv, TypeOK, Grown

LEMMA ShowKeeps ==
  ASSUME FrameInv, Show PROVE FrameInv'
<1> USE DEF Show, FrameInv
<1>1. CASE ~(Present /\ frame.load = "interrupted")
  <2>1. TypeOK' /\ OverlayHasReason' /\ Grown' /\ Current' /\ Compared'
    BY <1>1 DEF TypeOK, OverlayHasReason, Grown, Current, Compared, Present
  <2>2. frame' = frame /\ doc' = doc /\ ~page'.hidden
    BY <1>1 DEF TypeOK
  <2>3. Awaited' /\ HiddenIsInterrupted' /\ Caught'
    BY <2>2 DEF Awaited, HiddenIsInterrupted, Caught, Present
  <2>4. StallIsWatched'
    BY <1>1, <2>2 DEF Caught, StallIsWatched, Present
  <2>5. QED  BY <2>1, <2>3, <2>4
<1>2. CASE Present /\ frame.load = "interrupted"
  <2>1. frame \in Frames
    BY <1>2, PresentIsFrame
  <2>2. TypeOK' /\ Present'
    <3>1. frame' \in Frames /\ frame'.attached = frame.attached
      BY <1>2, <2>1 DEF Frames
    <3>2. page' \in [card : BOOLEAN, hidden : BOOLEAN]
      BY DEF TypeOK
    <3>3. QED  BY <1>2, <3>1, <3>2, FrameTypes
  <2>3. OverlayHasReason'
    BY <1>2, <2>1 DEF OverlayHasReason, Frames, TypeOK
  <2>4. Grown' /\ Current' /\ Compared'
    BY <1>2, <2>1 DEF Grown, Current, Compared, Frames
  <2>5. Awaited' /\ HiddenIsInterrupted' /\ Caught' /\ StallIsWatched'
    BY <1>2, <2>1, <2>2 DEF Awaited, HiddenIsInterrupted, Caught, StallIsWatched, Frames, TypeOK
  <2>6. QED  BY <2>2, <2>3, <2>4, <2>5
<1>3. QED  BY <1>1, <1>2

-----------------------------------------------------------------------------
(* The parts of the invariant that are not about the owner.                 *)
Rest ==
  /\ TypeOK /\ Grown /\ Current /\ Compared
  /\ Awaited /\ HiddenIsInterrupted /\ Caught /\ StallIsWatched

(* A frame that is gone has no document and nothing pending.                *)
LEMMA AbsentKeeps ==
  ASSUME FrameInv, frame' = NoFrame, doc' = EmptyDocument,
         page' \in [card : BOOLEAN, hidden : BOOLEAN],
         card' \in [Cards -> [on : BOOLEAN, ver : 0..MaxVersion]],
         \A c \in Cards : card'[c].ver <= site.ver, site' = site
  PROVE  FrameInv'
<1> USE DEF FrameInv
<1>1. ~Present'
  BY DEF Present
<1>2. EmptyDocument \in Documents
  BY FrameAssumption DEF EmptyDocument, Documents
<1>3. TypeOK'
  BY <1>1, <1>2 DEF TypeOK
<1>4. Grown'
  <2>1. site.build >= 0
    BY DEF TypeOK, Builds
  <2>2. QED  BY <1>1, <2>1 DEF Grown, EmptyDocument
<1>5. OverlayHasReason' /\ Current' /\ Compared'
  BY <1>1 DEF OverlayHasReason, Current, Compared
<1>6. Awaited' /\ HiddenIsInterrupted' /\ Caught' /\ StallIsWatched'
  BY <1>1 DEF Awaited, HiddenIsInterrupted, Caught, StallIsWatched, EmptyDocument
<1>7. QED  BY <1>3, <1>4, <1>5, <1>6

(* A navigation of a frame that has an update to wait for or none at all:   *)
(* whatever document it had, its load is pending, caught by nothing, and    *)
(* what comes is current.                                                   *)
LEMMA NavigationKeeps ==
  ASSUME FrameInv, NEW f \in Frames, NEW d \in Documents, NEW g, NEW hidden \in BOOLEAN,
         g.attached = f.attached, ~f.attached => d = EmptyDocument,
         f.url \in 1..site.ver,
         f.update.at = "none" \/ (f.attached => f.update.running <= d.build),
         d.build <= site.build, d.phase # "blank" => d.build >= 1,
         frame' = Navigated(f, hidden), doc' = Replaced(g, d),
         page' \in [card : BOOLEAN, hidden : BOOLEAN], page'.hidden => hidden,
         card' \in [Cards -> [on : BOOLEAN, ver : 0..MaxVersion]],
         \A c \in Cards : card'[c].ver <= site.ver, site' = site
  PROVE  Rest' /\ Present' /\ frame'.owner = f.owner /\ frame'.listening = f.listening
<1> USE DEF FrameInv
<1>1. /\ frame' \in Frames /\ frame'.attached = f.attached /\ frame'.url = f.url
      /\ frame'.update = f.update /\ frame'.owner = f.owner /\ frame'.listening = f.listening
      /\ frame'.load = Interrupted(hidden) /\ frame'.load \in {"clean", "interrupted"}
  BY DEF Frames, Navigated, Interrupted
<1>2. Present'
  BY <1>1, AbsentIsNoFrame DEF Present
<1>3. CASE f.attached
  <2>1. /\ doc' \in Documents /\ doc'.build = d.build /\ doc'.nav = "sent" /\ doc'.got = 0
        /\ ~doc'.stalled /\ (doc'.phase = "blank" <=> d.phase = "blank")
    <3>1. 0 \in 0..MaxBuild
      BY FrameAssumption
    <3>2. QED  BY <1>3, <3>1 DEF Replaced, Disposed, Documents
  <2>2. TypeOK'
    BY <1>1, <1>2, <1>3, <2>1 DEF TypeOK
  <2>3. Grown'
    BY <1>1, <1>2, <2>1 DEF Grown, TypeOK, Builds
  <2>4. Current' /\ Compared'
    BY <1>1, <1>2, <2>1 DEF Current, Compared, Frames
  <2>5. Awaited' /\ HiddenIsInterrupted'
    BY <1>1 DEF Awaited, HiddenIsInterrupted, Interrupted
  <2>6. Caught' /\ StallIsWatched'
    BY <2>1 DEF Caught, StallIsWatched
  <2>7. QED  BY <1>1, <1>2, <2>2, <2>3, <2>4, <2>5, <2>6 DEF Rest
<1>4. CASE ~f.attached
  <2>1. doc' = EmptyDocument
    BY <1>4 DEF Replaced
  <2>2. TypeOK'
    BY <1>1, <1>2, <1>4, <2>1 DEF TypeOK
  <2>3. Grown'
    BY <1>1, <1>2, <2>1 DEF Grown, TypeOK, Builds, EmptyDocument
  <2>4. Current' /\ Compared'
    BY <1>1, <1>4, <2>1 DEF Current, Compared, EmptyDocument
  <2>5. Awaited' /\ HiddenIsInterrupted'
    BY <1>1 DEF Awaited, HiddenIsInterrupted, Interrupted
  <2>6. Caught' /\ StallIsWatched'
    BY <2>1 DEF Caught, StallIsWatched, EmptyDocument
  <2>7. QED  BY <1>1, <1>2, <2>2, <2>3, <2>4, <2>5, <2>6 DEF Rest
<1>5. QED  BY <1>3, <1>4

(* The removal of the iframe takes its document.                            *)
LEMMA DetachKeeps ==
  ASSUME FrameInv, Detach PROVE FrameInv'
<1> USE DEF Detach, FrameInv
<1>1. frame \in Frames
  BY PresentIsFrame
<1>2. /\ frame' \in Frames /\ ~frame'.attached /\ frame'.owner = frame.owner
      /\ frame'.listening = frame.listening /\ frame'.url = frame.url /\ frame'.load = frame.load
  BY <1>1 DEF Frames
<1>3. Present'
  BY <1>2, AbsentIsNoFrame DEF Present
<1>4. TypeOK'
  <2>1. EmptyDocument \in Documents
    BY FrameAssumption DEF EmptyDocument, Documents
  <2>2. QED  BY <1>2, <2>1 DEF TypeOK
<1>5. OverlayHasReason'
  BY <1>2 DEF OverlayHasReason
<1>6. Grown' /\ Current' /\ Compared'
  BY <1>2 DEF Grown, Current, Compared, EmptyDocument, TypeOK, Builds
<1>7. Awaited' /\ HiddenIsInterrupted' /\ Caught' /\ StallIsWatched'
  BY <1>2 DEF Awaited, HiddenIsInterrupted, Caught, StallIsWatched, EmptyDocument
<1>8. QED  BY <1>4, <1>5, <1>6, <1>7

-----------------------------------------------------------------------------
(* Deployments.  A bundle is published: everything there is stays behind it.*)
LEMMA PublishKeeps ==
  ASSUME FrameInv, Publish PROVE FrameInv'
<1> USE DEF Publish, FrameInv
<1>1. /\ site'.build = site.build + 1 /\ site'.of = site.of /\ site'.ver = site.ver
      /\ site.build \in Builds /\ site'.build \in Builds
  BY FrameAssumption DEF TypeOK, Builds
<1>2. TypeOK'
  BY <1>1 DEF TypeOK, Present
<1>3. Grown'
  <2>1. \A v \in 1..site.ver : site.of[v] \in Builds
    BY DEF TypeOK, Grown
  <2>2. doc.build \in Nat /\ doc.got \in Nat
    BY DEF TypeOK, Documents
  <2>3. QED  BY <1>1, <2>1, <2>2 DEF Grown, Present, Builds
<1>4. Current' /\ Compared' /\ OverlayHasReason'
  BY <1>1 DEF Current, Compared, OverlayHasReason, Present
<1>5. Awaited' /\ HiddenIsInterrupted' /\ Caught' /\ StallIsWatched'
  BY DEF Awaited, HiddenIsInterrupted, Caught, StallIsWatched, Present
<1>6. QED  BY <1>2, <1>3, <1>4, <1>5

(* A version is configured for the bundle published last.                   *)
LEMMA ConfigureKeeps ==
  ASSUME FrameInv, Configure PROVE FrameInv'
<1> USE DEF Configure, FrameInv
<1>1. /\ site'.build = site.build /\ site'.ver = site.ver + 1
      /\ site'.of = Append(site.of, site.build)
      /\ site.ver \in Versions /\ site'.ver \in Versions
      /\ site.build \in Builds /\ site.of \in Seq(Builds) /\ Len(site.of) = site.ver
  BY FrameAssumption DEF TypeOK, Versions, Grown
<1>2. /\ site'.of \in Seq(Builds) /\ Len(site'.of) = site'.ver
      /\ site'.of[site'.ver] = site.build
      /\ \A v \in 1..site.ver : site'.of[v] = site.of[v]
  BY <1>1, AppendProperties
<1>3. TypeOK'
  BY <1>1, <1>2 DEF TypeOK, Present
<1>4. \A v \in 1..site'.ver : v \in 1..site.ver \/ v = site'.ver
  BY <1>1 DEF Versions
<1>5. Grown'
  <2>1. \A v \in 1..site'.ver : site'.of[v] <= site'.build
    BY <1>1, <1>2, <1>4 DEF Grown, Builds
  <2>2. \A c \in Cards : card'[c].ver <= site'.ver
    <3>1. TAKE c \in Cards
    <3>2. card[c].ver <= site.ver /\ card[c].ver \in Nat
      BY DEF Grown, TypeOK
    <3>3. QED  BY <1>1, <3>2 DEF Versions
  <2>3. QED  BY <1>1, <1>2, <2>1, <2>2 DEF Grown, Present, Versions
<1>6. Current' /\ Compared' /\ OverlayHasReason'
  <2>1. Present => site'.of[frame'.url] = site.of[frame.url]
    BY <1>2 DEF Grown
  <2>2. QED  BY <2>1 DEF Current, Compared, OverlayHasReason, Present
<1>7. Awaited' /\ HiddenIsInterrupted' /\ Caught' /\ StallIsWatched'
  BY DEF Awaited, HiddenIsInterrupted, Caught, StallIsWatched, Present
<1>8. QED  BY <1>3, <1>5, <1>6, <1>7

(* An update is applied, to the frame as a callback of the same task has    *)
(* left its load and its check.                                             *)
LEMMA ApplyKeeps ==
  ASSUME FrameInv, Present, NEW f \in Frames, NEW hidden \in BOOLEAN,
         f.attached = frame.attached, f.url = frame.url, f.owner = frame.owner,
         f.listening = frame.listening,
         ApplyUpdate(f, hidden), page' \in [card : BOOLEAN, hidden : BOOLEAN],
         page'.hidden => hidden, page'.card = page.card, UNCHANGED <<site, card>>
  PROVE  FrameInv'
<1> DEFINE g == [f EXCEPT !.update = NoUpdate]
<1>1. /\ g \in Frames /\ g.attached = frame.attached /\ g.url = frame.url
      /\ g.owner = frame.owner /\ g.listening = frame.listening /\ g.update.at = "none"
  <2>1. NoUpdate \in [at : {"none", "fetch", "wait"}, running : 0..MaxBuild]
    BY FrameAssumption DEF NoUpdate
  <2>2. QED  BY <2>1 DEF Frames, NoUpdate
<1>2. frame' = Navigated(g, hidden) /\ doc' = Replaced(f, doc)
  BY DEF ApplyUpdate
<1>3. /\ doc \in Documents /\ doc.build <= site.build /\ (doc.phase # "blank" => doc.build >= 1)
      /\ (~g.attached => doc = EmptyDocument) /\ g.url \in 1..site.ver
      /\ card' \in [Cards -> [on : BOOLEAN, ver : 0..MaxVersion]]
      /\ \A c \in Cards : card'[c].ver <= site.ver
  BY <1>1 DEF FrameInv, TypeOK, Grown
<1> HIDE DEF g
<1>4. Rest' /\ Present' /\ frame'.owner = g.owner /\ frame'.listening = g.listening
  BY <1>1, <1>2, <1>3, NavigationKeeps
<1>5. OverlayHasReason'
  BY <1>1, <1>4 DEF FrameInv, OverlayHasReason
<1>6. QED  BY <1>4, <1>5 DEF Rest, FrameInv

LEMMA DeferralKeeps ==
  ASSUME FrameInv, DeferralEnds PROVE FrameInv'
<1>1. frame \in Frames /\ page.hidden \in BOOLEAN
  BY PresentIsFrame DEF DeferralEnds, FrameInv, TypeOK
<1>2. QED
  BY <1>1, ApplyKeeps DEF DeferralEnds, FrameInv, TypeOK

(* The comparison with the published page, whatever it reads: a build that  *)
(* is the running one is at least the published one.                        *)
LEMMA PublishedKeeps ==
  ASSUME FrameInv, NEW ok \in BOOLEAN, Published(ok) PROVE FrameInv'
<1>1. /\ frame \in Frames /\ Present /\ frame.update.at = "fetch"
      /\ UNCHANGED <<site, page, card>>
  BY PresentIsFrame DEF Published, FrameInv
<1>2. CASE ok /\ site.build = frame.update.running
  <2>1. frame' = [frame EXCEPT !.update = NoUpdate] /\ doc' = doc
    BY <1>2 DEF Published
  <2>2. /\ frame' \in Frames /\ frame'.attached = frame.attached /\ frame'.url = frame.url
        /\ frame'.owner = frame.owner /\ frame'.listening = frame.listening
        /\ frame'.load = frame.load /\ frame'.check = frame.check /\ frame'.update.at = "none"
    <3>1. NoUpdate \in [at : {"none", "fetch", "wait"}, running : 0..MaxBuild]
      BY FrameAssumption DEF NoUpdate
    <3>2. QED  BY <1>1, <2>1, <3>1 DEF Frames, NoUpdate
  <2>3. Present'
    BY <2>2, AbsentIsNoFrame DEF Present
  <2>4. TypeOK' /\ OverlayHasReason' /\ Grown'
    BY <1>1, <2>1, <2>2, <2>3 DEF FrameInv, TypeOK, OverlayHasReason, Grown
  <2>5. Current'
    <3>1. /\ frame.url \in 1..site.ver /\ site.of[frame.url] <= site.build
          /\ site.of[frame.url] \in Nat /\ site.build \in Nat
      <4>1. \A v \in 1..site.ver : site.of[v] \in Builds
        BY DEF FrameInv, TypeOK, Grown
      <4>2. frame.url \in 1..site.ver /\ site.of[frame.url] <= site.build
        BY <1>1 DEF FrameInv, Grown
      <4>3. site.build \in Builds
        BY DEF FrameInv, TypeOK
      <4>4. QED  BY <4>1, <4>2, <4>3 DEF Builds
    <3>2. CASE frame.attached
      <4>1. site.build <= doc.build /\ doc.build \in Nat /\ doc.got \in Nat
        BY <1>1, <1>2, <3>2 DEF FrameInv, Compared, TypeOK, Documents
      <4>2. doc.build >= site.of[frame.url]
        BY <3>1, <4>1
      <4>3. doc.nav = "answered" => doc.got >= site.of[frame.url]
        BY <3>1, <4>1, <4>2 DEF FrameInv, Grown
      <4>4. QED  BY <1>1, <2>1, <2>2, <4>2, <4>3 DEF Current
    <3>3. CASE ~frame.attached
      <4>1. doc' = EmptyDocument
        BY <1>1, <2>1, <3>3 DEF FrameInv, TypeOK
      <4>2. QED  BY <4>1 DEF Current, EmptyDocument
    <3>4. QED  BY <3>2, <3>3
  <2>6. Compared' /\ Awaited' /\ HiddenIsInterrupted' /\ Caught' /\ StallIsWatched'
    BY <1>1, <2>1, <2>2, <2>3
    DEF FrameInv, Compared, Awaited, HiddenIsInterrupted, Caught, StallIsWatched
  <2>7. QED  BY <2>4, <2>5, <2>6 DEF FrameInv
<1>3. CASE ~(ok /\ site.build = frame.update.running) /\ page.hidden
  <2>1. ApplyUpdate(frame, TRUE)
    BY <1>3 DEF Published
  <2>2. QED
    BY <1>1, <1>3, <2>1, ApplyKeeps DEF FrameInv, TypeOK
<1>4. CASE ~(ok /\ site.build = frame.update.running) /\ ~page.hidden
  <2>1. frame' = [frame EXCEPT !.update.at = "wait"] /\ doc' = doc
    BY <1>4 DEF Published
  <2>2. /\ frame' \in Frames /\ frame'.attached = frame.attached /\ frame'.url = frame.url
        /\ frame'.owner = frame.owner /\ frame'.listening = frame.listening
        /\ frame'.load = frame.load /\ frame'.check = frame.check
        /\ frame'.update.at = "wait" /\ frame'.update.running = frame.update.running
    BY <1>1, <2>1 DEF Frames
  <2>3. Present'
    BY <2>2, AbsentIsNoFrame DEF Present
  <2>4. TypeOK' /\ OverlayHasReason' /\ Grown' /\ Current'
    BY <1>1, <2>1, <2>2, <2>3 DEF FrameInv, TypeOK, OverlayHasReason, Grown, Current
  <2>5. Compared' /\ Awaited' /\ HiddenIsInterrupted' /\ Caught' /\ StallIsWatched'
    BY <1>1, <2>1, <2>2, <2>3
    DEF FrameInv, Compared, Awaited, HiddenIsInterrupted, Caught, StallIsWatched
  <2>6. QED  BY <2>4, <2>5 DEF FrameInv
<1>5. QED  BY <1>2, <1>3, <1>4

-----------------------------------------------------------------------------
(* The web view hides the page; the watch's listener runs first.            *)
LEMMA HideKeeps ==
  ASSUME FrameInv, Hide PROVE FrameInv'
<1>1. /\ ~page.hidden /\ UNCHANGED <<site, card>>
      /\ page' \in [card : BOOLEAN, hidden : BOOLEAN] /\ page'.hidden /\ page'.card = page.card
  BY DEF Hide, FrameInv, TypeOK
<1>2. CASE ~Present
  <2>1. frame' = NoFrame /\ doc' = EmptyDocument
    BY <1>2 DEF Hide, Present, FrameInv, TypeOK
  <2>2. QED
    BY <1>1, <2>1, AbsentKeeps DEF FrameInv, TypeOK, Grown
<1>3. CASE Present
  <2>1. frame \in Frames
    BY <1>3, PresentIsFrame DEF FrameInv
  <2> DEFINE f == Watched(frame)
  <2>2. /\ f \in Frames /\ f.attached = frame.attached /\ f.url = frame.url
        /\ f.owner = frame.owner /\ f.listening = frame.listening /\ f.update = frame.update
        /\ f.load = (IF Pending(frame) THEN "interrupted" ELSE frame.load)
    BY <2>1 DEF Frames, Watched, Pending
  <2>3. CASE frame.update.at = "wait"
    <3>1. ApplyUpdate(f, TRUE)
      BY <1>3, <2>3 DEF Hide
    <3> HIDE DEF f
    <3>2. QED
      BY <1>1, <1>3, <2>2, <3>1, ApplyKeeps
  <2>4. CASE frame.update.at # "wait"
    <3>1. frame' = f /\ doc' = doc
      BY <1>3, <2>4 DEF Hide
    <3> HIDE DEF f
    <3>2. Present'
      BY <2>2, <3>1, AbsentIsNoFrame DEF Present
    <3>3. frame'.load # "clean" /\ (frame'.load = "none" <=> frame.load = "none")
          /\ (frame'.load = "mistaken" <=> frame.load = "mistaken")
      BY <2>1, <2>2, <3>1 DEF Pending, Frames
    <3>4. TypeOK' /\ OverlayHasReason' /\ Grown' /\ Current' /\ Compared'
      BY <1>1, <1>3, <2>2, <3>1, <3>2
      DEF FrameInv, TypeOK, OverlayHasReason, Grown, Current, Compared
    <3>5. Awaited' /\ HiddenIsInterrupted' /\ StallIsWatched'
      BY <1>1, <1>3, <3>1, <3>3 DEF FrameInv, Awaited, HiddenIsInterrupted, StallIsWatched
    <3>6. Caught'
      BY <1>3, <2>2, <3>1, <3>2, <3>3 DEF FrameInv, Caught, Pending
    <3>7. QED  BY <3>4, <3>5, <3>6 DEF FrameInv
  <2>5. QED  BY <2>3, <2>4
<1>4. QED  BY <1>2, <1>3

(* The check of a load that may have stalled.                               *)
LEMMA CheckStalledKeeps ==
  ASSUME FrameInv, CheckStalled PROVE FrameInv'
<1> DEFINE f == [frame EXCEPT !.check = "none"]
<1>1. /\ frame \in Frames /\ Present /\ frame.check = "set" /\ UNCHANGED <<site, page, card>>
      /\ page.hidden \in BOOLEAN /\ page' \in [card : BOOLEAN, hidden : BOOLEAN]
  BY PresentIsFrame DEF CheckStalled, FrameInv, TypeOK
<1>2. /\ f \in Frames /\ f.attached = frame.attached /\ f.url = frame.url
      /\ f.owner = frame.owner /\ f.listening = frame.listening /\ f.update = frame.update
      /\ f.load = frame.load /\ f.recent = frame.recent
  BY <1>1 DEF Frames
<1>3. CASE f.load # "interrupted" \/ ~f.attached
  <2>1. frame' = f /\ doc' = doc
    BY <1>2, <1>3 DEF CheckStalled
  <2> HIDE DEF f
  <2>2. Present'
    BY <1>2, <2>1, AbsentIsNoFrame DEF Present
  <2>3. TypeOK' /\ OverlayHasReason' /\ Grown' /\ Current' /\ Compared'
    BY <1>1, <1>2, <2>1, <2>2 DEF FrameInv, TypeOK, OverlayHasReason, Grown, Current, Compared
  <2>4. Awaited' /\ HiddenIsInterrupted' /\ Caught'
    BY <1>1, <1>2, <2>1, <2>2 DEF FrameInv, Awaited, HiddenIsInterrupted, Caught
  <2>5. StallIsWatched'
    BY <1>1, <1>2, <1>3, <2>1
    DEF FrameInv, TypeOK, Caught, StallIsWatched, EmptyDocument
  <2>6. QED  BY <2>3, <2>4, <2>5 DEF FrameInv
<1>4. CASE f.load = "interrupted" /\ f.attached /\ FrameAppStarted
  <2> DEFINE l == IF doc.nav = "none" THEN "none" ELSE "mistaken"
  <2>1. frame' = [f EXCEPT !.load = l] /\ doc' = doc
    BY <1>4 DEF CheckStalled
  <2>2. /\ frame' \in Frames /\ frame'.attached = frame.attached /\ frame'.url = frame.url
        /\ frame'.owner = frame.owner /\ frame'.listening = frame.listening
        /\ frame'.update = frame.update /\ frame'.load = l
    BY <1>1, <1>2, <2>1 DEF Frames
  <2>3. Present'
    BY <2>2, AbsentIsNoFrame DEF Present
  <2>4. ~doc.stalled
    BY <1>4 DEF FrameInv, Caught, FrameAppStarted
  <2>5. TypeOK' /\ OverlayHasReason' /\ Grown' /\ Current' /\ Compared'
    BY <1>1, <2>1, <2>2, <2>3 DEF FrameInv, TypeOK, OverlayHasReason, Grown, Current, Compared
  <2>6. Awaited' /\ HiddenIsInterrupted'
    BY <1>4, <2>1, <2>2 DEF Awaited, HiddenIsInterrupted, FrameAppStarted
  <2>7. Caught' /\ StallIsWatched'
    BY <2>1, <2>4 DEF Caught, StallIsWatched
  <2>8. QED  BY <2>5, <2>6, <2>7 DEF FrameInv
<1>5. CASE f.load = "interrupted" /\ f.attached /\ ~FrameAppStarted /\ f.recent
  <2>1. frame' = [f EXCEPT !.check = "refused"] /\ doc' = doc
    BY <1>5 DEF CheckStalled
  <2>2. /\ frame' \in Frames /\ frame'.attached = frame.attached /\ frame'.url = frame.url
        /\ frame'.owner = frame.owner /\ frame'.listening = frame.listening
        /\ frame'.update = frame.update /\ frame'.load = frame.load /\ frame'.check = "refused"
    BY <1>1, <1>2, <2>1 DEF Frames
  <2>3. OverlayHasReason'
    BY <1>1, <2>2 DEF FrameInv, OverlayHasReason
  <2>4. QED
    BY <1>1, <2>1, <2>2, <2>3, TimersKeep DEF FrameInv, TypeOK, Grown
<1>6. CASE f.load = "interrupted" /\ f.attached /\ ~FrameAppStarted /\ ~f.recent
  <2> DEFINE g == [f EXCEPT !.recent = TRUE]
  <2>1. frame' = Navigated(g, page.hidden) /\ doc' = Replaced(f, doc)
    BY <1>6 DEF CheckStalled
  <2>2. /\ g \in Frames /\ g.attached = frame.attached /\ g.url = frame.url
        /\ g.owner = frame.owner /\ g.listening = frame.listening /\ g.update = frame.update
    BY <1>1, <1>2 DEF Frames
  <2>3. /\ doc \in Documents /\ doc.build <= site.build
        /\ (doc.phase # "blank" => doc.build >= 1)
        /\ (~g.attached => doc = EmptyDocument) /\ g.url \in 1..site.ver
        /\ card' \in [Cards -> [on : BOOLEAN, ver : 0..MaxVersion]]
        /\ \A c \in Cards : card'[c].ver <= site.ver
    BY <1>1, <2>2 DEF FrameInv, TypeOK, Grown
  <2>4. g.update.at = "none" \/ (g.attached => g.update.running <= doc.build)
    BY <1>1, <2>2 DEF FrameInv, Compared
  <2> HIDE DEF f, g
  <2>5. Rest' /\ Present' /\ frame'.owner = g.owner /\ frame'.listening = g.listening
    BY <1>1, <1>2, <2>1, <2>2, <2>3, <2>4, NavigationKeeps
  <2>6. OverlayHasReason'
    BY <1>1, <2>2, <2>5 DEF FrameInv, OverlayHasReason
  <2>7. QED  BY <2>5, <2>6 DEF Rest, FrameInv
<1>7. QED
  BY <1>2, <1>3, <1>4, <1>5, <1>6 DEF Frames

-----------------------------------------------------------------------------
(* Ownership.  A frame whose listeners and timers are changed and whose     *)
(* owner stays is covered by TimersKeep.                                    *)
LEMMA ClearedFields ==
  ASSUME NEW f \in Frames
  PROVE  /\ Cleared(f) \in Frames /\ Cleared(f).attached = f.attached /\ Cleared(f).url = f.url
         /\ Cleared(f).load = f.load /\ Cleared(f).update = f.update
         /\ Cleared(f).check = f.check /\ Cleared(f).owner = f.owner
  BY DEF Cleared, Frames

(* disposeIfDeparted, for a frame of which only timers were changed: it     *)
(* keeps its owner, goes, or stays on the card's path still listening.      *)
LEMMA DepartureKeeps ==
  ASSUME FrameInv, Present, NEW f \in Frames, NEW onCard \in BOOLEAN,
         f.attached = frame.attached, f.url = frame.url, f.load = frame.load,
         f.update = frame.update, f.check = frame.check, f.owner = frame.owner,
         f.listening = frame.listening,
         DisposeIfDeparted(f, onCard),
         page' = [page EXCEPT !.card = onCard], UNCHANGED <<site, card>>
  PROVE  FrameInv'
<1>1. /\ page' \in [card : BOOLEAN, hidden : BOOLEAN] /\ page'.hidden = page.hidden
      /\ page'.card = onCard
      /\ card' \in [Cards -> [on : BOOLEAN, ver : 0..MaxVersion]]
      /\ \A c \in Cards : card'[c].ver <= site.ver
  BY DEF FrameInv, TypeOK, Grown
<1>2. CASE f.owner # Nobody
  <2>1. frame' = Cleared(f) /\ doc' = doc
    BY <1>2 DEF DisposeIfDeparted
  <2>2. Rest' /\ frame'.owner = frame.owner
    BY <1>1, <2>1, ClearedFields, TimersKeep DEF Rest
  <2>3. OverlayHasReason'
    BY <1>2, <2>2 DEF FrameInv, OverlayHasReason
  <2>4. QED  BY <2>2, <2>3 DEF Rest, FrameInv
<1>3. CASE f.owner = Nobody /\ (~f.attached \/ ~onCard)
  <2>1. frame' = NoFrame /\ doc' = EmptyDocument
    BY <1>3 DEF DisposeIfDeparted, DisposePersistentFrame
  <2>2. QED
    BY <1>1, <2>1, AbsentKeeps
<1>4. CASE f.owner = Nobody /\ f.attached /\ onCard
  <2>1. frame' = f /\ doc' = doc
    BY <1>4 DEF DisposeIfDeparted
  <2>2. Rest'
    BY <1>1, <2>1, TimersKeep DEF Rest
  <2>3. OverlayHasReason'
    BY <1>1, <1>4, <2>1 DEF FrameInv, OverlayHasReason
  <2>4. QED  BY <2>2, <2>3 DEF Rest, FrameInv
<1>5. QED  BY <1>2, <1>3, <1>4

LEMMA GraceKeeps ==
  ASSUME FrameInv, GraceExpires PROVE FrameInv'
<1> DEFINE f == [frame EXCEPT !.timer = FALSE]
<1>1. frame \in Frames /\ Present /\ page.card \in BOOLEAN
  BY PresentIsFrame DEF GraceExpires, FrameInv, TypeOK
<1>2. /\ f \in Frames /\ f.attached = frame.attached /\ f.url = frame.url
      /\ f.load = frame.load /\ f.update = frame.update /\ f.check = frame.check
      /\ f.owner = frame.owner /\ f.listening = frame.listening
  BY <1>1 DEF Frames
<1>3. /\ DisposeIfDeparted(f, page.card) /\ UNCHANGED <<site, card>>
      /\ page' = [page EXCEPT !.card = page.card]
  BY DEF GraceExpires, FrameInv, TypeOK
<1> HIDE DEF f
<1>4. QED  BY <1>1, <1>2, <1>3, DepartureKeeps

LEMMA RouteKeeps ==
  ASSUME FrameInv, NEW onCard \in BOOLEAN, RouteEvent(onCard) PROVE FrameInv'
<1>1. /\ UNCHANGED <<site, card>> /\ page' = [page EXCEPT !.card = onCard]
      /\ page' \in [card : BOOLEAN, hidden : BOOLEAN] /\ page'.hidden = page.hidden
  BY DEF RouteEvent, FrameInv, TypeOK
<1>2. CASE Present /\ frame.listening
  BY <1>1, <1>2, PresentIsFrame, DepartureKeeps DEF RouteEvent, FrameInv
<1>3. CASE Present /\ ~frame.listening
  <2>1. frame' = frame /\ doc' = doc /\ frame \in Frames
    BY <1>3, PresentIsFrame DEF RouteEvent, FrameInv
  <2>2. Rest'
    BY <1>1, <1>3, <2>1, TimersKeep DEF Rest, FrameInv, TypeOK, Grown
  <2>3. OverlayHasReason'
    BY <1>1, <1>3, <2>1 DEF FrameInv, OverlayHasReason
  <2>4. QED  BY <2>2, <2>3 DEF Rest, FrameInv
<1>4. CASE ~Present
  <2>1. frame' = NoFrame /\ doc' = EmptyDocument
    BY <1>4 DEF RouteEvent, Present, FrameInv, TypeOK
  <2>2. QED
    BY <1>1, <2>1, AbsentKeeps DEF FrameInv, TypeOK, Grown
<1>5. QED  BY <1>2, <1>3, <1>4

(* A card leaves the page; releasePersistentFrame is for the owner alone.   *)
LEMMA DisconnectKeeps ==
  ASSUME FrameInv, NEW c \in Cards, Disconnect(c) PROVE FrameInv'
<1>1. /\ UNCHANGED <<site, page>> /\ card' = [card EXCEPT ![c].on = FALSE]
      /\ card' \in [Cards -> [on : BOOLEAN, ver : 0..MaxVersion]]
      /\ \A e \in Cards : card'[e].ver <= site.ver
      /\ \A e \in Cards : e # c => card'[e] = card[e]
      /\ page' \in [card : BOOLEAN, hidden : BOOLEAN]
  BY DEF Disconnect, FrameInv, TypeOK, Grown
<1>2. CASE ~Present
  <2>1. frame' = NoFrame /\ doc' = EmptyDocument
    BY <1>2 DEF Disconnect, ReleasePersistentFrame, Present, FrameInv, TypeOK
  <2>2. QED  BY <1>1, <2>1, AbsentKeeps
<1>3. CASE Present /\ frame.owner # c
  <2>1. frame' = frame /\ doc' = doc /\ frame \in Frames
    BY <1>3, PresentIsFrame DEF Disconnect, ReleasePersistentFrame, FrameInv
  <2>2. Rest'
    BY <1>1, <1>3, <2>1, TimersKeep DEF Rest
  <2>3. OverlayHasReason'
    <3>1. frame.owner \in Cards \cup {Nobody}
      BY <2>1 DEF Frames
    <3>2. QED  BY <1>1, <1>3, <2>1, <3>1 DEF FrameInv, OverlayHasReason
  <2>4. QED  BY <2>2, <2>3 DEF Rest, FrameInv
<1>4. CASE Present /\ frame.owner = c /\ ~page.card
  <2>1. frame' = NoFrame /\ doc' = EmptyDocument
    BY <1>4 DEF Disconnect, ReleasePersistentFrame, DisposePersistentFrame
  <2>2. QED  BY <1>1, <2>1, AbsentKeeps
<1>5. CASE Present /\ frame.owner = c /\ page.card
  <2>1. /\ frame' = [frame EXCEPT !.owner = Nobody, !.listening = TRUE, !.timer = TRUE]
        /\ doc' = doc /\ frame \in Frames
    BY <1>5, PresentIsFrame DEF Disconnect, ReleasePersistentFrame, FrameInv
  <2>2. /\ frame' \in Frames /\ frame'.attached = frame.attached /\ frame'.url = frame.url
        /\ frame'.load = frame.load /\ frame'.update = frame.update
        /\ frame'.check = frame.check /\ frame'.owner = Nobody /\ frame'.listening
    BY <2>1 DEF Frames
  <2>3. Rest'
    BY <1>1, <1>5, <2>1, <2>2, TimersKeep DEF Rest
  <2>4. OverlayHasReason'
    BY <1>1, <1>5, <2>2 DEF OverlayHasReason
  <2>5. QED  BY <2>3, <2>4 DEF Rest, FrameInv
<1>6. QED  BY <1>2, <1>3, <1>4, <1>5

(* acquirePersistentFrame: the frame the card finds or creates, and the     *)
(* document it then has.                                                    *)
LEMMA AcquiredFrame ==
  ASSUME FrameInv, NEW c \in Cards
  PROVE  LET f == AcquirePersistentFrame(c)
             d == IF Present /\ frame.attached THEN doc ELSE EmptyDocument
         IN  /\ f \in Frames /\ f.attached /\ f.owner = c /\ d \in Documents
             /\ d.build <= site.build /\ (d.phase # "blank" => d.build >= 1)
             /\ Present /\ frame.attached =>
                  /\ f.url = frame.url /\ f.load = frame.load /\ f.update = frame.update
                  /\ f.check = frame.check /\ f.url \in 1..site.ver
             /\ ~(Present /\ frame.attached) => f.url = 0
<1> DEFINE f == AcquirePersistentFrame(c)
           d == IF Present /\ frame.attached THEN doc ELSE EmptyDocument
<1>1. CASE Present /\ frame.attached
  <2>1. frame \in Frames
    BY <1>1, PresentIsFrame DEF FrameInv
  <2>2. f = [Cleared(frame) EXCEPT !.owner = c] /\ d = doc
    BY <1>1 DEF AcquirePersistentFrame
  <2>3. /\ f \in Frames /\ f.attached = frame.attached /\ f.owner = c /\ f.url = frame.url
        /\ f.load = frame.load /\ f.update = frame.update /\ f.check = frame.check
    BY <2>1, <2>2 DEF Cleared, Frames
  <2>4. /\ doc \in Documents /\ doc.build <= site.build /\ (doc.phase # "blank" => doc.build >= 1)
        /\ frame.url \in 1..site.ver
    BY <1>1 DEF FrameInv, TypeOK, Grown
  <2> HIDE DEF f, d
  <2>5. QED  BY <1>1, <2>2, <2>3, <2>4 DEF f, d
<1>2. CASE ~(Present /\ frame.attached)
  <2>1. f = [Cleared(Created) EXCEPT !.owner = c] /\ d = EmptyDocument
    BY <1>2 DEF AcquirePersistentFrame
  <2>2. f \in Frames /\ f.attached /\ f.owner = c /\ f.url = 0
    <3>1. 0 \in 0..MaxVersion /\ 0 \in 0..MaxBuild
      BY FrameAssumption
    <3>2. f = [kind |-> "frame", attached |-> TRUE, owner |-> c, url |-> 0,
               listening |-> FALSE, timer |-> FALSE, load |-> "none", check |-> "none",
               recent |-> FALSE, update |-> [at |-> "none", running |-> 0]]
      BY <2>1 DEF Cleared, Created, NoUpdate
    <3> HIDE DEF f
    <3>3. QED  BY <3>1, <3>2 DEF Frames
  <2>3. EmptyDocument \in Documents /\ EmptyDocument.build <= site.build
        /\ EmptyDocument.phase = "blank"
    BY FrameAssumption DEF EmptyDocument, Documents, FrameInv, TypeOK, Builds
  <2> HIDE DEF f, d
  <2>4. QED  BY <1>2, <2>1, <2>2, <2>3 DEF f, d
<1>3. QED  BY <1>1, <1>2

(* render: the card gets the frame and asks for its version of the app.     *)
LEMMA RenderKeeps ==
  ASSUME FrameInv, NEW c \in Cards, NEW v \in 1..site.ver, Render(c, v),
         UNCHANGED <<site, page>>,
         card' \in [Cards -> [on : BOOLEAN, ver : 0..MaxVersion]],
         \A e \in Cards : card'[e].ver <= site.ver,
         card'[c].on
  PROVE  FrameInv'
<1> DEFINE f == AcquirePersistentFrame(c)
           d == IF Present /\ frame.attached THEN doc ELSE EmptyDocument
<1>1. /\ f \in Frames /\ f.attached /\ f.owner = c /\ d \in Documents
      /\ d.build <= site.build /\ (d.phase # "blank" => d.build >= 1)
      /\ Present /\ frame.attached =>
           /\ f.url = frame.url /\ f.load = frame.load /\ f.update = frame.update
           /\ f.check = frame.check /\ f.url \in 1..site.ver
      /\ ~(Present /\ frame.attached) => f.url = 0
  BY AcquiredFrame
<1>2. /\ page' \in [card : BOOLEAN, hidden : BOOLEAN] /\ page.hidden \in BOOLEAN
      /\ page'.hidden = page.hidden
      /\ site.ver \in Versions /\ v \in 0..MaxVersion
  <2>1. site.ver \in Versions
    BY DEF FrameInv, TypeOK
  <2>2. v \in 0..MaxVersion
    BY <2>1, FrameAssumption DEF Versions
  <2>3. page \in [card : BOOLEAN, hidden : BOOLEAN]
    BY DEF FrameInv, TypeOK
  <2>4. QED  BY <2>1, <2>2, <2>3
<1>3. c # Nobody
  BY FrameAssumption
<1>4. CASE f.url = v
  <2>1. frame' = f /\ doc' = d
    BY <1>4 DEF Render
  <2>2. Present /\ frame.attached
    BY <1>1, <1>4
  <2> HIDE DEF f
  <2>3. Rest'
    BY <1>1, <1>2, <2>1, <2>2, TimersKeep DEF Rest
  <2>4. OverlayHasReason'
    BY <1>1, <1>3, <2>1 DEF OverlayHasReason
  <2>5. QED  BY <2>3, <2>4 DEF Rest, FrameInv
<1>5. CASE f.url # v /\ f.url # 0 /\ RunningEntryScript # 0
  <2>1. /\ frame' = [f EXCEPT !.url = v, !.update = [at |-> "fetch", running |-> RunningEntryScript]]
        /\ doc' = doc
    BY <1>5 DEF Render, ScheduleVersionUpdate
  <2>2. Present /\ frame.attached
    BY <1>1, <1>5
  <2> HIDE DEF f
  <2>3. RunningEntryScript \in 0..MaxBuild /\ RunningEntryScript <= doc.build
    BY FrameAssumption DEF RunningEntryScript, FrameInv, TypeOK, Documents
  <2>4. /\ frame' \in Frames /\ frame'.attached /\ frame'.url = v /\ frame'.owner = c
        /\ frame'.load = frame.load /\ frame'.check = frame.check
        /\ frame'.update.at = "fetch" /\ frame'.update.running <= doc.build
    BY <1>1, <1>2, <2>1, <2>2, <2>3 DEF Frames
  <2>5. Present'
    BY <2>4, AbsentIsNoFrame DEF Present
  <2>6. TypeOK' /\ OverlayHasReason'
    <3>1. TypeOK'
      BY <1>2, <2>1, <2>4, <2>5 DEF FrameInv, TypeOK
    <3>2. OverlayHasReason'
      BY <1>3, <2>4 DEF OverlayHasReason
    <3>3. QED  BY <3>1, <3>2
  <2>7. Grown' /\ Current' /\ Compared'
    BY <2>1, <2>4 DEF FrameInv, Grown, Current, Compared
  <2>8. Awaited' /\ HiddenIsInterrupted' /\ Caught' /\ StallIsWatched'
    BY <1>2, <2>1, <2>2, <2>4, <2>5
    DEF FrameInv, Awaited, HiddenIsInterrupted, Caught, StallIsWatched
  <2>9. QED  BY <2>6, <2>7, <2>8 DEF FrameInv
<1>6. CASE f.url # v /\ ~(f.url # 0 /\ RunningEntryScript # 0)
  <2>1. LoadFrameSource(f, d, v)
    BY <1>6 DEF Render
  <2> HIDE DEF f, d
  <2> DEFINE g == [f EXCEPT !.update = NoUpdate, !.url = v]
  <2>2. frame' = Navigated(g, page.hidden) /\ doc' = Replaced(f, d)
    BY <2>1 DEF LoadFrameSource
  <2>3. g \in Frames /\ g.attached /\ g.url = v /\ g.owner = c /\ g.update.at = "none"
    <3>1. NoUpdate \in [at : {"none", "fetch", "wait"}, running : 0..MaxBuild]
      BY FrameAssumption DEF NoUpdate
    <3>2. QED  BY <1>1, <1>2, <3>1 DEF Frames, NoUpdate
  <2> HIDE DEF g
  <2>4. Rest' /\ frame'.owner = c
    BY <1>1, <1>2, <2>2, <2>3, NavigationKeeps
  <2>5. OverlayHasReason'
    BY <1>3, <2>4 DEF OverlayHasReason
  <2>6. QED  BY <2>4, <2>5 DEF Rest, FrameInv
<1>7. QED  BY <1>4, <1>5, <1>6

LEMMA SetConfigKeeps ==
  ASSUME FrameInv, NEW c \in Cards, SetConfig(c) PROVE FrameInv'
<1>1. /\ UNCHANGED <<site, page>> /\ card' = [card EXCEPT ![c].ver = site.ver]
      /\ site.ver \in 1..site.ver /\ site.ver \in 0..MaxVersion
      /\ page' \in [card : BOOLEAN, hidden : BOOLEAN]
  BY FrameAssumption DEF SetConfig, FrameInv, TypeOK, Versions
<1>2. /\ card' \in [Cards -> [on : BOOLEAN, ver : 0..MaxVersion]]
      /\ \A e \in Cards : card'[e].ver <= site.ver /\ card'[e].on = card[e].on
  <2>1. /\ card \in [Cards -> [on : BOOLEAN, ver : 0..MaxVersion]]
        /\ \A e \in Cards : card[e].ver <= site.ver
    BY DEF FrameInv, TypeOK, Grown
  <2>2. card' \in [Cards -> [on : BOOLEAN, ver : 0..MaxVersion]]
    BY <1>1, <2>1
  <2>3. ASSUME NEW e \in Cards
        PROVE  card'[e].ver <= site.ver /\ card'[e].on = card[e].on
    <3>1. CASE e = c
      BY <1>1, <2>1, <3>1
    <3>2. CASE e # c
      BY <1>1, <2>1, <3>2
    <3>3. QED  BY <3>1, <3>2
  <2>4. QED  BY <2>2, <2>3
<1>3. CASE card[c].on
  <2>1. Render(c, site.ver)
    BY <1>3 DEF SetConfig
  <2>2. QED  BY <1>1, <1>2, <1>3, <2>1, RenderKeeps
<1>4. CASE ~card[c].on
  <2>1. frame' = frame /\ doc' = doc
    BY <1>4 DEF SetConfig
  <2>2. CASE Present
    <3>1. frame \in Frames
      BY <2>2, PresentIsFrame DEF FrameInv
    <3>2. Rest'
      BY <1>1, <1>2, <2>1, <2>2, <3>1, TimersKeep DEF Rest
    <3>3. OverlayHasReason'
      BY <1>1, <1>2, <2>1, <2>2, <3>1 DEF FrameInv, OverlayHasReason, Frames
    <3>4. QED  BY <3>2, <3>3 DEF Rest, FrameInv
  <2>3. CASE ~Present
    <3>1. frame' = NoFrame /\ doc' = EmptyDocument
      BY <2>1, <2>3 DEF Present, FrameInv, TypeOK
    <3>2. QED  BY <1>1, <1>2, <3>1, AbsentKeeps
  <2>4. QED  BY <2>2, <2>3
<1>5. QED  BY <1>3, <1>4

LEMMA ConnectKeeps ==
  ASSUME FrameInv, NEW c \in Cards, Connect(c) PROVE FrameInv'
<1>1. /\ UNCHANGED <<site, page>> /\ card' = [card EXCEPT ![c].on = TRUE]
      /\ Render(c, card[c].ver) /\ card[c].ver # 0
  BY DEF Connect
<1>2. card[c].ver \in 0..MaxVersion /\ card[c].ver <= site.ver /\ site.ver \in Versions
  BY DEF FrameInv, TypeOK, Grown
<1>3. card[c].ver \in 1..site.ver
  BY <1>1, <1>2 DEF Versions
<1>4. /\ card' \in [Cards -> [on : BOOLEAN, ver : 0..MaxVersion]]
      /\ \A e \in Cards : card'[e].ver <= site.ver
      /\ card'[c].on
  BY <1>1 DEF FrameInv, TypeOK, Grown
<1>5. QED  BY <1>1, <1>3, <1>4, RenderKeeps

-----------------------------------------------------------------------------
LEMMA FrameInvNext ==
  FrameInv /\ [Next]_vars => FrameInv'
<1> SUFFICES ASSUME FrameInv, [Next]_vars PROVE FrameInv'
  OBVIOUS
<1>1. CASE HomeAssistant
  BY <1>1, SetConfigKeeps, ConnectKeeps, DisconnectKeeps, RouteKeeps, GraceKeeps, DetachKeeps
  DEF HomeAssistant
<1>2. CASE WebView
  BY <1>2, HideKeeps, ShowKeeps, FreezeKeeps, CheckStalledKeeps, RetryWindowKeeps DEF WebView
<1>3. CASE Deployment
  BY <1>3, PublishKeeps, ConfigureKeeps, DeferralKeeps, PublishedKeeps DEF Deployment
<1>4. CASE Browser
  BY <1>4, AnswerKeeps, CommitKeeps, ParseMountKeeps, LoadedKeeps DEF Browser
<1>5. CASE UNCHANGED vars
  BY <1>5
  DEF vars, FrameInv, TypeOK, OverlayHasReason, Grown, Current, Compared, Awaited,
      HiddenIsInterrupted, Caught, StallIsWatched, Present
<1>6. QED  BY <1>1, <1>2, <1>3, <1>4, <1>5 DEF Next

(* The frame, its document and what the site has published fit together:    *)
(* for every number of cards, versions and builds, in every state a card's  *)
(* callbacks, the web view, the deployments and the browser reach.          *)
THEOREM FrameInvariant == Spec => []FrameInv
  BY InitFrame, FrameInvNext, PTL DEF Spec

(* The frame never covers the window without a connected owner, or the      *)
(* card's own path and a listener for the departure.                        *)
THEOREM OverlayAlwaysHasReason == Spec => []OverlayHasReason
<1>1. FrameInv => OverlayHasReason
  BY DEF FrameInv
<1>2. QED  BY <1>1, FrameInvariant, PTL

(* No order of deployments, refreshes, hiding and recovery loses an update: *)
(* the app that runs with nothing pending is at least the configured one.   *)
THEOREM SettledAlwaysCurrent == Spec => []SettledIsCurrent
<1>1. FrameInv => SettledIsCurrent
  BY DEF FrameInv, Current, SettledIsCurrent, FrameAppStarted
<1>2. QED  BY <1>1, FrameInvariant, PTL

(* A load a freeze caught is watched whenever the page is visible.          *)
THEOREM StallAlwaysWatched == Spec => []StallIsWatched
<1>1. FrameInv => StallIsWatched
  BY DEF FrameInv
<1>2. QED  BY <1>1, FrameInvariant, PTL

-----------------------------------------------------------------------------
(* The app somebody looks at.                                               *)
LEMMA RenderIsQuiet ==
  ASSUME FrameInv, NEW c \in Cards, NEW v, Render(c, v), Present, frame.attached, FrameAppStarted
  PROVE  doc' = doc
<1>1. AcquirePersistentFrame(c).url \in 1..site.ver
  BY AcquiredFrame
<1>2. RunningEntryScript # 0
  BY DEF RunningEntryScript, FrameAppStarted, FrameInv, Grown, TypeOK, Documents
<1>3. AcquirePersistentFrame(c).url # 0
  BY <1>1
<1>4. CASE AcquirePersistentFrame(c).url = v
  BY <1>4 DEF Render
<1>5. CASE AcquirePersistentFrame(c).url # v
  <2>1. ScheduleVersionUpdate(AcquirePersistentFrame(c), v)
    BY <1>2, <1>3, <1>5 DEF Render
  <2>2. QED  BY <2>1 DEF ScheduleVersionUpdate
<1>6. QED  BY <1>4, <1>5

LEMMA QuietStep ==
  ASSUME FrameInv, [Next]_vars, Shown, Taken
  PROVE  frame.update.at = "wait" \/ doc.nav # "none"
<1>1. /\ Present /\ frame.attached /\ FrameAppStarted /\ doc.phase = "started" /\ ~page.hidden
      /\ Present' /\ frame'.attached /\ doc'.phase # "started"
  BY DEF Shown, Taken, FrameAppStarted, FrameInv, TypeOK, EmptyDocument
<1>2. CASE HomeAssistant
  <2>1. ASSUME NEW c \in Cards, SetConfig(c) \/ Connect(c) PROVE FALSE
    BY <1>1, <2>1, RenderIsQuiet DEF SetConfig, Connect
  <2>2. ASSUME NEW c \in Cards, Disconnect(c) PROVE FALSE
    BY <1>1, <2>2 DEF Disconnect, ReleasePersistentFrame, DisposePersistentFrame, Present
  <2>3. ASSUME NEW onCard \in BOOLEAN, RouteEvent(onCard) PROVE FALSE
    BY <1>1, <2>3 DEF RouteEvent, DisposeIfDeparted, DisposePersistentFrame, Present
  <2>4. ~GraceExpires
    BY <1>1 DEF GraceExpires, DisposeIfDeparted, DisposePersistentFrame, Present
  <2>5. ~Detach
    <3>1. frame \in Frames
      BY <1>1, PresentIsFrame DEF FrameInv
    <3>2. QED  BY <1>1, <3>1 DEF Detach, Frames
  <2>6. QED  BY <1>2, <2>1, <2>2, <2>3, <2>4, <2>5 DEF HomeAssistant
<1>3. CASE WebView
  <2>1. Hide => frame.update.at = "wait"
    BY <1>1 DEF Hide
  <2>2. ~Show /\ ~Freeze /\ ~RetryWindowPasses
    BY <1>1 DEF Show, Freeze, RetryWindowPasses
  <2>3. ~CheckStalled
    BY <1>1 DEF CheckStalled
  <2>4. QED  BY <1>3, <2>1, <2>2, <2>3 DEF WebView
<1>4. CASE Deployment
  <2>1. ~Publish /\ ~Configure
    BY <1>1 DEF Publish, Configure
  <2>2. DeferralEnds => frame.update.at = "wait"
    BY DEF DeferralEnds
  <2>3. ASSUME NEW ok \in BOOLEAN, Published(ok) PROVE FALSE
    BY <1>1, <2>3 DEF Published
  <2>4. QED  BY <1>4, <2>1, <2>2, <2>3 DEF Deployment
<1>5. CASE Browser
  <2>1. Commit => doc.nav # "none"
    BY DEF Commit
  <2>2. ~Parse /\ ~Loaded /\ ~Mount
    BY <1>1 DEF Parse, Loaded, Mount
  <2>3. Answer => doc.nav # "none"
    BY DEF Answer
  <2>4. QED  BY <1>5, <2>1, <2>2, <2>3 DEF Browser
<1>6. CASE UNCHANGED vars
  BY <1>1, <1>6 DEF vars
<1>7. QED  BY <1>2, <1>3, <1>4, <1>5, <1>6 DEF Next

(* Nobody sees the app torn down but by an update that waited or a          *)
(* navigation under way before the app started.                             *)
THEOREM UpdatesAreQuiet == Spec => QuietUpdate
<1>1. FrameInv /\ [Next]_vars
      => [Shown /\ Taken => frame.update.at = "wait" \/ doc.nav # "none"]_vars
  BY QuietStep
<1>2. QED  BY <1>1, FrameInvariant, PTL DEF Spec, QuietUpdate
=============================================================================
