SPECIFICATION Spec
CONSTANTS
  c1 = c1
  c2 = c2
  Cards = {c1, c2}
  Nobody = Nobody
  MaxVersion = 2
  MaxBuild = 2
CHECK_DEADLOCK FALSE
INVARIANTS OverlayHasReason SettledIsCurrent StallIsWatched
PROPERTIES QuietUpdate BehindEnds
