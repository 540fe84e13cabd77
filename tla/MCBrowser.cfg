SPECIFICATION MCSpec
CONSTANTS
  Pages = {p1, p2}
  Controls = {c1, c2}
  DuplicateWindow = 1
  InteractionWindow = 2
  RageClicks = 2
  RageWindow = 2
  RageCooldown = 3
  Minute = 2
  MaxActions = 2
  MaxRage = 1
  MaxKeys = 1
  Horizon = 3
  MaxClicks = 4
  MaxPresses = 4
  MaxMoved = 1
  Keys = {p1, p2}
  Tags = {t1}
  Loaders = {l1, l2}
  Options = {"plain", "manual"}
  Library = library
  MaxMoves = 2
  MaxCalls = 1
SYMMETRY MCSymmetry
INVARIANTS
  BurstsAreReal
  ActionsOfTheirPage
  NavigationCounted
  OneClient
CHECK_DEADLOCK FALSE
