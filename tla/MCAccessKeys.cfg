CONSTANTS
  Calls = {c1, c2, c3, c4}
  MaxKeys = 1
  MaxCreating = 2
  NoKey = NoKey
SYMMETRY AnyOrder
SPECIFICATION Spec
CHECK_DEADLOCK FALSE
INVARIANTS
  RevokedStaysOut
  CapHolds
  RotationSticks
