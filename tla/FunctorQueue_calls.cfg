SPECIFICATION ShapedSpec
CONSTANTS
  Shapes = {"writers", "readers"}
  Writers = {w1, w2}
  Readers = {r1, r2}
  Blocks = {b1, b2, b3, b4}
  Null = Null
  Capacity = 2
  Sizes = {1, 2}
  MaxPush = 3
  MallocMayFail = TRUE
  Throwers = {}
SYMMETRY QueueSymmetry
INVARIANTS
  TypeOK
  EveryBlockHasOneOwner
  PlacesAreExclusive
  AppendsAgree
  ReleaseLeavesNothing
  PinsProtect
  RecycledIsUsedUp
PROPERTY ImplementsFifo
