SPECIFICATION PartsSpec
CONSTANTS
  Parts = {"flag", "ring", "singleton", "map", "handle", "functor", "text", "checksum", "loop", "crowd", "calls"}
  None = None
  Raw = Raw
  Bad = Bad
  Empty = Empty
  Rings = {x1, x2}
  RingValues = {v1, v2}
  Mark = v2
  Capacities = {4}
  MaxCapacity = 8
  MaxSize = 4
  Slots = {s1, s2, s3}
  Objects = {o1, o2, o3, o4}
  Threads = {t1, t2, t3}
  Ops <- AllOps
  ManualReset = FALSE
  MapThreads = {m1, m2}
  Keys = {0, 2}
  IndexSize = 2
  RootSize = 2
  Depth = 3
  Nodes = {1, 2, 3, 4, 5, 6, 7, 8}
  Values = {u1}
  SwapOperands = "exchange first"
  Handles = {h1, h2}
  Libraries = {l1, l2}
  Kinds = {"overflow", "unknown"}
  ErrNos = {"EOVERFLOW", "E1000"}
  HandleCells = {c1, c2}
  MaxStrays = 1
  Vars = {y1, y2}
  Large = {y2}
  Throwing = {y1}
  Functors = {f1, f2}
  Views = {w1, w2}
  OldExceptions = {e1, e2}
  Chunks <- SomeChunks
  Posters = {p1}
  Loopers = {l1}
  Managed = {n1, n2}
  Spare = n2
  Stoppers = {s1, s2}
  Jobs = {j1}
  Callers = {k1, k2}
  Data = {d1}
  CallBuffers = {b1, b2, b3}
  MaxPosted = 1
SYMMETRY PartsSymmetry
CHECK_DEADLOCK FALSE
INVARIANTS
  Win32FlagIsSafe
  SingletonIsShared
  MapIsSafe
  ExceptionsAreKept
  FunctorsAreWhole
  TextsAreOwned
  ChecksumsAgree
  LoopIsCounted
  ManagedAreJoined
  CallsAreAnswered
PROPERTY RingIsQueue
