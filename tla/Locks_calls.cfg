SPECIFICATION LocksSpec
CONSTANTS
  Locks = {"mutex", "win32", "stl", "loop"}
  Threads = {t1, t2, t3}
  Ops <- AllOps
  Win32Threads = {t1, t2, t3}
  StlThreads = {t1, t2, t3}
  FlagOps = {"wait", "waitFor", "set", "reset", "release"}
  Posters = {p1, p2}
  Loopers = {l1}
  Managed = {m1}
  Functors = {f2, f3}
  Invoked = {f3}
  Failing = {f2}
  PushMayFail = TRUE
  None = None
CHECK_DEADLOCK FALSE
INVARIANTS
  CountersAreExact
  Exclusion
  StlFlagIsSafe
  ItemsCounted
  NoLostPost
PROPERTIES
  ClaimStopsNewSharers
  ImplementsSharedLock
  DrainCompletes
  BothImplementSignal
  SignalsAreSeen
  ReleaseEnds
  PostedIsCalled
  InvokeReturns
