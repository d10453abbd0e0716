\* Whether stop() comes back: one thread runs the loop and another stops it.
SPECIFICATION FairSpec
CONSTANTS
  c1 = c1
  c2 = c2
  Clients = {c1, c2}
  Owner = c1
  Posts = {}
  Timers = {}
  Builds = {"library"}
  Delays = {}
  Intervals = {}
  MaxTime = 0
  MaxCalls = 2
  None = None
CHECK_DEADLOCK FALSE
PROPERTY StopReturns
