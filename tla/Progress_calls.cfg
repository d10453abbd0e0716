SPECIFICATION ProgressSpec
CONSTANTS
  Parts = {"lite", "queue"}
  Clients = {c1, c2}
  Owner = c1
  Posts = {f1}
  Timers = {k1}
  Builds = {"windows", "library"}
  Delays = {2}
  Intervals = {0, 1}
  MaxTime = 2
  MaxCalls = 3
  None = None
  Writers = {w1, w2, w3}
  Readers = {r1}
  Blocks = {b1, b2, b3}
  Null = Null
  Capacity = 2
  Sizes = {2}
  MaxPush = 1
  Throwers = {w1}
  FirstBlock = b1
  SecondBlock = b2
  ThirdBlock = b3
CHECK_DEADLOCK FALSE
INVARIANT TypeOK
PROPERTIES
  JoinWaits
  IntervalKept
  PostedIsCalled
  JoinReturns
  PushReturns
  EverythingIsTaken
