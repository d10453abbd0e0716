SPECIFICATION FairSpec
CONSTANTS
  Posters = {}
  Loopers = {l1}
  Managed = {m1}
  Stoppers = {s1}
  Functors = {f1}
  Invoked = {}
  Failing = {}
  Throwing = {}
  PushMayFail = FALSE
  MaxThrown = 2
  None = None
CHECK_DEADLOCK FALSE
PROPERTY StopReturns
