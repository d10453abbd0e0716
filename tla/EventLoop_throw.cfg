SPECIFICATION Spec
CONSTANTS
  Posters = {p1}
  Loopers = {l1}
  Managed = {}
  Stoppers = {}
  Functors = {f1, f2}
  Invoked = {}
  Failing = {}
  Throwing = {f1}
  PushMayFail = FALSE
  MaxThrown = 2
  None = None
INVARIANT ReadyIsCounted
