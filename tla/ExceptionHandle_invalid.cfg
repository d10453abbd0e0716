\* An invalid_argument that goes from one library to another.
SPECIFICATION Spec
CONSTANTS
  h1 = h1
  l1 = l1
  l2 = l2
  c1 = c1
  Handles = {h1}
  Libraries = {l1, l2}
  Kinds = {"invalid"}
  ErrNos = {}
  Cells = {c1}
  MaxStrays = 0
  None = None
  Bad = Bad
CHECK_DEADLOCK FALSE
INVARIANT KindSurvives
