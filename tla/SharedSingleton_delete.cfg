\* Two threads that get the object and let go of it.
SPECIFICATION Spec
CONSTANTS
  s1 = s1
  s2 = s2
  o1 = o1
  Slots = {s1, s2}
  Objects = {o1}
  MaxStrays = 0
  None = None
CHECK_DEADLOCK FALSE
INVARIANT DestroyedOnce
