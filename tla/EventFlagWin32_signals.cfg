SPECIFICATION Spec
CONSTANTS
  Threads = {t1, t2}
  Ops = {"wait", "set"}
  ManualReset = FALSE
CHECK_DEADLOCK FALSE
INVARIANT OneSignal
