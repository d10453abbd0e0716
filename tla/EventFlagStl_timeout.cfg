SPECIFICATION FairSpec
CONSTANTS
  Threads = {t1, t2}
  Ops <- AllOps
  ManualReset = FALSE
  InitialState = FALSE
CHECK_DEADLOCK FALSE
PROPERTY TimedWaitReturns
