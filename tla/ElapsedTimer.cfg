CONSTANTS
  Threads = {t1, t2}
  Calls = {"Start", "Close"}
  MaxCalls = 2
SPECIFICATION Spec
INVARIANT RunningMeansEnabled
CHECK_DEADLOCK FALSE
