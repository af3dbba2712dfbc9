CONSTANTS
  t1 = t1
  t2 = t2
  t3 = t3
  Threads = {t1, t2}
  Modes <- AnyMode
  Policies = {"NoRecursion"}
  MaxDepth = 1
  Timeouts = {FALSE}
  ReadReleasedFirst = FALSE
  Disposers = {}
SPECIFICATION Spec
INVARIANT Exclusion
CHECK_DEADLOCK FALSE
