CONSTANTS
  t1 = t1
  t2 = t2
  t3 = t3
  Threads = {t1, t2, t3}
  Modes <- MixedModes
  Policies = {"NoRecursion", "SupportsRecursion"}
  MaxDepth = 2
  Timeouts = {TRUE, FALSE}
  ReadReleasedFirst = TRUE
  Disposers = {t1}
  Pair = {t1, t2}
  ThreadIds <- PairIds
  Watchers = {t1}
  MaxLevel = 2
  MaxWrites = 2
  Kinds = {"Monitor", "Mutex"}
  MaxLevels = 3
  Calls = {"Start", "Stop", "Close", "setAutoReset", "setInterval", "BeginInit", "EndInit"}
  MaxCalls = 3
SPECIFICATION AllSpec
INVARIANTS LockInv LegacyLockInv MonitorInv ElapsedInv
PROPERTY NobodyStarves
CHECK_DEADLOCK FALSE
