CONSTANTS
  Readers = {r1, r2}
  Writers = {w1}
  Watchers = {c1}
  Capacities <- EveryCapacity
  FullModes = {"Wait"}
  ReadOps = {"ReadAsync", "TryRead", "WaitToReadAsync"}
  MaxItems = 2
SPECIFICATION FairSpec
PROPERTIES CloseReleasesAll EveryoneServed
CHECK_DEADLOCK FALSE
