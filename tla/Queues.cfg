CONSTANTS
  Readers = {r1, r2}
  Writers = {w1, w2}
  Watchers = {c1}
  Capacities = {0, 2}
  FullModes = {"Wait", "DropNewest", "DropOldest", "DropWrite"}
  ReadOps = {"ReadAsync"}
  MaxItems = 2
  Producers = {t1}
  Consumers = {t2, t3}
  Bounds <- NoneAndTwo
  MaxHeld = 2
  Observers = {t2}
SPECIFICATION AllSpec
SYMMETRY ThreadSymmetry
INVARIANTS NoLostWakeup WaitingReadersExact CapacityRespected ReportsAreTrue
  CollectionInv CompletionReleasesAll
PROPERTY ImplementsContract
CHECK_DEADLOCK FALSE
