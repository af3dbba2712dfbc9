CONSTANTS
  auto = auto
  manual = manual
  Threads = {t1, t2}
  Setters = {s1}
  Handles = {auto, manual}
  Mode <- AutoAndManual
  Calls <- EveryKind
  Closable = {auto}
  SlimSetters = {s1, s2}
  Timeouts = {TRUE, FALSE}
  Disposable = TRUE
  Users = {u1, u2}
  Cancellers = {k1, k2}
  Callbacks = {c1, c2}
  None = None
  MaxTime = 2
  Intervals = {0, 2}
  MaxCallbacks = 2
SPECIFICATION AllSpec
INVARIANTS EventInv SlimInv SourceInv PeriodicInv RegisteredInv
PROPERTIES SignalReachesWaiter SleeperReleased CancelAndDisposeEnd DisposeEndsWait
  UnregisterEnds
CHECK_DEADLOCK FALSE
