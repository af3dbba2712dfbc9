CONSTANTS
  Threads = {t1, t2, t3}
  IntMax = 3
  InitialCounts = {0, 3}
  Amounts = {1, 2}
  MaxCounts = {1, 3}
  MaxReleases = 3
  Disposable = TRUE
  MaxResets = 2
  Crew = {t1, t2, t3}
  MaxParticipants = 3
  HasAction = TRUE
  MaxPhases = 3
  Clients = {c1, c2}
  MaxChanges = 3
SPECIFICATION AllSpec
INVARIANTS SemaphoreInv CountdownInv BarrierInv TimerInv
PROPERTIES PermitReachesWaiter SetReleasesWaiters PhaseReleasesAll TimerObeys
CHECK_DEADLOCK FALSE
