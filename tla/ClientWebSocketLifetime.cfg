CONSTANTS
  Plans <- DestroyingPlans
  MaxPings = 0
SPECIFICATION Spec
INVARIANTS HeartbeatWithinLifetime
CHECK_DEADLOCK FALSE
