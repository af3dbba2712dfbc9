CONSTANTS
  Plans <- CancellingPlans
  MaxPings = 0
SPECIFICATION Spec
PROPERTIES AbortedIsFinal
CHECK_DEADLOCK FALSE
