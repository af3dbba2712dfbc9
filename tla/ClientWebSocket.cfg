CONSTANTS
  Plans <- MCPlans
  MaxPings = 2
SPECIFICATION FairSpec
INVARIANTS SocketInv CloseIsMutual PongAnswersPing
PROPERTY EndReleasesAll
CHECK_DEADLOCK FALSE
