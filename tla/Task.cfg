CONSTANTS
  t1 = t1
  t2 = t2
  t3 = t3
  None = None
  u1 = u1
  u2 = u2
  Users <- MCUsers
  Tasks <- MCTasks
  Plans <- MCPlans

SPECIFICATION FairSpec

INVARIANTS
  TaskInv
  NothingForgotten

PROPERTIES
  ImplementsContract
  CompletionSpreads

CHECK_DEADLOCK FALSE
