CONSTANTS
  Users = {u1}
  Cancellers = {k1}
  Callbacks = {c1}
  None = None
SPECIFICATION Spec
INVARIANTS QuietAfterDispose
CHECK_DEADLOCK FALSE
