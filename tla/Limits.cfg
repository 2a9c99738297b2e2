\* Three handles are asked for where the server allows one.
SPECIFICATION Spec
CONSTANTS
  Callers = {c1, c2}
  Ops = {"init", "open", "close"}
  Kinds = {"Handle", "StatusOk"}
  IdSpace = 4
  MaxOpenHandles = 1
  MaxCalls = 3
  MaxInits = 1
  MaxStray = 0
  NoSender = NoSender
  Closed = Closed
SYMMETRY Symmetry
INVARIANTS HandleBound
CHECK_DEADLOCK FALSE
