\* Two tasks that both start the session and then use it.
SPECIFICATION Spec
CONSTANTS
  Callers = {c1, c2}
  Ops = {"init", "read"}
  Kinds = {"Data", "StatusOk"}
  IdSpace = 2
  MaxOpenHandles = 0
  MaxCalls = 2
  MaxInits = 2
  MaxStray = 0
  NoSender = NoSender
  Closed = Closed
SYMMETRY Symmetry
INVARIANTS VersionFirst OneVersion
PROPERTY IsRpc
CHECK_DEADLOCK FALSE
