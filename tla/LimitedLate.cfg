\* The answer to a close comes after its timeout.
SPECIFICATION Spec
CONSTANTS
  Callers = {c1}
  Ops = {"init", "open", "close"}
  Kinds = {"Handle", "StatusOk"}
  IdSpace = 4
  MaxOpenHandles = 1
  MaxCalls = 2
  MaxInits = 1
  MaxStray = 0
  NoSender = NoSender
  Closed = Closed
PROPERTY LimitedOnlyWhenFull
CHECK_DEADLOCK FALSE
