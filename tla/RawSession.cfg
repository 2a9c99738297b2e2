\* Two tasks, three requests over two ids: the third reuses the id of the first.
SPECIFICATION FairSpec
CONSTANTS
  Callers = {c1, c2}
  Ops = {"lstat"}
  Kinds = {"Attrs"}
  IdSpace = 2
  MaxOpenHandles = 0
  MaxCalls = 3
  MaxInits = 0
  MaxStray = 1
  NoSender = NoSender
  Closed = Closed
INVARIANTS TypeOK RegisteredLive Correlated NoLostWakeup
PROPERTIES CallsReturn CloseEnds IsRpc
CHECK_DEADLOCK FALSE
