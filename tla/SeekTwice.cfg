\* A seek that failed, then another.
SPECIFICATION Spec
CONSTANTS
  Fsync = TRUE
  MaxReadLen = 5
  MaxWriteLen = 2
  U32 = 3
  Half = 2
  Rooms = {1, 6}
  Lengths = {1, 2}
  Offsets <- MCOffsets
  Sizes = {1, 3}
  MaxShutdowns = 1
  Finished = Finished
  None = None
INVARIANT PollCompleteClears
CHECK_DEADLOCK FALSE
