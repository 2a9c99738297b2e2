\* A task that leaves operations pending and takes them up again as it likes.
SPECIFICATION Spec
CONSTANTS
  Fsync = TRUE
  MaxReadLen = 5
  MaxWriteLen = 2
  U32 = 3
  Half = 2
  Rooms = {1, 6}
  Lengths = {1, 2}
  Offsets <- MCOffsets
  Sizes = {1, 3}
  MaxShutdowns = 1
  Finished = Finished
  None = None
INVARIANTS TypeOK AtCursor FitsBuffer HandleReleased
PROPERTY IsCursor
CHECK_DEADLOCK FALSE
