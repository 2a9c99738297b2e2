\* A stream that holds one packet each way, every kind of packet.
SPECIFICATION FairSpec
CONSTANTS
  Cap = 1
  Implements = {"Request"}
  MaxRequests = 4
INVARIANT OneAnswerEach
PROPERTY AllAnswered CloseStopsAll
CHECK_DEADLOCK FALSE
