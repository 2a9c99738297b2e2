\* A handler that refuses Init.
SPECIFICATION Spec
CONSTANTS
  Cap = 1
  Implements = {"Init", "Request"}
  MaxRequests = 1
INVARIANT ErrorReachesCaller
CHECK_DEADLOCK FALSE
