SPECIFICATION Spec
CONSTANTS
  None = None
  Width = 16
  Files <- MCFiles
  Assigned = {"size", "uid"}
  Values = {3}
INVARIANT TestsTell
CHECK_DEADLOCK FALSE
