SPECIFICATION Spec
CONSTANTS
  None = None
  Width = 16
  Files <- MCFiles
  Assigned = {"size", "uid"}
  Values = {3}
INVARIANTS TypeOK Faithful TypeKept ConvertedDir SentOnce
CHECK_DEADLOCK FALSE
