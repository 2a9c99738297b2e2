SPECIFICATION Spec
CONSTANTS
  None = None
  Width = 16
  W64 = 3
  Packets <- MCPackets
  Foreign <- MCForeign
  MaxFrames = 2
  MaxShort = 1
INVARIANTS
  InStep
  Understood
  EndsAtEof
  ShortRefused
CHECK_DEADLOCK FALSE
