CONSTANTS
  Period = 12
  ChipWrap = 3
  MaxTime = 14
  Timeout = {0, 2, 3, 5}
SPECIFICATION ModemSpec
INVARIANTS
  Resumed
PROPERTIES
  GivesUpInTime
  SendUndisturbed
  RecvEnds
