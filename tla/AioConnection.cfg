CONSTANTS
  Device = {"d", "e", "f"}
  Twins = {"d", "e"}
  Handle = {"h", "i"}
  MaxConn = 2
SPECIFICATION Spec
INVARIANTS
  Registered
  DownMeansDown
PROPERTIES
  CleansUp
CHECK_DEADLOCK FALSE
