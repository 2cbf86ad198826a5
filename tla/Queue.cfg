CONSTANTS
  Thread = {"a", "b", "c"}
  Calls <- Competing
  Item = {1, 2, 3}
  Maxsize = 2
SPECIFICATION Spec
INVARIANTS
  EventsTell
  TasksCounted
  SemaphoreTells
PROPERTIES
  QueueSpec
  Served
CHECK_DEADLOCK FALSE
