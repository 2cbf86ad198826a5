CONSTANTS
  Client = {"a", "b"}
  Worker = {"v", "w"}
  Work = {"f", "g"}
  Promise = {"p"}
  Callback = {"k"}
  Watched <- OnPromise
  Programs <- PoolOrCallbacks
  MaxWorkers = 1
SPECIFICATION Spec
PROPERTIES
  WorkEnds
CHECK_DEADLOCK FALSE
