CONSTANTS
  Client = {"a", "b"}
  Worker = {"u", "v", "w"}
  Work = {"f", "g", "h"}
  Promise = {"p"}
  Callback = {"k", "l"}
  Watched <- OnPromise
  Programs <- AllPrograms
  MaxWorkers = 2
SPECIFICATION Spec
INVARIANTS
  WorkersBounded
  CallbacksOnce
PROPERTIES
  OnceOrNever
  CallsReturn
CHECK_DEADLOCK FALSE
