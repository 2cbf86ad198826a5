CONSTANTS
  Thread = {"main", "other"}
  CbThread = {"main"}
  Ep = {"in", "out", "aux"}
  Submits <- OtherAux
  Resubmits <- OpenBoth
  MaxXfers = 3
SPECIFICATION FairSpec
INVARIANTS
  FreeWhenQueued
  PendingExact
PROPERTIES
  XferCallsBack
  EndpointSpec
CHECK_DEADLOCK FALSE
