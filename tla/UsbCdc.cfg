CONSTANTS
  TxLen = 2
  RxLen = 3
  EpLen = 2
  MaxTx = 3
  MaxRx = 3
SPECIFICATION Spec
INVARIANTS
  Conserved
  KeepsGoing
PROPERTIES
  TxDelivers
  CallsReturn
