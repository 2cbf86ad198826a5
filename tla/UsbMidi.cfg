CONSTANTS
  TxLen = 2
  RxLen = 2
  Depth = 2
  MaxTx = 3
  MaxRx = 3
SPECIFICATION Spec
INVARIANTS
  Conserved
  HandlerOnItsWay
PROPERTIES
  TxDelivers
