CONSTANTS
  Byte = {0, 1}
  Zero = 0
  Length = 3
  MaxSent = 5
SPECIFICATION Spec
INVARIANTS
  TypeOK
  AssertsHold
  PendedBytesIntact
PROPERTIES
  ViewStable
  FifoSpec
