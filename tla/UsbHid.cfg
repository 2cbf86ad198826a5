CONSTANTS
  MaxReports = 4
SPECIFICATION Spec
INVARIANTS
  InFlightIntact
  Accounted
PROPERTIES
  CallsReturn
