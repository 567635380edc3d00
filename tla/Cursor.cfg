CONSTANTS
  MaxRows = 3
  MaxStep = 5
  All = 100
  MaxAvoid = 1
SPECIFICATION Spec
INVARIANTS TypeOK PositionTrue NeverInconsistent RetrieveExact
