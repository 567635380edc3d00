CONSTANTS
  NULL = NULL
  First <- MCFirst
  Later <- MCLater
  Nulls <- MCNulls
  MaxRows = 2
SPECIFICATION Spec
INVARIANTS WrittenIsCommitted ReadFaithfully StreamsInStep
