CONSTANTS
  NoTrans = NoTrans
  QidLimit = 10
  MaxInsert = 3
  MaxRetain = 2
  Uses <- MCUses
SPECIFICATION Spec
INVARIANTS RunsInOrderOnce OwnResult RefusedIsNotRun BookkeepingTrue
