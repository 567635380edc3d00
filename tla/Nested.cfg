CONSTANTS
  t1 = t1
  t2 = t2
  NoTrans = NoTrans
  Tx <- MCTx
  Kind <- MCKind
  Effect <- MCEffect
  Calls = {}
  Inhibited = FALSE
  MaxAvoid = 0
  MaxDepth = 2
  MaxSubs = 3
  MaxStatements = 3
  Liberties = {}
  Rejects = {}
SPECIFICATION NestedSpec
CHECK_DEADLOCK FALSE
INVARIANTS SavepointsExact PerformExactlyOnce
PROPERTY PerformEnds
