CONSTANTS
  t1 = t1
  t2 = t2
  NoTx = NoTx
  Tx <- MCTx
  MaxHold = 2
  Inhibited = FALSE
  UserParses = TRUE
SPECIFICATION FairSpec
CHECK_DEADLOCK FALSE
INVARIANTS RobustOutcome RecordsTrue
PROPERTIES DecidedForGood CallsReturn
