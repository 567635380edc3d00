CONSTANTS
  t1 = t1
  t2 = t2
  t3 = t3
  e1 = e1
  e2 = e2
  e3 = e3
  NoTrans = NoTrans
  Tx <- MCPair
  Kind <- MCPairKind
  Effect <- MCEffect
  Calls <- Bypassing
  Inhibited = TRUE
  MaxAvoid = 1
SPECIFICATION Spec
SYMMETRY Symmetry
INVARIANT NoHalfWork
