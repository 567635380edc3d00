CONSTANTS
  t1 = t1
  t2 = t2
  t3 = t3
  e1 = e1
  e2 = e2
  e3 = e3
  NoTrans = NoTrans
  Tx <- MCTx
  Kind <- MCKind
  Effect <- MCEffect
  Calls <- ExecOnly
  Inhibited = FALSE
  MaxAvoid = 0
SPECIFICATION Spec
SYMMETRY Symmetry
INVARIANTS TypeOK OutcomeTruthful SessionClean NontransactionImmediate
PROPERTY ImplementsAtomicCommit
