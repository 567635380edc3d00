CONSTANTS
  n1 = n1
  d1 = d1
  d2 = d2
  x1 = x1
  a1 = a1
  a2 = a2
  bad = bad
  r1 = r1
  r2 = r2
  r3 = r3
  Unnamed = Unnamed
  NoDef = NoDef
  Default = Default
  Name <- MCName
  Def <- MCDef
  Var = {x1}
  Val <- MCVal
  Rejected = {bad}
  Receiver <- MCReceiver
  Channel <- MCChannel
  Careless = {}
SPECIFICATION Spec
SYMMETRY Symmetry
INVARIANTS PreparedInSync RestoredInFull
