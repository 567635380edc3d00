CONSTANTS
  a = a
  xff = xff
  h1 = h1
  h2 = h2
  o1 = o1
  o2 = o2
  Oid <- MCOid
  Handle <- MCHandle
  Char <- MCChar
  EofByte = xff
  BufSize = 2
  MaxLen <- MCMaxLen
  MaxFile = 1
  Kinds <- MCKinds
  MaxBegin = 1
  Careless = {}
SPECIFICATION Spec
CHECK_DEADLOCK FALSE
INVARIANTS OwnDescriptor WritesTrue ReadsTrue
