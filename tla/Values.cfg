CONSTANTS
  r1 = r1
  r2 = r2
  r3 = r3
  b1 = b1
  b2 = b2
  d1 = d1
  d2 = d2
  f1 = f1
  f2 = f2
  Tmp = Tmp
  Null = Null
  ResultVar <- MCResultVar
  BinVar <- MCBinVar
  Handle <- MCHandle
  Data <- MCData
  Buffer <- MCBuffer
  Grid <- MCGrid
  Text <- MCText
  Bits = 5
  Mantissa <- MCMantissa
  MaxExp = 5
  IndexBits = 3
  MaxParams = 3
SPECIFICATION Spec
CHECK_DEADLOCK FALSE
INVARIANTS CellsInPlace ValuesKept ErrorsReported
PROPERTY ImplementsSharedPtr
