CONSTANTS
  MaxRows = 4
  All = 100
  i1 = i1
  i2 = i2
  i3 = i3
  Iterator <- MCIterator
  MaxStride = 2
  MaxPos = 6
  ReadBefore = FALSE
SPECIFICATION Spec
SYMMETRY Symmetry
INVARIANTS LookIsExact StreamInStep
