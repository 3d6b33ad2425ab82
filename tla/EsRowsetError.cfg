\* Row sets of one and of two rows, in pages of two.
SPECIFICATION Spec
CONSTANTS
  Cols = 2
  ServerRows <- MCRows
  MaxRows = 3
  PageSize = 2
  MaxVisited = 3
  ArraySizes = {1, 2}
  Offsets = {0, 1}
  BindCalls <- MCBindCalls
  Packs = {TRUE, FALSE}
INVARIANT RowErrorMarked
