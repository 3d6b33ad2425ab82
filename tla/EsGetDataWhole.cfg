\* Buffers with room for two of the widest characters.
SPECIFICATION Spec
CONSTANTS
  Rows <- MCRows
  BufferLengths = {0, 6}
  MaxLengths = {0}
  VarcharLimit = 0
  MinXfer = 4
INVARIANT
  PieceIsWhole
