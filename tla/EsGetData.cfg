\* Buffers from none, with which the length is asked for, to one that holds two
\* of the widest characters.
SPECIFICATION Spec
CONSTANTS
  Rows <- MCRows
  BufferLengths = {0, 1, 2, 3, 4, 6}
  MaxLengths = {0, 2, 3}
  VarcharLimit = 5
  MinXfer = 4
INVARIANTS
  TypeOK
  OffsetInValue
  PieceInBuffer
  LengthAddsUp
  PieceAdvances
PROPERTIES
  ImplementsPieces
