\* Two columns, one to trim past or to keep below the other; a type whose
\* precision is bounded after one whose default is above that bound, and one
\* whose precision nothing bounds.
SPECIFICATION Spec
CONSTANTS
  b1 = b1
  MaxCount = 2
  GdCount = 2
  CTypes = {"NUMERIC", "BYTE", "TIMESTAMP"}
  Bufs <- MCBufs
  Null = "null"
  Precisions = {0, 12}
INVARIANTS
  TypeOK
  AcceptedAreConsistent
PROPERTIES
  UnbindTrims
  FailedBindAddsNone
  ImplementsBindings
VIEW Remembered
