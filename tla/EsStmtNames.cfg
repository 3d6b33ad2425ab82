\* A server that answers as it should, all else as in EsStmt.cfg.
SPECIFICATION FairSpec
CONSTANTS
  MaxRows = 3
  FetchSize = 2
  ArraySizes = {1, 2}
  ColTypes = {"keyword", "integer"}
  CTypes = {"text", "date"}
  NoType = "none"
  Conv <- MCConv
  EarlyModes = {TRUE, FALSE}
  Faults = {}
INVARIANT ColumnNamesValid
