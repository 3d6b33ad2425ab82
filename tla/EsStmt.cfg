\* Three rows in pages of at most two, rowsets of one and two rows, early
\* execution on and off; answers that do not parse, pages that repeat the columns
\* and rows that cannot be read happen.
SPECIFICATION FairSpec
CONSTANTS
  MaxRows = 3
  FetchSize = 2
  ArraySizes = {1, 2}
  ColTypes = {"keyword", "integer"}
  CTypes = {"text", "date"}
  NoType = "none"
  Conv <- MCConv
  EarlyModes = {TRUE, FALSE}
  Faults = {"garbage", "colsagain", "badrow"}
INVARIANTS
  TypeOK
  CursorFollowsPage
  ServerContextHeld
  PreparedKeepsQuery
  EarlyResultUntouched
  GetDataOnCurrentRow
  RowValuesLive
  FetchOnlyConvertible
PROPERTIES
  ImplementsStream
  EveryFetchReturns
