\* Two statements share the handle; an answer can exceed the limit; the
\* application sets timeouts on both statements and on the connection.
SPECIFICATION FairSpec
CONSTANTS
  s1 = s1
  s2 = s2
  Stmts <- MCStmts
  NoStmt = "none"
  Timeouts = {0, 1, 2}
  Bodies = {0, 3, 4}
  AMax = 3
  StartSize = 1
INVARIANTS
  TypeOK
  BufferHoldsAnswer
  QueryTimeoutInForce
  DiagNotOfOthers
PROPERTIES
  FailedHandleDropped
  TimedRequestEnds
  ImplementsTransport
