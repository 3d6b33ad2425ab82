\* Timeouts are set on the statements; the handle is shared.
SPECIFICATION FairSpec
CONSTANTS
  s1 = s1
  s2 = s2
  Stmts <- MCStmts
  NoStmt = "none"
  Timeouts = {0, 1, 2}
  Bodies = {0, 3, 4}
  AMax = 3
  StartSize = 1
INVARIANT TimeoutIsMaximum
