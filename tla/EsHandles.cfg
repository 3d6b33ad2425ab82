\* Two threads, two statements and a descriptor that they can share.
CONSTANTS
  Threads = {t1, t2}
  Dbc = dbc
  Stmts = {s1, s2}
  Descs = {d1}
  Bindings = {b1, b2}
  None = none

SPECIFICATION Spec
SYMMETRY Symmetry
INVARIANTS
  TypeOK
  FoundStays
