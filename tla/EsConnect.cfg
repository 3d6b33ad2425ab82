\* Up to three attempts over three data sources; room for two types.
SPECIFICATION Spec
CONSTANTS
  Dsns = {"d1", "d2", "d3"}
  Credentials <- MCCredentials
  DsnCatalog <- MCDsnCatalog
  DsnTimeout <- MCDsnTimeout
  Catalogs = {"c1", "c2"}
  Timeouts = {0, 1}
  MaxAttempts = 3
  MaxNoTypes = 2
  MaxTypes = 3
INVARIANTS
  TypeOK
  OneAttempt
  TypesAreAll
  ScratchFreed
