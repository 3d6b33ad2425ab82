\* As EsConnect.cfg.
SPECIFICATION Spec
CONSTANTS
  Dsns = {"d1", "d2", "d3"}
  Credentials <- MCCredentials
  DsnCatalog <- MCDsnCatalog
  DsnTimeout <- MCDsnTimeout
  Catalogs = {"c1", "c2"}
  Timeouts = {0, 1}
  MaxAttempts = 3
  MaxNoTypes = 2
  MaxTypes = 3
INVARIANT AttachedAnew
