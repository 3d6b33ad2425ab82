---------------------------- MODULE MCEsConnect ----------------------------
(* EsConnect on a small instance: one data source for each kind of         *)
(* credentials, one of them with a catalog, two with a timeout.            *)
EXTENDS EsConnect

MCCredentials == [d1 |-> "user", d2 |-> "key", d3 |-> "none"]
MCDsnCatalog == [d1 |-> "c1", d2 |-> NoName, d3 |-> NoName]
MCDsnTimeout == [d1 |-> 0, d2 |-> 1, d3 |-> 1]

=============================================================================
