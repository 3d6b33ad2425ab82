------------------------------ MODULE MCEsStmt ------------------------------
(* EsStmt on a small instance: three rows, pages of two.                   *)
EXTENDS EsStmt

\* Everything converts to a string; a number does not convert to a date.
MCConv == [p \in ColTypes \X CTypes |->
             IF p = <<"integer", "date">> THEN "VIOLATION" ELSE "SUPPORTED"]

=============================================================================
