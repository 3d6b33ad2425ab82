------------------------------ MODULE MCEsDesc ------------------------------
(* EsDesc on a small instance: two columns, of which SQLGetData has the    *)
(* first on the stack.                                                     *)
EXTENDS EsDesc

CONSTANT b1

MCBufs == {b1}

\* No action reads the history of the last call.
Remembered == <<stmt, refused>>

=============================================================================
