----------------------------- MODULE MCEsRowset -----------------------------
(* EsRowset on a small instance: two columns, rows of each kind.           *)
EXTENDS EsRowset

Fit(a, b) == [shape |-> "fit", vals |-> <<a, b>>]

MCRows == {Fit("fine", "fine"), Fit("info", "fine"), Fit("fine", "bad"),
           Fit("null", "fine"), Fit("alien", "fine"),
           [shape |-> "short", vals |-> <<"fine", "fine">>],
           [shape |-> "long", vals |-> <<"fine", "fine">>]}

MCBindCalls == {<<1, "unbound">>, <<1, "bound">>, <<1, "noind">>,
                <<2, "unbound">>, <<2, "bound">>, <<3, "unbound">>, <<3, "bound">>}

=============================================================================
