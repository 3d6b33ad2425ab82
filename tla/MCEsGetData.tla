----------------------------- MODULE MCEsGetData ------------------------------
(* EsGetData on a small instance: texts with characters of different widths, *)
(* one longer than the limit, an empty one, a number, a NULL, and timestamps *)
(* that the limit leaves whole, cuts, and that are too short.                *)
EXTENDS EsGetData

V(k, s) == [kind |-> k, text |-> s]

MCRows ==
  {<<V("TEXT", <<1, 2, 1, 2, 2, 1>>), V("INTEGER", <<1, 1, 1>>)>>,
   <<V("TEXT", <<>>), V("TIMESTAMP", <<1, 1, 1, 1>>), V("TIMESTAMP", <<1, 1, 1, 1, 1>>)>>,
   <<V("TEXT", <<3, 3, 1>>), V("NULL", <<>>), V("TIMESTAMP", <<1, 1>>)>>}

=============================================================================
