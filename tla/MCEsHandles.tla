---------------------------- MODULE MCEsHandles ----------------------------
(* EsHandles for TLC: threads, statements, descriptors and bindings are     *)
(* interchangeable.                                                         *)
EXTENDS EsHandles, TLC

Symmetry ==
  Permutations(Threads) \cup Permutations(Stmts) \cup Permutations(Bindings)

=============================================================================
