------------------------------ MODULE MCEsCurl ------------------------------
(* EsCurl on a small instance: two statements, answers that are empty, at  *)
(* the limit and above it, a buffer that starts with one byte.             *)
EXTENDS EsCurl

CONSTANTS s1, s2

MCStmts == {s1, s2}

=============================================================================
