------------------------------- MODULE Bindings -------------------------------
(***************************************************************************)
(* What an application may rely on of its column bindings: a call on a     *)
(* column leaves all the other columns' bindings alone, a call that        *)
(* succeeds binds as it was asked, and lowering the count drops the        *)
(* columns above it and no other.                                          *)
(***************************************************************************)
EXTENDS Integers

CONSTANTS
  MaxCount,  \* the highest column number
  Unbound

Cols == 1..MaxCount

VARIABLES
  bound,  \* each column's binding, or Unbound
  last    \* the last call: what it asked of which column, and its return code

vars == <<bound, last>>

Init ==
  /\ bound = [c \in Cols |-> Unbound]
  /\ last.op = "none"

OnlyChanges(c) == \A d \in Cols \ {c} : bound'[d] = bound[d]

\* SQLBindCol succeeds: the column is bound as asked.
Bind(c) ==
  /\ last'.op = "bind" /\ last'.col = c /\ last'.ok
  /\ bound' = [bound EXCEPT ![c] = last'.want]

\* SQLBindCol fails, or another field of the column is set.
Disturb(c) ==
  /\ last'.op = "set" \/ (last'.op = "bind" /\ ~last'.ok)
  /\ last'.col = c /\ OnlyChanges(c)

\* SQL_DESC_COUNT is set, by the application or by SQLFreeStmt(SQL_UNBIND).
Lower(n) ==
  /\ last'.op = "count" /\ last'.ok
  /\ bound' = [c \in Cols |-> IF c > n THEN Unbound ELSE bound[c]]

\* SQLGetData, and calls that are refused.
Keep == bound' = bound /\ (last'.op = "get" \/ ~last'.ok)

Next ==
  \/ Keep
  \/ \E c \in Cols : Bind(c) \/ Disturb(c)
  \/ \E n \in 0..MaxCount : Lower(n)

Spec == Init /\ [][Next]_vars

=============================================================================
