---------------------------- MODULE ResultStream ----------------------------
(***************************************************************************)
(* What a statement promises of a result set: the rows of the query in     *)
(* order, none twice, and an end that is reported only at the end.         *)
(*                                                                         *)
(* A row can fail by itself, when it cannot be read or converted: it is    *)
(* passed over, whatever becomes of the others, and a call all of whose    *)
(* rows failed returns SQL_ERROR.  A page that cannot be had makes the     *)
(* call fail too; it takes the rows the call had already copied with it,   *)
(* and the stream may be cut short there.  No row is lost in another way,  *)
(* and a row set is only left short at the end.                            *)
(***************************************************************************)
EXTENDS Naturals, Sequences

CONSTANT MaxRows  \* bound: the most rows a query returns

VARIABLES
  size,   \* the most rows a call delivers: the application's row set
  phase,  \* "closed", "open", or "fetching" while a call runs
  total,  \* rows of the query
  pos,    \* rows consumed
  out,    \* the rows the running call has copied
  failed, \* how many rows of the running call have failed
  cut,    \* an earlier call failed and the rest of the stream is gone
  rc, rows  \* what the last call returned, and the rows it delivered

vars == <<size, phase, total, pos, out, failed, cut, rc, rows>>

Init ==
  /\ size = 1 /\ phase = "closed" /\ total = 0 /\ pos = 0 /\ out = <<>> /\ failed = 0
  /\ cut = FALSE
  /\ rc = "SUCCESS" /\ rows = <<>>

\* A query was executed: the application is before row 1.
Open ==
  /\ phase = "closed" /\ phase' = "open"
  /\ total' \in 0..MaxRows
  /\ pos' = 0 /\ cut' = FALSE /\ rc' = "SUCCESS" /\ rows' = <<>>
  /\ size' \in Nat \ {0} /\ UNCHANGED <<out, failed>>

Close ==
  /\ phase = "open" /\ phase' = "closed"
  /\ total' = 0 /\ pos' = 0 /\ cut' = FALSE /\ rc' = "SUCCESS" /\ rows' = <<>>
  /\ size' \in Nat \ {0} /\ UNCHANGED <<out, failed>>

\* A call other than a fetch, or one that failed while nothing is open.
Other ==
  /\ phase # "fetching"
  /\ rc' \in {"SUCCESS", "ERROR", "NO_DATA"} /\ rows' \in {rows, <<>>}
  /\ size' \in Nat \ {0} /\ UNCHANGED <<phase, total, pos, out, failed, cut>>

Begin ==
  /\ phase = "open" /\ phase' = "fetching"
  /\ rc' = "SUCCESS" /\ rows' = <<>>
  /\ UNCHANGED <<size, total, pos, out, failed, cut>>

Filled == Len(out) + failed = size
AtEnd == pos = total \/ cut

Take ==
  /\ phase = "fetching" /\ ~Filled /\ pos < total
  /\ pos' = pos + 1 /\ out' = Append(out, pos + 1)
  /\ UNCHANGED <<size, phase, total, failed, cut, rc, rows>>

\* The row fails, and is passed over.
Skip ==
  /\ phase = "fetching" /\ ~Filled /\ pos < total
  /\ pos' = pos + 1 /\ failed' = failed + 1
  /\ UNCHANGED <<size, phase, total, out, cut, rc, rows>>

\* The call returns code, and rows if it delivers.
Return(code) ==
  /\ phase = "fetching" /\ phase' = "open"
  /\ out' = <<>> /\ failed' = 0
  /\ rc' = code /\ UNCHANGED <<size, total, pos>>

Deliver ==
  /\ Return("SUCCESS") /\ out # <<>> /\ (Filled \/ AtEnd)
  /\ rows' = out /\ UNCHANGED cut

End ==
  /\ Return("NO_DATA") /\ out = <<>> /\ failed = 0 /\ AtEnd
  /\ UNCHANGED <<rows, cut>>

AllFailed ==
  /\ Return("ERROR") /\ out = <<>> /\ failed > 0 /\ (Filled \/ AtEnd)
  /\ UNCHANGED <<rows, cut>>

PageFails ==
  /\ Return("ERROR") /\ ~Filled
  /\ cut' \in {cut, TRUE} /\ UNCHANGED rows

Next ==
  \/ Open \/ Close \/ Other \/ Begin \/ Take \/ Skip
  \/ Deliver \/ End \/ AllFailed \/ PageFails

Spec == Init /\ [][Next]_vars

=============================================================================
