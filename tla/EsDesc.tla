-------------------------------- MODULE EsDesc --------------------------------
(***************************************************************************)
(* The records of a statement's application row descriptor (ARD), as       *)
(* SQLBindCol, SQLSetDescField, SQLFreeStmt(SQL_UNBIND) and SQLGetData     *)
(* change them (src/driver/handles.c, queries.c).                          *)
(*                                                                         *)
(* SQLBindCol is a sequence of field changes, each of which can grow,      *)
(* shrink, unbind or refuse.  An operation on records is a set of          *)
(* outcomes, one for each way its allocations can go.  The statement's     *)
(* mutex makes each call one step.                                         *)
(***************************************************************************)
EXTENDS Integers, Sequences

CONSTANTS
  MaxCount,    \* ESODBC_MAX_DESC_COUNT
  GdCount,     \* ESODBC_GD_DESC_COUNT
  CTypes,      \* bound: the C types the application uses
  Bufs, Null,  \* the application's buffers
  Precisions   \* bound: the precisions the application sets

\* ESODBC_DEF_*: the precision that setting a type sets, for those that do.
DefPrecision ==
  [CHAR |-> 0, DATE |-> 0, TIMESTAMP |-> 6, SECOND |-> 6, NUMERIC |-> 19]

\* The precision that the consistency check allows at most, for the types that
\* it bounds: the ES type's column size, or ESODBC_MAX_SEC_PRECISION.  Times and
\* timestamps are not among them: the condition that their case shares with the
\* intervals, SQL_INTERVAL_MONTH < concise_type, is false of both, although the
\* comment in front of it names them.
MaxPrecision == [BYTE |-> 3, LONG |-> 10, DOUBLE |-> 15, SECOND |-> 9]

UnknownType == "unknown"  \* no type set yet, or one that has no meta type

ASSUME CountsAssumption == MaxCount \in Nat \ {0} /\ GdCount \in Nat
ASSUME DataAssumption ==
  /\ Null \notin Bufs /\ Precisions \subseteq Int
  /\ CTypes \subseteq STRING /\ UnknownType \notin CTypes

VARIABLES
  stmt,     \* the statement: its current ARD, the records of each ARD
  refused,  \* history: the columns on which the last call failed
  last      \* history: the last call

vars == <<stmt, refused, last>>

-----------------------------------------------------------------------------
(* Records.                                                                *)

LenPtrs == {"INDICATOR_PTR", "OCTET_LENGTH_PTR"}
Attributes == {"CONCISE_TYPE", "PRECISION", "DATETIME_INTERVAL_CODE", "OCTET_LENGTH"}
Fields == Attributes \cup LenPtrs \cup {"DATA_PTR"}

Rec == [ctype : CTypes \cup {UnknownType}, prec : Int, agree : BOOLEAN,
        data : Bufs \cup {Null}, lens : SUBSET LenPtrs]

InitRec == [ctype |-> UnknownType, prec |-> 0, agree |-> TRUE, data |-> Null, lens |-> {}]

RecIsBound(r) == r.data # Null \/ r.lens # {}

\* Whether the data may be converted into the record's buffer: a known type,
\* whose verbose type and code agree with it, and a precision within bounds.
\* The scale of a number and the leading precision of an interval
\* (datetime_interval_precision), fields checked in the same way, are left out.
ConsistencyCheck(r) ==
  /\ r.ctype # UnknownType /\ r.agree
  /\ r.ctype \in DOMAIN MaxPrecision => r.prec \in 0..MaxPrecision[r.ctype]

\* set_defaults_from_meta_type() leaves what other types used alone.
SetType(r, t) ==
  [r EXCEPT !.ctype = t, !.agree = TRUE,
            !.prec = IF t \in DOMAIN DefPrecision THEN DefPrecision[t] ELSE @]

AssignKeepsBuffer(r, f, v) ==
  CASE f = "CONCISE_TYPE" -> SetType(r, v)
    [] f = "PRECISION" -> [r EXCEPT !.prec = v]
    [] f = "DATETIME_INTERVAL_CODE" -> [r EXCEPT !.agree = v]
    [] f \in LenPtrs -> [r EXCEPT !.lens = IF v THEN @ \cup {f} ELSE @ \ {f}]
    [] OTHER -> r

\* Any field but the data pointer unbinds the data buffer.
Assign(r, f, v) ==
  LET u == [r EXCEPT !.data = Null]
  IN  CASE f = "CONCISE_TYPE" -> SetType(u, v)
        [] f = "PRECISION" -> [u EXCEPT !.prec = v]
        [] f = "DATETIME_INTERVAL_CODE" -> [u EXCEPT !.agree = v]
        [] f \in LenPtrs -> [u EXCEPT !.lens = IF v THEN @ \cup {f} ELSE @ \ {f}]
        [] OTHER -> u

-----------------------------------------------------------------------------
(* Operations on the records of an ARD.                                    *)

Out(recs, ok) == [recs |-> recs, ok |-> ok]

Resized(recs, n) == [i \in 1..n |-> IF i <= Len(recs) THEN recs[i] ELSE InitRec]

UpdateRecCountUnlimited(recs, n) ==
  IF n < 0 THEN {Out(recs, FALSE)}
  ELSE {Out(Resized(recs, n), TRUE)}
         \cup (IF n > Len(recs) THEN {Out(recs, FALSE)} ELSE {})

\* realloc() can fail when it grows; a smaller block stays where it is.
UpdateRecCount(recs, n) ==
  IF n \notin 0..MaxCount THEN {Out(recs, FALSE)}
  ELSE {Out(Resized(recs, n), TRUE)}
         \cup (IF n > Len(recs) THEN {Out(recs, FALSE)} ELSE {})

GetRecord(recs, c) ==
  IF Len(recs) < c THEN UpdateRecCount(recs, c) ELSE {Out(recs, TRUE)}

CountBoundOneLess(recs) == Len(recs) - 1

\* The highest record that is bound.
CountBound(recs) ==
  CHOOSE n \in 0..Len(recs) :
    /\ n > 0 => RecIsBound(recs[n])
    /\ \A i \in (n + 1)..Len(recs) : ~RecIsBound(recs[i])

\* SQL_DESC_DATA_PTR: a buffer is stored before it is checked; unbinding the
\* highest record lowers the count.
SetDataPtr(recs, c, v) ==
  LET set == [recs EXCEPT ![c].data = v]
  IN  IF v # Null THEN {Out(set, ConsistencyCheck(set[c]))}
      ELSE IF ~RecIsBound(set[c]) /\ c = Len(set) THEN UpdateRecCount(set, CountBound(set))
      ELSE {Out(set, TRUE)}

\* SQLSetDescField of a record field; check_access() grants an ARD all Fields.
SetRecField(recs, c, f, v) ==
  IF f = "DATA_PTR" THEN SetDataPtr(recs, c, v)
  ELSE {Out([recs EXCEPT ![c] = Assign(@, f, v)],
            f # "CONCISE_TYPE" \/ v # UnknownType)}

SetDescField(recs, c, f, v) ==
  UNION {IF o.ok THEN SetRecField(o.recs, c, f, v) ELSE {o} : o \in GetRecord(recs, c)}

\* The next field, unless the call failed already.
ThenSet(outs, c, f, v) ==
  UNION {IF o.ok THEN SetDescField(o.recs, c, f, v) ELSE {o} : o \in outs}

RestoredNever(recs, c, o) == {o}

\* A failed call gives the count back that it found, unless that is 0: it is
\* kept negated, and 0 has no sign.
Restored(recs, c, o) ==
  IF ~o.ok /\ Len(recs) \in 1..(c - 1)
  THEN {Out(p.recs, FALSE) : p \in UpdateRecCount(o.recs, Len(recs))}
  ELSE {o}

FieldsSet(recs, c, t, b, lens) ==
  LET typed == ThenSet(GetRecord(recs, c), c, "CONCISE_TYPE", t)
      sized == ThenSet(typed, c, "OCTET_LENGTH", 0)
      ind == ThenSet(sized, c, "INDICATOR_PTR", lens)
      len == ThenSet(ind, c, "OCTET_LENGTH_PTR", lens)
  IN  ThenSet(len, c, "DATA_PTR", b)

BindRec(recs, c, t, b, lens) ==
  UNION {Restored(recs, c, o) : o \in FieldsSet(recs, c, t, b, lens)}

-----------------------------------------------------------------------------
(* The statement.                                                          *)

Ards == {"own", "gd"}  \* the application's, and SQLGetData's own

Init ==
  /\ stmt = [ard |-> "own", recs |-> [a \in Ards |-> <<>>]]
  /\ refused = {}
  /\ last = [op |-> "none", col |-> 0, ok |-> TRUE, want |-> InitRec]

Recs == stmt.recs[stmt.ard]

Asked(c, t, b, lens) ==
  [InitRec EXCEPT !.ctype = t, !.data = b, !.lens = IF lens THEN LenPtrs ELSE {}]

Returns(op, c, want, o) ==
  /\ last' = [op |-> op, col |-> c, ok |-> o.ok, want |-> want]
  /\ refused' = (IF o.ok THEN refused \ {c} ELSE refused \cup {c})
                  \cap (1..Len(o.recs))

Stores(recs) == stmt' = [stmt EXCEPT !.recs[stmt.ard] = recs]

\* EsSQLBindCol().
BindCol(c, t, b, lens) ==
  \E o \in BindRec(Recs, c, t, b, lens) :
    Stores(o.recs) /\ Returns("bind", c, Asked(c, t, b, lens), o)

\* Column 0, the bookmark, and lengths below 0 are refused.
BindColRefused ==
  /\ last' = [op |-> "bind", col |-> 0, ok |-> FALSE, want |-> InitRec]
  /\ UNCHANGED <<stmt, refused>>

Values(f) ==
  CASE f = "CONCISE_TYPE" -> CTypes \cup {UnknownType}
    [] f = "PRECISION" -> Precisions
    [] f = "DATA_PTR" -> Bufs \cup {Null}
    [] OTHER -> BOOLEAN

\* EsSQLSetDescFieldW() of a record field.
SetField(c, f) ==
  \E v \in Values(f) : \E o \in SetDescField(Recs, c, f, v) :
    Stores(o.recs) /\ Returns("set", c, InitRec, o)

\* EsSQLSetDescFieldW(SQL_DESC_COUNT); SQLFreeStmt(SQL_UNBIND) sets 0.
SetCount(n) ==
  \E o \in UpdateRecCount(Recs, n) :
    /\ Stores(o.recs)
    /\ last' = [op |-> "count", col |-> 0, ok |-> o.ok, want |-> InitRec]
    /\ refused' = refused \cap (1..Len(o.recs))

\* SQLGetData binds its column in an ARD of its own, with records on the stack
\* for the first columns and allocated ones for the others (the DM refuses a
\* null target) ...
GetdataSetArd(s, c) ==
  [ard |-> "gd",
   recs |-> [s.recs EXCEPT !["gd"] = IF c < GdCount THEN [i \in 1..c |-> InitRec] ELSE <<>>]]

\* ... and puts the application's back, whether it succeeded or not.
GetdataResetArd(s) == [ard |-> "own", recs |-> [s.recs EXCEPT !["gd"] = <<>>]]

GetDataBinds(s, o) == [s EXCEPT !.recs[s.ard] = o.recs]

GetDataKeepsArd(c, t, b, lens) ==
  LET s == GetdataSetArd(stmt, c)
  IN  \E o \in BindRec(s.recs[s.ard], c, t, b, lens), converted \in BOOLEAN :
        /\ stmt' = IF o.ok THEN GetdataResetArd(GetDataBinds(s, o)) ELSE GetDataBinds(s, o)
        /\ last' = [op |-> "get", col |-> 0, ok |-> o.ok /\ converted, want |-> InitRec]
        /\ UNCHANGED refused

\* EsSQLGetData().
GetData(c, t, b, lens) ==
  LET s == GetdataSetArd(stmt, c)
  IN  \E o \in BindRec(s.recs[s.ard], c, t, b, lens), converted \in BOOLEAN :
        /\ stmt' = GetdataResetArd(GetDataBinds(s, o))
        /\ last' = [op |-> "get", col |-> 0, ok |-> o.ok /\ converted, want |-> InitRec]
        /\ UNCHANGED refused

Next ==
  \/ BindColRefused
  \/ \E c \in 1..(MaxCount + 1) :
       \/ \E t \in CTypes \cup {UnknownType}, lens \in BOOLEAN :
            \/ \E b \in Bufs \cup {Null} : BindCol(c, t, b, lens)
            \/ \E b \in Bufs : GetData(c, t, b, lens)
       \/ \E f \in Fields : SetField(c, f)
  \/ \E n \in (-1)..(MaxCount + 1) : SetCount(n)

Spec == Init /\ [][Next]_vars

-----------------------------------------------------------------------------
(* Properties.                                                             *)

\* The records are as many as the count says, of records' types, and a count
\* above the limit never comes to be.
TypeOK ==
  /\ stmt \in [ard : Ards, recs : [Ards -> Seq(Rec)]]
  /\ \A a \in Ards : Len(stmt.recs[a]) <= MaxCount
  /\ refused \subseteq 1..MaxCount
  /\ last \in [op : {"none", "bind", "set", "count", "get"}, col : 0..(MaxCount + 1),
               ok : BOOLEAN, want : Rec]

\* A buffer that is bound was checked with the very type and precision it is
\* bound with, unless the call that bound it was refused: every change of an
\* attribute unbinds.  What is checked is what the code checks: of a timestamp
\* its code, and no precision.
AcceptedAreConsistent ==
  \A c \in 1..Len(Recs) :
    Recs[c].data # Null => ConsistencyCheck(Recs[c]) \/ c \in refused

\* Unbinding the highest column leaves the count at a bound column, or at 0.
UnbindTrims ==
  [][last'.op = "bind" /\ last'.ok /\ last'.col >= Len(Recs)
     /\ last'.want.data = Null /\ last'.want.lens = {} =>
       Len(Recs') = 0 \/ RecIsBound(Recs'[Len(Recs')])]_vars

\* A failed SQLBindCol that found records leaves no more of them behind.
FailedBindAddsNone ==
  [][last'.op = "bind" /\ ~last'.ok /\ Len(Recs) > 0 => Len(Recs') <= Len(Recs)]_vars

\* The bindings change as an application expects: one column at a time.
NoBinding == [type |-> UnknownType, data |-> Null, lens |-> {}]
Binding(r) ==
  IF RecIsBound(r) THEN [type |-> r.ctype, data |-> r.data, lens |-> r.lens] ELSE NoBinding

Kept == INSTANCE Bindings WITH
  Unbound <- NoBinding,
  bound <- [c \in 1..MaxCount |-> IF c <= Len(Recs) THEN Binding(Recs[c]) ELSE NoBinding],
  last <- [op |-> last.op, col |-> last.col, ok |-> last.ok, want |-> Binding(last.want)]

\* Through growing, trimming, undoing and SQLGetData's own ARD, a call changes
\* the binding of its own column only.
ImplementsBindings == Kept!Spec

=============================================================================
