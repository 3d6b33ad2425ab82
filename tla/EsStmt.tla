------------------------------- MODULE EsStmt -------------------------------
(***************************************************************************)
(* One statement handle of the driver: preparing, executing, paging        *)
(* through a result set, SQLGetData and closing, against an Elasticsearch  *)
(* server that answers, fails or loses each request                        *)
(* (src/driver/queries.c, src/driver/handles.c).                           *)
(*                                                                         *)
(* Every entry point runs under the statement's mutex, so a call is atomic *)
(* here except SQLFetch: that one loops over rows and pages, and is a      *)
(* sequence of steps that nothing else on the statement interleaves with.  *)
(*                                                                         *)
(* A row is its ordinal in the query's full result, 1..total.  A page is   *)
(* the interval of rows (lo, hi]; lo moves up as the rows are copied out.  *)
(* A cursor is the number of rows the server sent before it: asking with   *)
(* the same cursor again gets the same page again.                         *)
(*                                                                         *)
(* All answers come in one encapsulation here; a result set that changes   *)
(* between JSON and CBOR from one page to the next is EsRowset's subject.  *)
(***************************************************************************)
EXTENDS Integers, Sequences

CONSTANTS
  MaxRows,      \* bound: the most rows a query returns
  FetchSize,    \* the most rows the server puts in one page
  ArraySizes,   \* the SQL_ATTR_ROW_ARRAY_SIZE values the application sets
  ColTypes,     \* ES/SQL types of the result's columns
  CTypes,       \* C types the application asks for
  Conv,         \* what convertability_check() says of a (column, C) type pair
  NoType,       \* no column type / nothing bound
  EarlyModes,   \* the values the early_exec connection setting takes
  Faults        \* how the server may misbehave, a subset of AllFaults

(***************************************************************************)
(* "garbage": a 200 answer that does not parse; "badcols": columns that    *)
(* fail to attach; "nocols": none in a first page; "colsagain": columns in *)
(* a later page; "emptypage": a page with a cursor but without rows;       *)
(* "badrow": rows that are no array or lack elements.  (A CBOR row with    *)
(* elements too many is not passed over: see EsRowset.)                    *)
(***************************************************************************)
AllFaults == {"garbage", "badcols", "nocols", "colsagain", "emptypage", "badrow"}

ASSUME BoundsAssumption ==
  /\ MaxRows \in Nat
  /\ FetchSize \in Nat \ {0}
  /\ ArraySizes \subseteq Nat \ {0}
  /\ 1 \in ArraySizes

ASSUME TypesAssumption ==
  /\ NoType \notin ColTypes \cup CTypes
  /\ Conv \in [ColTypes \X CTypes -> {"SUPPORTED", "VIOLATION", "UNSUPPORTED"}]
  /\ ColTypes # {}
  /\ EarlyModes \subseteq BOOLEAN
  /\ EarlyModes # {}
  /\ Faults \subseteq AllFaults

VARIABLES
  stmt,   \* esodbc_stmt_st
  early_exec, \* dbc->early_exec
  dm,     \* the Driver Manager's state of the statement
  srv,    \* the server: rows of the query and whether its context is open
  call,   \* the SQLFetch in progress
  app     \* what the application got from its last call

vars == <<stmt, early_exec, dm, srv, call, app>>

-----------------------------------------------------------------------------
(* The statement.                                                          *)

NoCursor == -1
NoRow == 0
Codes == {"SUCCESS", "ERROR", "NO_DATA"}
Refs == {"none", "live", "stale"}  \* pointers into the attached answer

EmptyRset == [body |-> FALSE, forced |-> FALSE, lo |-> 0, hi |-> 0, curs |-> NoCursor]
NoGd == [ctype |-> NoType, offt |-> "start", row |-> NoRow]
InitIrd == [cols |-> NoType, names |-> "none", ival |-> "none"]

InitStmt ==
  [u8sql |-> FALSE, early |-> FALSE, ird |-> InitIrd, rset |-> EmptyRset,
   tv_rows |-> 0, conv |-> "UNCHECKED", gd |-> NoGd, bound |-> NoType,
   unflagged |-> FALSE, array_size |-> 1]

HasCursor(s) == s.rset.curs # NoCursor

\* What becomes of a pointer into the answer when the answer is freed.
Released(ref) == IF ref = "none" THEN "none" ELSE "stale"

\* Mutants: the counters start over with every page; SQLGetData's state stays.
ClearResultsetCounters(s, on_close) ==
  [s EXCEPT !.rset = EmptyRset,
            !.ird.names = Released(@), !.ird.ival = Released(@),
            !.tv_rows = 0, !.gd = NoGd]
ClearResultsetKeepsGd(s, on_close) ==
  [s EXCEPT !.rset = EmptyRset,
            !.ird.names = Released(@), !.ird.ival = Released(@),
            !.tv_rows = IF on_close THEN 0 ELSE @]

\* clear_resultset(): the answer is freed, and with it what the IRD's records
\* point at; the records themselves stay.
ClearResultset(s, on_close) ==
  [s EXCEPT !.rset = EmptyRset,
            !.ird.names = Released(@), !.ird.ival = Released(@),
            !.tv_rows = IF on_close THEN 0 ELSE @,
            !.gd = NoGd]

\* clear_desc(ird, TRUE), once its cursor has been closed on the server.
ClearIrd(s) ==
  [(IF s.rset.body THEN ClearResultset(s, TRUE) ELSE s) EXCEPT !.ird = InitIrd]

\* Mutant: the cursor is forgotten without telling the server.
ForgetsCursor(s, w, heard) == w

\* close_es_cursor(): whatever comes of the request, the statement goes on.
\* "unheld" marks a context the driver could not, or tried to, let go of.
AfterClose(s, w, heard) ==
  IF ~HasCursor(s) THEN w
  ELSE IF heard THEN [w EXCEPT !.open = FALSE]
  ELSE [w EXCEPT !.unheld = w.open]

DetachSql(s) == [s EXCEPT !.u8sql = FALSE]
AttachSql(s) == [s EXCEPT !.u8sql = TRUE, !.tv_rows = 0, !.early = FALSE]

\* EsSQLFreeStmt(): SQL_CLOSE, and ESODBC_SQL_CLOSE that drops the query too.
FreeStmtEsClose(s) == ClearIrd(DetachSql(s))
FreeStmtClose(s) == ClearIrd(s)

-----------------------------------------------------------------------------
(* The server (external): how it slices a query's rows into pages.         *)

\* The rows after the first `lo` of `total` that one page can carry, and
\* whether a cursor comes with them.  A cursor may announce a next page that
\* turns out to be empty; without "emptypage" only the last page is empty.
Pages(lo, total) ==
  {p \in [lo : {lo}, hi : lo .. (lo + FetchSize), more : BOOLEAN] :
     /\ p.hi <= total
     /\ p.hi < total => p.more
     /\ p.hi = lo /\ lo < total => "emptypage" \in Faults
     /\ p.hi = lo /\ lo = total => ~p.more}

Forms == {"ok"} \cup (Faults \cap {"garbage", "badcols", "nocols", "colsagain"})

Answer(page, form, cols) == [page |-> page, form |-> form, cols |-> cols]

\* A first page comes with the columns, a later one without.
QueryAnswers(total) ==
  {Answer(p, f, IF f = "nocols" THEN NoType ELSE c) :
     p \in Pages(0, total), f \in Forms \ {"colsagain"}, c \in ColTypes}
ContinueAnswers(pos, total) ==
  {Answer(p, f, IF f = "colsagain" THEN c ELSE NoType) :
     p \in Pages(pos, total), f \in Forms \ {"badcols", "nocols"},
     c \in ColTypes}

-----------------------------------------------------------------------------
(* Attaching an answer.                                                    *)

\* attach_answer_json() / attach_answer_cbor() up to the columns.
AttachRows(s, a) ==
  [s EXCEPT !.rset = IF a.form = "garbage"
                     THEN [EmptyRset EXCEPT !.body = TRUE]
                     ELSE [body |-> TRUE, forced |-> a.page.hi = a.page.lo,
                           lo |-> a.page.lo, hi |-> a.page.hi,
                           curs |-> IF a.page.more THEN a.page.hi
                                                   ELSE NoCursor]]

\* attach_columns_json() / attach_columns_cbor(): the record count is set
\* before the columns are read.
AttachColumns(s, a) ==
  [s EXCEPT !.ird.cols = a.cols, !.ird.names = "live", !.ird.ival = "none"]

\* Does the answer give the statement a usable page?
Attaches(s, a) ==
  /\ a.form # "garbage"
  /\ IF a.cols # NoType THEN s.ird.cols = NoType /\ a.form # "badcols"
                        ELSE s.ird.cols # NoType

\* attach_answer(): the old result set goes first, the new answer is owned
\* from then on, whether it can be used or not.
AttachAnswer(s, a) ==
  LET c == IF s.rset.body THEN ClearResultset(s, FALSE) ELSE s
      r == AttachRows(c, a)
      columns == a.form # "garbage" /\ a.cols # NoType /\ s.ird.cols = NoType
      n == IF columns THEN AttachColumns(r, a) ELSE r
  IN  IF columns /\ Attaches(s, a) THEN [n EXCEPT !.conv = "UNCHECKED"] ELSE n

-----------------------------------------------------------------------------
(* EsSQLExecute() and curl_post(): one request.                            *)

Outcome(s, w, ok) == [s |-> s, w |-> w, ok |-> ok]

\* The request failed before it changed anything: serialization, transport,
\* or an HTTP error that attach_error() turned into a diagnostic.
Refused(s, w) == Outcome(s, w, FALSE)

\* The server served page p, but its answer got lost or was unusable.
Late(s, w, p, total) ==
  Outcome(s, [open |-> p.more, total |-> total,
              unheld |-> p.more /\ (w.unheld \/ ~HasCursor(s))], FALSE)

\* A cursor inside an answer that does not parse is never seen.
Served(s, a, total) ==
  Outcome(AttachAnswer(s, a),
          [open |-> a.page.more, total |-> total,
           unheld |-> a.page.more /\ a.form = "garbage"],
          Attaches(s, a))

\* serialize_statement() sends the cursor, when there is one, else the query.
Request(s, w) ==
  {Refused(s, w)} \cup
  IF HasCursor(s)
  THEN IF w.open
       THEN {Late(s, w, p, w.total) : p \in Pages(s.rset.curs, w.total)}
            \cup {Served(s, a, w.total) :
                    a \in ContinueAnswers(s.rset.curs, w.total)}
       ELSE {}
  ELSE UNION {{Late(s, w, p, n) : p \in Pages(0, n)}
              \cup {Served(s, a, n) : a \in QueryAnswers(n)} : n \in 0..MaxRows}

\* Mutant: the flag is reset by the execution that sends the request only.
ExecuteKeepsEarly(s, w) ==
  IF s.early /\ s.rset.body THEN {Outcome(s, w, TRUE)}
                            ELSE Request([s EXCEPT !.early = FALSE], w)

\* EsSQLExecute(): a query that SQLPrepare already executed is not sent again.
Execute(s, w) ==
  LET t == [s EXCEPT !.early = FALSE]
  IN  IF s.early /\ s.rset.body THEN {Outcome(t, w, TRUE)} ELSE Request(t, w)

-----------------------------------------------------------------------------
(* Binding columns and converting (ARD).                                   *)

\* convertability_check() over the bound columns.
Convertible(s) ==
  IF s.bound = NoType THEN "SUPPORTED" ELSE Conv[s.ird.cols, s.bound]

-----------------------------------------------------------------------------
(* Calls of the application.  The Driver Manager (external) only lets a    *)
(* call through in the states ODBC allows it in: S1 allocated, S3          *)
(* prepared, S5 executed, S6 positioned by SQLFetch; S0 freed.             *)

NoCall == [on |-> FALSE, i |-> 0, errors |-> 0, rows |-> <<>>]
NoApp == [rc |-> "SUCCESS", rows |-> <<>>, onrow |-> FALSE, read |-> "none"]

Init ==
  /\ stmt = InitStmt
  /\ early_exec \in EarlyModes
  /\ dm = [st |-> "S1", prep |-> FALSE]
  /\ srv = [open |-> FALSE, total |-> 0, unheld |-> FALSE]
  /\ call = NoCall
  /\ app = NoApp

Idle == ~call.on
CursorOpen == dm.st \in {"S5", "S6"}
Code(ok) == IF ok THEN "SUCCESS" ELSE "ERROR"

\* The call returns rc and leaves the application on no row.
Returns(rc) ==
  /\ app' = [NoApp EXCEPT !.rc = rc]
  /\ UNCHANGED <<early_exec, call>>

\* EsSQLPrepareW(): the old query is closed, the new one attached and, with
\* early execution on and no parameter marker in it, executed right away.
Prepare ==
  /\ Idle /\ dm.st \in {"S1", "S3"}
  /\ \E heard \in BOOLEAN, markers \in BOOLEAN :
       LET s == AttachSql(FreeStmtEsClose(stmt))
           w == AfterClose(stmt, srv, heard)
       IN  \/ /\ ~early_exec \/ markers
              /\ stmt' = s /\ srv' = w
              /\ dm' = [st |-> "S3", prep |-> TRUE]
              /\ Returns("SUCCESS")
           \/ /\ early_exec /\ ~markers
              /\ \E o \in Execute(s, w) :
                   /\ stmt' = [o.s EXCEPT !.early = o.ok]
                   /\ srv' = o.w
                   /\ dm' = [st |-> IF o.ok THEN "S3" ELSE "S1", prep |-> o.ok]
                   /\ Returns(Code(o.ok))

\* EsSQLPrepareW() / EsSQLExecDirectW() whose attach_sql() fails: what was
\* there before is gone all the same.
AttachSqlFails ==
  /\ Idle /\ dm.st \in {"S1", "S3"}
  /\ stmt' = FreeStmtEsClose(stmt)
  /\ \E heard \in BOOLEAN : srv' = AfterClose(stmt, srv, heard)
  /\ dm' = [st |-> "S1", prep |-> FALSE]
  /\ Returns("ERROR")

\* EsSQLExecDirectW(), as the release build has it: the query is dropped once
\* executed.
ExecDirect ==
  /\ Idle /\ dm.st \in {"S1", "S3"}
  /\ \E heard \in BOOLEAN :
       \E o \in Execute(AttachSql(FreeStmtEsClose(stmt)),
                        AfterClose(stmt, srv, heard)) :
         /\ stmt' = DetachSql(o.s)
         /\ srv' = o.w
         /\ dm' = [st |-> IF o.ok THEN "S5" ELSE "S1", prep |-> FALSE]
         /\ Returns(Code(o.ok))

\* SQLExecute of a prepared query.
ExecutePrepared ==
  /\ Idle /\ dm.st = "S3"
  /\ \E o \in Execute(stmt, srv) :
       /\ stmt' = o.s
       /\ srv' = o.w
       /\ dm' = [dm EXCEPT !.st = IF o.ok THEN "S5" ELSE "S3"]
       /\ Returns(Code(o.ok))

Close ==
  /\ stmt' = FreeStmtClose(stmt)
  /\ \E heard \in BOOLEAN : srv' = AfterClose(stmt, srv, heard)
  /\ dm' = [dm EXCEPT !.st = IF dm.prep THEN "S3" ELSE "S1"]
  /\ Returns("SUCCESS")

\* EsSQLCloseCursor(): 24000 without a result set.
CloseCursor == Idle /\ CursorOpen /\ stmt.rset.body /\ Close

\* EsSQLFreeStmt(SQL_CLOSE), legal in every state.
FreeStmt == Idle /\ dm.st # "S0" /\ Close

\* EsSQLFreeHandle(): the cursor is closed on the server first.
FreeHandle ==
  /\ Idle /\ dm.st # "S0"
  /\ stmt' = InitStmt
  /\ \E heard \in BOOLEAN : srv' = AfterClose(stmt, srv, heard)
  /\ dm' = [st |-> "S0", prep |-> FALSE]
  /\ Returns("SUCCESS")

\* EsSQLAllocHandle(): a new statement, init_stmt()'ed.
AllocHandle ==
  /\ dm.st = "S0"
  /\ stmt' = InitStmt
  /\ dm' = [dm EXCEPT !.st = "S1"]
  /\ UNCHANGED srv
  /\ Returns("SUCCESS")

-----------------------------------------------------------------------------
(* Binding (ARD) and statement attributes.                                 *)

Rebinds(s) == stmt' = s /\ UNCHANGED <<early_exec, dm, srv, call, app>>

\* Mutant: the flag survives a binding.
BindColKeepsFlag ==
  /\ Idle /\ dm.st # "S0"
  /\ \E c \in CTypes :
       Rebinds([stmt EXCEPT !.bound = c, !.unflagged = FALSE])

\* EsSQLBindCol(): "every binding resets conversion flag".
BindCol ==
  /\ Idle /\ dm.st # "S0"
  /\ \E c \in CTypes :
       Rebinds([stmt EXCEPT !.bound = c, !.unflagged = FALSE, !.conv = "UNCHECKED"])

\* EsSQLFreeStmt(SQL_UNBIND): the ARD's record count is set to 0.
Unbind ==
  Idle /\ dm.st # "S0" /\ Rebinds([stmt EXCEPT !.bound = NoType])

\* EsSQLSetDescFieldW() on the ARD's records does not know of the flag, and
\* EsSQLBindCol() that fails its consistency check has stored type and buffer
\* by then but does not reset it.  "unflagged": last changed this way.
BindUnflagged ==
  /\ Idle /\ dm.st # "S0"
  /\ \E c \in CTypes :
       Rebinds([stmt EXCEPT !.bound = c, !.unflagged = TRUE])

\* EsSQLSetStmtAttrW(SQL_ATTR_ROW_ARRAY_SIZE).
SetArraySize ==
  /\ Idle /\ dm.st # "S0"
  /\ \E n \in ArraySizes : Rebinds([stmt EXCEPT !.array_size = n])

-----------------------------------------------------------------------------
(* EsSQLFetch().                                                           *)

\* The flag as the check at the top of EsSQLFetch() leaves it.
Checked(s) == IF s.conv = "UNCHECKED" THEN Convertible(s) ELSE s.conv

FetchRefused ==
  /\ Idle /\ CursorOpen
  /\ Checked(stmt) # "SUPPORTED"
  /\ stmt' = [stmt EXCEPT !.conv = Checked(stmt)]
  /\ UNCHANGED <<dm, srv>>
  /\ Returns("ERROR")

FetchBegin ==
  /\ Idle /\ CursorOpen
  /\ Checked(stmt) = "SUPPORTED"
  /\ stmt' = [stmt EXCEPT !.conv = Checked(stmt), !.gd = NoGd]
  /\ call' = [NoCall EXCEPT !.on = TRUE]
  /\ app' = NoApp
  /\ UNCHANGED <<early_exec, dm, srv>>

\* Mutant: the iterator is asked for one row too many.
PageEmptyLate(s) == s.rset.lo > s.rset.hi

\* UJIterArray() / cbor_value_at_end() on the page's rows.
PageEmpty(s) == s.rset.lo = s.rset.hi
RowsWanted == call.on /\ call.i < stmt.array_size

\* EsSQLFetch() returns: NO_DATA without a row, ERROR if all rows failed.
FetchReturns(i, errors) ==
  LET rc == IF i = 0 THEN "NO_DATA" ELSE IF i <= errors THEN "ERROR" ELSE "SUCCESS"
  IN  /\ call' = NoCall
      /\ app' = [rc |-> rc, rows |-> IF rc = "SUCCESS" THEN call.rows ELSE <<>>,
                 onrow |-> rc = "SUCCESS" /\ stmt.array_size = 1,
                 read |-> "none"]
      /\ dm' = [dm EXCEPT !.st = IF rc = "ERROR" THEN @ ELSE "S6"]

\* What can become of the row the iterator is on.
RowOutcomes(s) ==
  {"copied"} \cup (IF s.bound # NoType THEN {"inconvertible"} ELSE {})
             \cup (IF "badrow" \in Faults THEN {"malformed"} ELSE {})

\* Mutant: a row is only unpacked to be copied into bound columns.
FetchRowBoundOnly ==
  /\ RowsWanted /\ ~PageEmpty(stmt)
  /\ call' = [call EXCEPT !.i = @ + 1, !.rows = Append(@, stmt.rset.lo + 1)]
  /\ stmt' = [stmt EXCEPT !.rset.lo = @ + 1, !.tv_rows = @ + 1,
                 !.ird.ival = IF stmt.bound # NoType THEN "live" ELSE @]
  /\ UNCHANGED <<early_exec, dm, srv, app>>

\* Mutant: a row that fails is not counted as an error.
FetchRowUncounted ==
  /\ RowsWanted /\ ~PageEmpty(stmt)
  /\ \E outcome \in RowOutcomes(stmt) :
       /\ call' = [call EXCEPT !.i = @ + 1,
            !.rows = IF outcome = "copied" THEN Append(@, stmt.rset.lo + 1) ELSE @]
       /\ stmt' = [stmt EXCEPT !.rset.lo = @ + 1, !.tv_rows = @ + 1,
                               !.ird.ival = "live"]
  /\ UNCHANGED <<early_exec, dm, srv, app>>

\* unpack_one_row_*() and copy_one_row_*(): the IRD's records point into the
\* answer, and what is bound is converted.  A row for which either fails is
\* taken and counted as an error, and not delivered.
FetchRow ==
  /\ RowsWanted /\ ~PageEmpty(stmt)
  /\ \E outcome \in RowOutcomes(stmt) :
       /\ call' = IF outcome = "copied"
                  THEN [call EXCEPT !.i = @ + 1, !.rows = Append(@, stmt.rset.lo + 1)]
                  ELSE [call EXCEPT !.i = @ + 1, !.errors = @ + 1]
       /\ \E ival \in IF outcome = "malformed" THEN {stmt.ird.ival, "live"}
                                               ELSE {"live"} :
            stmt' = [stmt EXCEPT !.rset.lo = @ + 1, !.tv_rows = @ + 1,
                                 !.ird.ival = ival]
  /\ UNCHANGED <<early_exec, dm, srv, app>>

\* The page is used up and there is a cursor: get the next page.  Its failure
\* ends the call there and then; an empty one ends it as the last page would.
FetchTurn ==
  /\ RowsWanted /\ PageEmpty(stmt) /\ HasCursor(stmt)
  /\ UNCHANGED early_exec
  /\ \E o \in Execute(stmt, srv) :
       /\ stmt' = o.s
       /\ srv' = o.w
       /\ \/ /\ ~o.ok
             /\ call' = NoCall
             /\ app' = [NoApp EXCEPT !.rc = "ERROR"]
             /\ UNCHANGED dm
          \/ /\ o.ok /\ ~o.s.rset.forced
             /\ UNCHANGED <<call, app, dm>>
          \/ /\ o.ok /\ o.s.rset.forced
             /\ FetchReturns(call.i, call.errors)

FetchEnd ==
  /\ call.on
  /\ ~RowsWanted \/ (PageEmpty(stmt) /\ ~HasCursor(stmt))
  /\ FetchReturns(call.i, call.errors)
  /\ UNCHANGED <<stmt, early_exec, srv>>

FetchStep == FetchRow \/ FetchTurn \/ FetchEnd

-----------------------------------------------------------------------------
(* EsSQLGetData(), of one column, as C type c.                             *)

GdResuming(c) == stmt.gd.ctype = c

GdReturns(rc, gd, read) ==
  /\ stmt' = [stmt EXCEPT !.gd = gd]
  /\ app' = [app EXCEPT !.rc = rc, !.read = read]
  /\ UNCHANGED <<early_exec, dm, srv, call>>

\* The value had been handed out entirely.
GetDataExhausted ==
  /\ Idle /\ dm.st = "S6"
  /\ \E c \in CTypes : GdResuming(c)
  /\ stmt.gd.offt = "end"
  /\ GdReturns("NO_DATA", stmt.gd, "none")

\* gd_checks(): not with block cursors.
GetDataRefused ==
  /\ Idle /\ dm.st = "S6" /\ stmt.array_size > 1
  /\ \E c \in CTypes : ~GdResuming(c)
  /\ GdReturns("ERROR", NoGd, "none")

\* The offset in the value, after one more chunk of it (only strings and
\* binaries move it).
NextOfft == [start |-> {"start", "mid", "end"}, mid |-> {"mid", "end"}, end |-> {}]

\* The column is bound in a descriptor of the call's own, with EsSQLBindCol(),
\* which resets the conversion flag, and copied from the IRD's record.
GetDataCopies ==
  /\ Idle /\ dm.st = "S6"
  /\ \E c \in CTypes :
       LET from == IF GdResuming(c) THEN stmt.gd.offt ELSE "start"
           convertible == Conv[stmt.ird.cols, c] = "SUPPORTED"
       IN  /\ from # "end"
           /\ GdResuming(c) \/ stmt.array_size = 1
           /\ \E copied \in BOOLEAN, offt \in NextOfft[from] :
                /\ copied => convertible
                /\ stmt' = [stmt EXCEPT !.conv = "UNCHECKED",
                              !.gd = IF copied THEN [ctype |-> c, offt |-> offt,
                                                     row |-> stmt.tv_rows]
                                               ELSE NoGd]
                /\ app' = [app EXCEPT !.rc = Code(copied),
                             !.read = IF convertible THEN stmt.ird.ival ELSE "none"]
  /\ UNCHANGED <<early_exec, dm, srv, call>>

-----------------------------------------------------------------------------
Next ==
  \/ Prepare \/ AttachSqlFails \/ ExecDirect \/ ExecutePrepared
  \/ CloseCursor \/ FreeStmt \/ FreeHandle \/ AllocHandle
  \/ BindCol \/ Unbind \/ BindUnflagged \/ SetArraySize
  \/ FetchRefused \/ FetchBegin \/ FetchStep
  \/ GetDataExhausted \/ GetDataRefused \/ GetDataCopies

Spec == Init /\ [][Next]_vars

\* A call that runs in the driver goes on to its end: libcurl's timeouts
\* bound each request.
FairSpec == Spec /\ WF_vars(FetchStep)

-----------------------------------------------------------------------------
(* Types.                                                                  *)

StmtType ==
  [u8sql : BOOLEAN, early : BOOLEAN,
   ird : [cols : ColTypes \cup {NoType}, names : Refs, ival : Refs],
   rset : [body : BOOLEAN, forced : BOOLEAN, lo : Nat, hi : Nat,
           curs : Nat \cup {NoCursor}],
   tv_rows : Nat,
   conv : {"UNCHECKED", "SUPPORTED", "VIOLATION", "UNSUPPORTED"},
   gd : [ctype : CTypes \cup {NoType}, offt : {"start", "mid", "end"}, row : Nat],
   bound : CTypes \cup {NoType},
   unflagged : BOOLEAN,
   array_size : ArraySizes]

\* Every variable of the statement, the server and the calls keeps its type,
\* a page never has more rows left than it came with, and a call never takes
\* more rows than the application's rowset has room for (EsSQLFetch's loop).
TypeOK ==
  /\ stmt \in StmtType
  /\ early_exec \in BOOLEAN
  /\ dm \in [st : {"S0", "S1", "S3", "S5", "S6"}, prep : BOOLEAN]
  /\ srv \in [open : BOOLEAN, total : Nat, unheld : BOOLEAN]
  /\ call \in [on : BOOLEAN, i : Nat, errors : Nat, rows : Seq(Nat)]
  /\ app \in [rc : Codes, rows : Seq(Nat), onrow : BOOLEAN, read : Refs]
  /\ stmt.rset.lo <= stmt.rset.hi
  /\ call.i <= stmt.array_size

-----------------------------------------------------------------------------
(* Safety.                                                                 *)

\* What was counted and what is left of the page add up to what the cursor
\* will skip: the next page begins right after this one, whatever failed in
\* between (attach_answer, EsSQLFetch, EsSQLExecute).
CursorFollowsPage ==
  CursorOpen /\ HasCursor(stmt) =>
    stmt.tv_rows + (stmt.rset.hi - stmt.rset.lo) = stmt.rset.curs

\* A paging context left open on the server is one the statement holds the
\* cursor of, unless the server's answer with the cursor or the driver's
\* request to close it got lost (clear_desc, attach_answer).
ServerContextHeld == srv.open => HasCursor(stmt) \/ srv.unheld

\* A statement the Driver Manager lets the application re-execute still has
\* its query (SQL_CLOSE against ESODBC_SQL_CLOSE).
PreparedKeepsQuery == dm.prep => stmt.u8sql

\* An early executed result is untouched until SQLExecute hands it over, and
\* the flag is off by then: EsSQLFetch turns pages through EsSQLExecute, which
\* would do nothing, for ever, were it still on.
EarlyResultUntouched ==
  stmt.early => /\ dm.st \in {"S1", "S3"}
                /\ stmt.rset.body => stmt.rset.lo = 0 /\ stmt.tv_rows = 0

\* SQLGetData's column and offset always concern the row the statement is on:
\* none survives a SQLFetch, a close or an execution (STMT_GD_RESET).
GetDataOnCurrentRow ==
  stmt.gd.ctype # NoType =>
    stmt.rset.body /\ ~call.on /\ stmt.gd.row = stmt.tv_rows

\* After a SQLFetch that returned one row, the IRD's values point into the
\* answer the statement holds (unpack_one_row_*, clear_resultset).
RowValuesLive == app.onrow => stmt.ird.ival = "live"

\* SQLFetch copies rows only into buffers the columns convert to, however the
\* application rebinds with EsSQLBindCol() or unbinds between fetches, and
\* whatever columns a re-execution brings (convertability_check).
FetchOnlyConvertible ==
  call.on /\ ~stmt.unflagged => Convertible(stmt) = "SUPPORTED"

-----------------------------------------------------------------------------
(* The stream of rows the statement implements.                            *)

Opened == stmt.rset.body /\ CursorOpen
Lost == ~HasCursor(stmt) /\ stmt.rset.hi < srv.total

Stream == INSTANCE ResultStream WITH
  size <- stmt.array_size,
  phase <- IF call.on THEN "fetching" ELSE IF Opened THEN "open" ELSE "closed",
  total <- IF Opened THEN srv.total ELSE 0,
  pos <- IF Opened THEN stmt.tv_rows ELSE 0,
  out <- call.rows,
  failed <- call.errors,
  cut <- Opened /\ Lost,
  rc <- app.rc,
  rows <- app.rows

\* Paging is invisible: rows are delivered in the query's order, none twice, a
\* row set is filled unless the rows end, and no call reports the end before it.
\* A row is lost only if it fails itself (it cannot be unpacked or converted:
\* EsSQLFetch counts it, and returns SQL_SUCCESS if another row of the row set did
\* not fail) or with a page that could not be had, in a call that returns SQL_ERROR.
ImplementsStream == Stream!Spec

\* The column records' names can be asked for (SQLDescribeCol, SQLColAttribute)
\* at any time while columns are attached: they point at valid strings.
ColumnNamesValid == stmt.ird.cols # NoType => stmt.ird.names = "live"

\* Every SQLFetch returns (the loop over rows and pages in EsSQLFetch).
EveryFetchReturns == call.on ~> ~call.on

=============================================================================
