------------------------------ MODULE EsRowset ------------------------------
(***************************************************************************)
(* SQLFetch of a row set into the application's memory: the bound columns, *)
(* the row status array, the count of rows and the diagnostic              *)
(* (EsSQLFetch and copy_one_row_* / unpack_one_row_* in                    *)
(* src/driver/queries.c, deferred_address() in convert.c).                 *)
(*                                                                         *)
(* Which rows there are is the server's choice, made when a row is read.   *)
(* A row is malformed ("short", "long") or it fits the columns and has an  *)
(* outcome of copying for each of them.  A bind offset selects one of      *)
(* several equal areas of the application's memory.                        *)
(***************************************************************************)
EXTENDS Integers, Sequences

CONSTANTS
  Cols,          \* the columns of the result
  ServerRows,    \* bound: the rows a page may have
  MaxRows,       \* bound: the rows of a result
  PageSize,      \* bound: the rows of a page
  MaxVisited,    \* bound: no SQLFetch once as many rows are counted
  ArraySizes,    \* bound: the values of SQL_ATTR_ROW_ARRAY_SIZE
  Offsets,       \* bound: the values *SQL_ATTR_ROW_BIND_OFFSET_PTR takes
  BindCalls,     \* bound: the columns bound, and whether with an indicator
  Packs          \* is an answer JSON?  (else CBOR)

\* "fine", "info" (cut, with a warning) and "null" are copied; "bad" fails to
\* convert, "alien" is an element that is no value.
Outcomes == {"fine", "info", "null", "bad", "alien"}
Row == [shape : {"fit", "short", "long"}, vals : [1..Cols -> Outcomes]]
Binds == {"unbound", "bound", "noind"}   \* "noind": without an indicator

ASSUME RowsetAssumption ==
  /\ Cols \in Nat \ {0} /\ MaxRows \in Nat /\ PageSize \in Nat \ {0}
  /\ MaxVisited \in Nat
  /\ ServerRows \subseteq Row
  /\ ArraySizes \subseteq Nat \ {0} /\ 1 \in ArraySizes
  /\ Offsets \subseteq Nat /\ 0 \in Offsets
  /\ BindCalls \subseteq (1..(Cols + 1)) \X Binds
  /\ Packs \subseteq BOOLEAN

VARIABLES
  stmt,    \* the attached page and the rows counted
  ird,     \* are the status array and the rows-processed pointer set?
  ard,     \* array size, binding orientation and offset, the bound columns
  diag,    \* the row and column that the last call posted a diagnostic for
  mem,     \* the application's: status array, count of rows, buffers
  call,    \* the running SQLFetch, or the last one: the rows it read, and the
           \* encapsulation it reads in
  last     \* what the last call answered

vars == <<stmt, ird, ard, diag, mem, call, last>>

Old == "OLD"       \* what was in a variable before the call
OldCell == [n |-> 0, val |-> Old]
NoDiag == [row |-> -1, col |-> -1]
NoColumnNumber == -1
NoPage == [body |-> FALSE, json |-> FALSE, lo |-> 0, hi |-> 0, more |-> FALSE,
           stuck |-> {}]
Page(json, lo, hi, more) ==
  [body |-> TRUE, json |-> json, lo |-> lo, hi |-> hi, more |-> more, stuck |-> {}]

\* `mixed`: it has turned to a page in another encapsulation than its own.
NoCall == [on |-> FALSE, json |-> FALSE, mixed |-> FALSE, rows |-> <<>>, errors |-> 0]

NoRow == 0     \* the number of what was read and is no row of the result

ArdCols == 1..(Cols + 1)     \* one more than there are
Positions(n) == 0..(n - 1)
AllPositions == UNION {Positions(n) : n \in ArraySizes}
Untouched ==
  [status |-> [p \in AllPositions |-> Old], rows |-> -1,
   cells |-> [c \in ArdCols |-> [a \in Offsets \X AllPositions |-> OldCell]]]

Bound(a) == {c \in ArdCols : a.cols[c] # "unbound"}

Least(S) == CHOOSE x \in S : \A y \in S : x <= y
Greatest(S) == CHOOSE x \in S : \A y \in S : y <= x

-----------------------------------------------------------------------------
(* Copying one row.                                                        *)

\* deferred_address(): with column-wise binding there is no offset.
DeferredAddress(a, pos) == <<IF a.by_row THEN a.offset ELSE 0, pos>>

\* What the bound column c makes of a row's copying.
ColumnFails(row, bind, c) ==
  \/ c > Cols
  \/ row.vals[c] \in {"bad", "alien"}
  \/ row.vals[c] = "null" /\ bind[c] = "noind"

\* A failed conversion returns what sql2c_*() did, everything else that fails
\* goes by set_row_diag().
FailsInConversion(row, c) == c <= Cols /\ row.vals[c] = "bad"

\* `tv_rows + STMT_GD_CALLING(stmt) ? 0 : 1`, as the compiler reads it.
RowNo(tv_rows, gd_calling) == IF tv_rows > 0 \/ gd_calling THEN 0 ELSE 1

\* Mutant: the status array is written whether there is one or not.
SetStatusAlways(m, pos, value) == [m EXCEPT !.status[pos] = value]

SetStatus(m, pos, value) ==
  IF ird.status_ptr THEN [m EXCEPT !.status[pos] = value] ELSE m

\* set_row_diag(): the memory, the diagnostic and the answer.
SetRowDiag(m, pos, col) ==
  [mem |-> SetStatus(m, pos, "ERROR"),
   diag |-> [row |-> stmt.tv_rows + 1, col |-> col], ret |-> "ERROR"]

\* Mutant: the indicator of a NULL is not written.
CopiedNotNull(row, bound, failing) ==
  {c \in bound : c <= Cols /\ row.vals[c] # "null" /\ \A f \in failing : c < f}

\* The columns in front of the first one that fails.
Copied(row, bound, failing) == {c \in bound : \A f \in failing : c < f}

\* copy_one_row_json() / copy_one_row_cbor() of row n.
CopyOneRow(m, row, n, a, pos, gd_calling) ==
  LET bound == Bound(a)
      failing == {c \in bound : ColumnFails(row, a.cols, c)}
      copied == Copied(row, bound, failing)
      infos == {c \in copied : row.vals[c] = "info"}
      value(c) == [n |-> n, val |-> row.vals[c]]
      m1 == IF gd_calling THEN m
            ELSE [m EXCEPT !.cells =
                    [c \in ArdCols |->
                       IF c \in copied
                       THEN [@[c] EXCEPT ![DeferredAddress(a, pos)] = value(c)]
                       ELSE @[c]]]
      at(c) == [row |-> RowNo(stmt.tv_rows, gd_calling), col |-> c]
  IN  IF failing # {} /\ FailsInConversion(row, Least(failing))
      THEN [mem |-> m1, diag |-> at(Least(failing)), ret |-> "ERROR"]
      ELSE IF failing # {} THEN SetRowDiag(m1, pos, Least(failing))
      ELSE IF infos # {}
      THEN [mem |-> SetStatus(m1, pos, "INFO"), diag |-> at(Greatest(infos)),
            ret |-> "INFO"]
      ELSE [mem |-> SetStatus(m1, pos, "SUCCESS"), diag |-> diag, ret |-> "SUCCESS"]

\* unpack_one_row_json() / unpack_one_row_cbor(); a short row has all columns but
\* the last one.
UnpackOneRow(row, n, pos) ==
  IF row.shape # "fit"
  THEN SetRowDiag(mem, pos, IF row.shape = "short" /\ call.json
                            THEN Cols ELSE NoColumnNumber)
  ELSE IF Bound(ard) = {} THEN [mem |-> mem, diag |-> diag, ret |-> "SUCCESS"]
  ELSE CopyOneRow(mem, row, n, ard, pos, FALSE)

\* Mutant: a JSON row with an element too many stops the iterator too.
AdvancesNotOverLong(json, row) == row.shape # "long"

\* Does the page's iterator move over the row?  Release builds return from a
\* CBOR row with too many elements without leaving it.
Advances(json, row) == json \/ row.shape # "long"

-----------------------------------------------------------------------------
(* The statement's calls.                                                  *)

Init ==
  /\ stmt = [rset |-> NoPage, tv_rows |-> 0]
  /\ ird = [status_ptr |-> FALSE, rows_ptr |-> FALSE]
  /\ ard = [array_size |-> 1, by_row |-> FALSE, offset |-> 0,
            cols |-> [c \in ArdCols |-> "unbound"]]
  /\ diag = NoDiag
  /\ mem = Untouched
  /\ call = NoCall
  /\ last = "NONE"

Idle == ~call.on

\* What the application's memory and the diagnostic hold is old to the next call.
Anew ==
  /\ call' = NoCall
  /\ mem' = Untouched
  /\ diag' = NoDiag
  /\ last' = "NONE"

\* The server's pages: rows if there are some left, one without any only last.
PageEnds(lo) == {h \in lo..(lo + PageSize) : h <= MaxRows}

\* EsSQLExecute() of a prepared query.
Execute ==
  /\ Idle /\ ~stmt.rset.body
  /\ \E json \in Packs, hi \in PageEnds(0), more \in BOOLEAN :
       /\ hi = 0 => ~more
       /\ stmt' = [rset |-> Page(json, 0, hi, more), tv_rows |-> 0]
  /\ Anew
  /\ UNCHANGED <<ird, ard>>

\* SQLFreeStmt(SQL_CLOSE): clear_desc() initialises the IRD's header anew.
Close ==
  /\ Idle /\ stmt.rset.body
  /\ stmt' = [rset |-> NoPage, tv_rows |-> 0]
  /\ ird' = [status_ptr |-> FALSE, rows_ptr |-> FALSE]
  /\ Anew
  /\ UNCHANGED ard

\* SQLSetStmtAttr() of SQL_ATTR_ROW_STATUS_PTR and SQL_ATTR_ROWS_FETCHED_PTR.
SetIrdPointer ==
  /\ Idle
  /\ \E field \in {"status_ptr", "rows_ptr"}, set \in BOOLEAN :
       ird' = [ird EXCEPT ![field] = set]
  /\ Anew
  /\ UNCHANGED <<stmt, ard>>

\* SQLSetStmtAttr() of SQL_ATTR_ROW_ARRAY_SIZE and SQL_ATTR_ROW_BIND_TYPE; the
\* application moves the offset that SQL_ATTR_ROW_BIND_OFFSET_PTR points at.
SetArdHeader ==
  /\ Idle
  /\ \E n \in ArraySizes, rows \in BOOLEAN, o \in Offsets :
       ard' = [ard EXCEPT !.array_size = n, !.by_row = rows, !.offset = o]
  /\ Anew
  /\ UNCHANGED <<stmt, ird>>

\* SQLBindCol(), with or without a pointer for the length.
BindCol ==
  /\ Idle
  /\ \E b \in BindCalls : ard' = [ard EXCEPT !.cols[b[1]] = b[2]]
  /\ Anew
  /\ UNCHANGED <<stmt, ird>>

\* SQLFetch() up to its loop: `pack_json` is read here, once.
FetchBegin ==
  /\ Idle /\ stmt.rset.body /\ stmt.tv_rows <= MaxVisited
  /\ call' = [NoCall EXCEPT !.on = TRUE, !.json = stmt.rset.json]
  /\ mem' = Untouched
  /\ diag' = NoDiag
  /\ last' = "NONE"
  /\ UNCHANGED <<stmt, ird, ard>>

Pos == Len(call.rows)

\* Mutant: the loop runs once too often.
RoomForOneMore == call.on /\ Pos <= ard.array_size

Room == call.on /\ Pos < ard.array_size
Empty == stmt.rset.lo = stmt.rset.hi

\* The attached page is read as if it were of the other encapsulation.  The CBOR
\* iterator of a JSON page is zeroed memory, at its end; the JSON iterator of a
\* CBOR page is made of other members of the union, and anything may come of it.
Misread == call.json # stmt.rset.json
LooksEmpty == Empty \/ Misread

\* One turn of the loop, over what is taken for a row, leaving the page as it says.
TakeRow(row, n, rset) ==
  LET r == UnpackOneRow(row, n, Pos)
  IN  /\ call' = [call EXCEPT
                    !.rows = Append(@, [n |-> n, row |-> row, ret |-> r.ret,
                                       json |-> call.json, mixed |-> call.mixed]),
                    !.errors = IF r.ret = "ERROR" THEN @ + 1 ELSE @]
      /\ stmt' = [rset |-> rset, tv_rows |-> stmt.tv_rows + 1]
      /\ mem' = r.mem
      /\ diag' = r.diag
      /\ UNCHANGED <<ird, ard, last>>

\* One more row: the one the iterator is stuck on, or any the server sent.
FetchRow ==
  /\ Room /\ ~LooksEmpty
  /\ \E row \in IF stmt.rset.stuck # {} THEN stmt.rset.stuck ELSE ServerRows :
       TakeRow(row, stmt.rset.lo + 1,
               IF Advances(call.json, row)
               THEN [stmt.rset EXCEPT !.lo = @ + 1, !.stuck = {}]
               ELSE [stmt.rset EXCEPT !.stuck = {row}])

\* A row that the JSON iterator finds in a CBOR page's bytes, if the process
\* outlives it; the page's own iterator is another member and stays.
FetchAstray ==
  /\ Room /\ Misread /\ call.json
  /\ \E row \in ServerRows : TakeRow(row, NoRow, stmt.rset)

\* The page is used up, or looks so, and has a cursor: the next one, or the call
\* fails and leaves what it has copied.
FetchTurn ==
  /\ Room /\ LooksEmpty /\ stmt.rset.more
  /\ \/ \E json \in Packs, hi \in PageEnds(stmt.rset.hi), more \in BOOLEAN :
          /\ hi = stmt.rset.hi => ~more
          /\ stmt' = [stmt EXCEPT !.rset = Page(json, stmt.rset.hi, hi, more)]
          /\ call' = [call EXCEPT !.mixed = @ \/ json # call.json]
          /\ UNCHANGED last
     \/ /\ call' = [call EXCEPT !.on = FALSE]
        /\ last' = "TURN_FAILED"
        /\ UNCHANGED stmt
  /\ UNCHANGED <<ird, ard, mem, diag>>

\* Mutants of the end of the loop.
MarkRestFromFirst(m) ==
  IF ird.status_ptr /\ Pos < ard.array_size
  THEN [m EXCEPT !.status = [p \in AllPositions |->
                               IF p < ard.array_size THEN "NOROW" ELSE @[p]]]
  ELSE m
AnswerAnyError == IF Pos = 0 THEN "NO_DATA" ELSE IF call.errors > 0 THEN "ERROR" ELSE "SUCCESS"

\* The rest of the status array, at the end of the result set.
MarkRest(m) ==
  IF ird.status_ptr /\ Pos < ard.array_size
  THEN [m EXCEPT !.status = [p \in AllPositions |->
                               IF p \in Pos..(ard.array_size - 1) THEN "NOROW"
                               ELSE @[p]]]
  ELSE m

CountRows(m) == IF ird.rows_ptr THEN [m EXCEPT !.rows = Pos] ELSE m

Answer ==
  IF Pos = 0 THEN "NO_DATA"
  ELSE IF call.errors > 0 /\ Pos <= call.errors THEN "ERROR"
  ELSE "SUCCESS"

\* The row set is full, or there are no rows left that the call sees.
FetchEnd ==
  /\ call.on /\ (Pos = ard.array_size \/ (LooksEmpty /\ ~stmt.rset.more))
  /\ call' = [call EXCEPT !.on = FALSE]
  /\ mem' = CountRows(MarkRest(mem))
  /\ last' = Answer
  /\ UNCHANGED <<stmt, ird, ard, diag>>

\* SQLGetData() of one column of the row the cursor is on, into a buffer of its
\* own: it goes by the copying of a row set's first row.  (Of what was read
\* astray nothing more is said.)
GetData ==
  /\ Idle /\ ard.array_size = 1
  /\ call.rows # <<>> /\ call.rows[Len(call.rows)].row.shape = "fit"
  /\ call.rows[Len(call.rows)].n # NoRow
  /\ \E b \in {k \in BindCalls : k[2] # "unbound"} :
       LET cur == call.rows[Len(call.rows)]
           gd_ard == [ard EXCEPT !.cols = [k \in ArdCols |->
                                             IF k = b[1] THEN b[2]
                                             ELSE "unbound"]]
           r == CopyOneRow(Untouched, cur.row, cur.n, gd_ard, 0, TRUE)
       IN  /\ mem' = r.mem
           /\ diag' = r.diag
  /\ last' = "GOT"
  /\ UNCHANGED <<stmt, ird, ard, call>>

Next ==
  \/ Execute \/ Close \/ SetIrdPointer \/ SetArdHeader \/ BindCol
  \/ FetchBegin \/ FetchRow \/ FetchAstray \/ FetchTurn \/ FetchEnd \/ GetData

Spec == Init /\ [][Next]_vars

-----------------------------------------------------------------------------
(* Properties.                                                             *)

Codes == {"NONE", "TURN_FAILED", "NO_DATA", "ERROR", "SUCCESS", "GOT"}
Statuses == {Old, "SUCCESS", "INFO", "ERROR", "NOROW"}

TypeOK ==
  /\ stmt.tv_rows \in Nat
  /\ stmt.rset.body \in BOOLEAN /\ stmt.rset.json \in BOOLEAN
  /\ stmt.rset.more \in BOOLEAN /\ stmt.rset.stuck \subseteq ServerRows
  /\ stmt.rset.lo \in 0..MaxRows /\ stmt.rset.hi \in stmt.rset.lo..MaxRows
  /\ ird \in [status_ptr : BOOLEAN, rows_ptr : BOOLEAN]
  /\ ard \in [array_size : ArraySizes, by_row : BOOLEAN, offset : Offsets,
              cols : [ArdCols -> Binds]]
  /\ diag.row \in Int /\ diag.col \in ArdCols \cup {NoColumnNumber}
  /\ mem.status \in [AllPositions -> Statuses]
  /\ mem.rows \in Nat \cup {-1}
  /\ call.on \in BOOLEAN /\ call.json \in BOOLEAN /\ call.mixed \in BOOLEAN
  /\ Len(call.rows) <= ard.array_size /\ call.errors \in 0..Len(call.rows)
  /\ last \in Codes

Fetched == last \in {"TURN_FAILED", "NO_DATA", "ERROR", "SUCCESS"}
Good(p) == call.rows[p + 1].ret # "ERROR"
Area == IF ard.by_row THEN ard.offset ELSE 0
CellOf(c, p) == mem.cells[c][<<Area, p>>]

\* An entry of the status array that SQLFetch wrote is true of what is in the
\* buffers at its position, and the entries it leaves as they were are those it
\* has nothing to say of: rows whose conversion failed (see RowErrorMarked),
\* rows when nothing is bound, and what a failed page turn left out.
StatusTellsRow ==
  Fetched /\ ird.status_ptr =>
    \A p \in Positions(ard.array_size) :
      CASE mem.status[p] \in {"SUCCESS", "INFO"} ->
             /\ p < Pos /\ Good(p)
             /\ (mem.status[p] = "INFO") =
                  (\E c \in Bound(ard) : call.rows[p + 1].row.vals[c] = "info")
        [] mem.status[p] = "ERROR" -> p < Pos /\ ~Good(p)
        [] mem.status[p] = "NOROW" -> p >= Pos /\ last \in {"SUCCESS", "ERROR", "NO_DATA"}
        [] OTHER -> \/ p >= Pos /\ last = "TURN_FAILED"
                    \/ p < Pos /\ ~Good(p)
                         /\ \E c \in Bound(ard) \cap (1..Cols) :
                              call.rows[p + 1].row.vals[c] = "bad"
                    \/ p < Pos /\ Bound(ard) = {}

\* What SQLFetch returns and counts agrees with the rows: success if at least
\* one came over, no data if there was none; less than was asked for only at the
\* end of the last page, or when the call takes that page for one of the other
\* encapsulation and does not see its rows; the count is of every row, failed ones
\* too.  After an error the diagnostic's column is one that the last row failed in.
AnswerTellsRows ==
  Fetched =>
    /\ last = "SUCCESS" => \E p \in Positions(Pos) : Good(p)
    /\ last = "ERROR" => Pos > 0 /\ \A p \in Positions(Pos) : ~Good(p)
    /\ last = "ERROR" =>
         LET row == call.rows[Pos].row
         IN  IF row.shape = "fit" THEN ColumnFails(row, ard.cols, diag.col)
             ELSE diag.col \in {NoColumnNumber, Cols}
    /\ last = "NO_DATA" <=> (Pos = 0 /\ last # "TURN_FAILED")
    /\ Pos < ard.array_size =>
         LooksEmpty /\ (last = "TURN_FAILED" <=> stmt.rset.more)
    /\ ird.rows_ptr => mem.rows = (IF last = "TURN_FAILED" THEN -1 ELSE Pos)

\* Each row that came over is in the bound buffers at its own position of the
\* row set, from the first column to the last, and nothing of another row is.
CellsHoldRows ==
  Fetched =>
    \A c \in ArdCols, p \in Positions(ard.array_size) :
      LET cell == CellOf(c, p) IN
      IF p < Pos /\ Good(p) /\ call.rows[p + 1].row.shape = "fit" /\ c \in Bound(ard)
      THEN cell = [n |-> call.rows[p + 1].n, val |-> call.rows[p + 1].row.vals[c]]
      ELSE cell # OldCell => p < Pos /\ cell.n = call.rows[p + 1].n

\* The rows of a row set follow each other, across pages and failures: none is left
\* out and none is there twice.  Two things the code does are exempt.  A CBOR row
\* that the iterator cannot leave is there again; and behind a turn to a page of
\* the other encapsulation, which the call goes on reading as one of its own, rows
\* are left out and what is no row may come, but none of the result's comes twice.
RowsFollow ==
  \A p \in 1..(Len(call.rows) - 1) :
    LET a == call.rows[p]
        b == call.rows[p + 1]
    IN  \/ b.n = a.n + 1
        \/ b = a /\ a.row.shape = "long" /\ ~a.json
        \/ b.mixed /\ (b.n = NoRow \/ \A q \in 1..p : call.rows[q].n < b.n)

\* A call writes to its own part of the application's memory: SQLFetch the
\* positions of the row set, each buffer where its offset says, only columns that
\* are bound and pointers that are set; SQLGetData the first status entry.
WritesOwnOnly ==
  [][/\ \A p \in AllPositions : mem'.status[p] \notin {Old, mem.status[p]} =>
            ird.status_ptr /\ p < ard.array_size
     /\ mem'.rows \notin {-1, mem.rows} => ird.rows_ptr
     /\ \A c \in ArdCols : \A a \in Offsets \X AllPositions :
          mem'.cells[c][a] \notin {OldCell, mem.cells[c][a]} =>
            /\ call.on /\ c \in Bound(ard)
            /\ a = <<Area, Pos>>]_vars

\* "it sets the corresponding value in the row status array to SQL_ROW_ERROR,
\* continues fetching rows, and returns SQL_SUCCESS_WITH_INFO" (SQLFetch).
RowErrorMarked ==
  Fetched /\ ird.status_ptr =>
    \A p \in Positions(Pos) : ~Good(p) => mem.status[p] = "ERROR"

=============================================================================
