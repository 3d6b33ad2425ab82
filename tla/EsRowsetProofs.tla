---------------------------- MODULE EsRowsetProofs ----------------------------
(***************************************************************************)
(* What a SQLFetch leaves in the application's memory, for any numbers of  *)
(* columns, rows, pages and row set sizes, any offsets and any rows that   *)
(* a server may send.                                                      *)
(*                                                                         *)
(* The argument: copying a row touches what belongs to its position only   *)
(* and leaves there what tells the row (RowMade); rows once copied are     *)
(* thus told by what is at their positions for as long as the call runs,   *)
(* and what is behind them is as the application had it.                   *)
(***************************************************************************)
EXTENDS EsRowset, TLAPS, WellFoundedInduction, SequenceTheorems

Before == {pair \in Nat \X Nat : pair[1] < pair[2]}

LEMMA BeforeWellFounded == IsWellFoundedOn(Before, Nat)
BY NatLessThanWellFounded DEF OpToRel, Before

LEMMA LeastIn ==
  ASSUME NEW S \in SUBSET Nat, S # {}
  PROVE  Least(S) \in S /\ \A y \in S : Least(S) <= y
<1>2. S \subseteq Nat
  OBVIOUS
<1>3. PICK x \in S : \A y \in S : <<y, x>> \notin Before
  BY BeforeWellFounded, <1>2, WFMin
<1>4. ASSUME NEW y \in S PROVE x <= y
  <2>1. <<y, x>> \notin Before
    BY <1>3
  <2>2. <<y, x>> \in Nat \X Nat /\ <<y, x>>[1] = y /\ <<y, x>>[2] = x
    OBVIOUS
  <2>3. ~(y < x)
    BY <2>1, <2>2 DEF Before
  <2> QED BY <2>3
<1>5. \E m \in S : \A y \in S : m <= y
  BY <1>4
<1> QED BY <1>5 DEF Least

LEMMA GreatestIn ==
  ASSUME NEW n \in Nat, NEW S \in SUBSET (0..n), S # {}
  PROVE  Greatest(S) \in S /\ \A y \in S : y <= Greatest(S)
<1> DEFINE T == {n - y : y \in S}
<1>1. T \in SUBSET Nat /\ T # {}
  <2>1. \A y \in S : n - y \in Nat
    OBVIOUS
  <2> QED BY <2>1
<1>2. Least(T) \in T /\ \A y \in T : Least(T) <= y
  BY <1>1, LeastIn
<1>3. PICK x \in S : Least(T) = n - x
  BY <1>2
<1>4. \A y \in S : y <= x
  BY <1>2, <1>3
<1>5. \E m \in S : \A y \in S : y <= m
  BY <1>4
<1> QED BY <1>5 DEF Greatest

-----------------------------------------------------------------------------
(* Types.                                                                  *)

Rets == {"SUCCESS", "INFO", "ERROR"}
PageType == [body : BOOLEAN, json : BOOLEAN, lo : Nat, hi : Nat, more : BOOLEAN,
             stuck : SUBSET ServerRows]
StmtType == [rset : PageType, tv_rows : Nat]
IrdType == [status_ptr : BOOLEAN, rows_ptr : BOOLEAN]
ArdType == [array_size : ArraySizes, by_row : BOOLEAN, offset : Offsets,
            cols : [ArdCols -> Binds]]
DiagType == [row : Int, col : ArdCols \cup {NoColumnNumber}]
Cells == [n : Nat, val : Outcomes \cup {Old}]
MemType == [status : [AllPositions -> Statuses], rows : Nat \cup {-1},
            cells : [ArdCols -> [Offsets \X AllPositions -> Cells]]]
Entry == [n : Nat, row : ServerRows, ret : Rets, json : BOOLEAN, mixed : BOOLEAN]
CallType == [on : BOOLEAN, json : BOOLEAN, mixed : BOOLEAN, rows : Seq(Entry),
             errors : Nat]

Typed ==
  /\ stmt \in StmtType /\ ird \in IrdType /\ ard \in ArdType /\ diag \in DiagType
  /\ mem \in MemType /\ call \in CallType /\ last \in Codes
  /\ stmt.rset.lo <= stmt.rset.hi /\ stmt.rset.hi <= MaxRows
  /\ Pos <= ard.array_size /\ call.errors <= Pos

LEMMA TypedImplies == Typed => TypeOK
<1> SUFFICES ASSUME Typed PROVE TypeOK
  OBVIOUS
<1>1. MaxRows \in Nat
  BY RowsetAssumption
<1>2. stmt.rset \in PageType /\ stmt.tv_rows \in Nat
  BY DEF Typed, StmtType
<1>3. stmt.rset.lo \in 0..MaxRows /\ stmt.rset.hi \in stmt.rset.lo..MaxRows
  BY <1>1, <1>2 DEF Typed, PageType
<1>4. call.rows \in Seq(Entry) /\ call.errors \in 0..Pos
  BY DEF Typed, CallType, Pos
<1> QED BY <1>2, <1>3, <1>4
        DEF Typed, TypeOK, PageType, IrdType, ArdType, DiagType, MemType, CallType, Pos

LEMMA PositionsAre ==
  /\ \A size \in ArraySizes : Positions(size) \subseteq AllPositions
  /\ AllPositions \subseteq Nat
BY RowsetAssumption DEF AllPositions, Positions

LEMMA UntouchedTyped ==
  /\ Untouched \in MemType /\ Untouched.rows = -1
  /\ \A p \in AllPositions : Untouched.status[p] = Old
  /\ \A c \in ArdCols, a \in Offsets \X AllPositions : Untouched.cells[c][a] = OldCell
BY DEF Untouched, MemType, Cells, OldCell, Statuses, Outcomes

-----------------------------------------------------------------------------
(* What is known of a fetch.                                               *)

\* A row, its answer, and what its status entry says of it.
Tells(bound, row, ret, status) ==
  CASE status \in {"SUCCESS", "INFO"} ->
         /\ ret # "ERROR"
         /\ (status = "INFO") = (\E c \in bound : row.vals[c] = "info")
    [] status = "ERROR" -> ret = "ERROR"
    [] status = "NOROW" -> FALSE
    [] OTHER -> \/ /\ ret = "ERROR"
                   /\ \E c \in bound \cap (1..Cols) : row.vals[c] = "bad"
                \/ bound = {}

\* A row's cell of a column.
Holds(bound, n, row, ret, c, cell) ==
  IF ret # "ERROR" /\ row.shape = "fit" /\ c \in bound
  THEN cell = [n |-> n, val |-> row.vals[c]]
  ELSE cell # OldCell => cell.n = n

\* What the diagnostic has to do with a row that failed.
DiagOf(bind, row, d) ==
  IF row.shape = "fit" THEN ColumnFails(row, bind, d.col)
  ELSE d.col \in {NoColumnNumber, Cols}

\* The row at a position is told by what is there.
Told(p) ==
  LET e == call.rows[p + 1] IN
  /\ ird.status_ptr => Tells(Bound(ard), e.row, e.ret, mem.status[p])
  /\ \A c \in ArdCols : Holds(Bound(ard), e.n, e.row, e.ret, c, CellOf(c, p))

Live == call.on \/ Fetched

Memory ==
  Live => \A p \in AllPositions :
    IF p < Pos THEN Told(p) ELSE \A c \in ArdCols : CellOf(c, p) = OldCell

\* The entries behind the rows.
RestTold ==
  /\ call.on => \A p \in AllPositions : p >= Pos => mem.status[p] = Old
  /\ ird.status_ptr /\ Fetched => \A p \in Positions(ard.array_size) : p >= Pos =>
       mem.status[p] = IF last = "TURN_FAILED" THEN Old ELSE "NOROW"

Answers ==
  /\ call.on => last = "NONE" /\ mem.rows = -1
  /\ Live => ((\E p \in Positions(Pos) : Good(p)) <=> call.errors < Pos)
  /\ Live /\ Pos > 0 => (~Good(Pos - 1) => DiagOf(ard.cols, call.rows[Pos].row, diag))
  /\ Fetched /\ last # "TURN_FAILED" => last = Answer
  /\ Fetched /\ Pos < ard.array_size =>
       LooksEmpty /\ (last = "TURN_FAILED" <=> stmt.rset.more)
  /\ last = "TURN_FAILED" => Pos < ard.array_size
  /\ Fetched /\ ird.rows_ptr => mem.rows = (IF last = "TURN_FAILED" THEN -1 ELSE Pos)

\* The numbers of the rows read, up to one.
UpTo(rows, n) == \A p \in 1..Len(rows) : rows[p].n <= n

\* The last row read is the one in front of the iterator, or the one that it is
\* stuck on.
LastRead ==
  LET e == call.rows[Pos] IN
  IF stmt.rset.stuck = {} THEN call.mixed \/ e.n = stmt.rset.lo
  ELSE /\ e.n = stmt.rset.lo + 1 /\ e.row \in stmt.rset.stuck
       /\ e.ret = "ERROR" /\ ~e.json /\ e.mixed = call.mixed

\* The iterator, and how the call reads.
Iterator ==
  /\ stmt.rset.stuck # {} =>
       stmt.rset.lo < stmt.rset.hi /\ ~stmt.rset.json
  /\ \A row \in stmt.rset.stuck : row.shape = "long" /\ stmt.rset.stuck = {row}
  /\ call.on => /\ Misread => call.mixed
                /\ stmt.rset.stuck # {} => ~call.json
                /\ UpTo(call.rows,
                        IF stmt.rset.stuck = {} THEN stmt.rset.lo ELSE stmt.rset.lo + 1)
                /\ Pos > 0 => LastRead

RowsetInv == Typed /\ Memory /\ RestTold /\ Answers /\ Iterator /\ RowsFollow

-----------------------------------------------------------------------------
(* Copying a row.                                                          *)

\* What the copying of a row at a position leaves.
RowMade(r, row, n, pos) ==
  /\ r.mem \in MemType /\ r.diag \in DiagType /\ r.ret \in Rets
  /\ r.mem.rows = mem.rows
  /\ \A p \in AllPositions \ {pos} : r.mem.status[p] = mem.status[p]
  /\ ird.status_ptr => Tells(Bound(ard), row, r.ret, r.mem.status[pos])
  /\ ~ird.status_ptr => r.mem.status[pos] = mem.status[pos]
  /\ \A c \in ArdCols, a \in Offsets \X AllPositions :
       a # <<Area, pos>> \/ c \notin Bound(ard) => r.mem.cells[c][a] = mem.cells[c][a]
  /\ \A c \in ArdCols : Holds(Bound(ard), n, row, r.ret, c, r.mem.cells[c][<<Area, pos>>])
  /\ r.ret = "ERROR" => DiagOf(ard.cols, row, r.diag)
  /\ row.shape # "fit" => r.ret = "ERROR"

\* A status entry is written if there is an array.
LEMMA StatusSet ==
  ASSUME NEW m \in MemType, NEW pos \in AllPositions, NEW value \in Statuses,
         ird \in IrdType
  PROVE  /\ SetStatus(m, pos, value) \in MemType
         /\ SetStatus(m, pos, value).rows = m.rows
         /\ SetStatus(m, pos, value).cells = m.cells
         /\ \A p \in AllPositions \ {pos} : SetStatus(m, pos, value).status[p] = m.status[p]
         /\ SetStatus(m, pos, value).status[pos]
              = IF ird.status_ptr THEN value ELSE m.status[pos]
<1>1. CASE ird.status_ptr
  BY <1>1 DEF SetStatus, MemType
<1>2. CASE ~ird.status_ptr
  BY <1>2 DEF SetStatus
<1> QED BY <1>1, <1>2 DEF IrdType

\* The cells at a position before a row is copied to it.
LEMMA CopyMade ==
  ASSUME Typed, NEW row \in ServerRows, row.shape = "fit", NEW n \in Nat,
         NEW pos \in AllPositions, Bound(ard) # {},
         \A c \in ArdCols : CellOf(c, pos) = OldCell, mem.status[pos] = Old
  PROVE  RowMade(CopyOneRow(mem, row, n, ard, pos, FALSE), row, n, pos)
<1> DEFINE bound == Bound(ard)
           failing == {c \in bound : ColumnFails(row, ard.cols, c)}
           copied == Copied(row, bound, failing)
           infos == {c \in copied : row.vals[c] = "info"}
           value(c) == [n |-> n, val |-> row.vals[c]]
           m1 == [mem EXCEPT !.cells =
                    [c \in ArdCols |->
                       IF c \in copied
                       THEN [@[c] EXCEPT ![DeferredAddress(ard, pos)] = value(c)]
                       ELSE @[c]]]
           at(c) == [row |-> RowNo(stmt.tv_rows, FALSE), col |-> c]
           r == CopyOneRow(mem, row, n, ard, pos, FALSE)
<1>1. /\ row \in Row /\ Cols \in Nat /\ mem \in MemType /\ ird \in IrdType
      /\ ard \in ArdType /\ diag \in DiagType /\ stmt \in StmtType
      /\ stmt.tv_rows \in Nat
  BY RowsetAssumption DEF Typed, StmtType
<1>2. bound \subseteq ArdCols /\ bound \subseteq 0..(Cols + 1) /\ bound \subseteq Nat
  BY <1>1 DEF Bound, ArdCols
<1>3. \A c \in copied : c \in 1..Cols /\ c \in bound /\ row.vals[c] \in Outcomes
  <2> SUFFICES ASSUME NEW c \in copied
               PROVE  c \in 1..Cols /\ c \in bound /\ row.vals[c] \in Outcomes
    OBVIOUS
  <2>1. c \in bound /\ c \in Nat /\ \A f \in failing : c < f
    BY <1>2 DEF Copied
  <2>2. c \notin failing
    BY <2>1
  <2>3. c \in 1..(Cols + 1) /\ ~(c > Cols)
    BY <1>2, <2>1, <2>2 DEF ColumnFails, ArdCols
  <2> QED BY <1>1, <2>1, <2>3 DEF Row
<1>4. failing = {} => copied = bound
  BY DEF Copied
<1>5. DeferredAddress(ard, pos) = <<Area, pos>> /\ <<Area, pos>> \in Offsets \X AllPositions
  BY <1>1, RowsetAssumption DEF DeferredAddress, Area, ArdType
<1> HIDE DEF bound, failing, copied
<1>6. /\ m1 \in MemType /\ m1.rows = mem.rows /\ m1.status = mem.status
      /\ \A c \in ArdCols : m1.cells[c] =
           IF c \in copied THEN [mem.cells[c] EXCEPT ![<<Area, pos>>] = value(c)]
                           ELSE mem.cells[c]
  <2>1. \A c \in copied : value(c) \in Cells
    BY <1>3 DEF Cells
  <2>2. \A c \in ArdCols : mem.cells[c] \in [Offsets \X AllPositions -> Cells]
    BY <1>1 DEF MemType
  <2> HIDE DEF value
  <2>3. \A c \in ArdCols :
          (IF c \in copied THEN [mem.cells[c] EXCEPT ![<<Area, pos>>] = value(c)]
                           ELSE mem.cells[c]) \in [Offsets \X AllPositions -> Cells]
    BY <1>5, <2>1, <2>2
  <2>4. m1 = [mem EXCEPT !.cells = [c \in ArdCols |->
               IF c \in copied THEN [mem.cells[c] EXCEPT ![<<Area, pos>>] = value(c)]
                               ELSE mem.cells[c]]]
    BY <1>1, <1>5 DEF MemType
  <2> HIDE DEF m1
  <2> QED BY <1>1, <2>3, <2>4 DEF MemType
<1>7. \A c \in ArdCols, a \in Offsets \X AllPositions :
        a # <<Area, pos>> \/ c \notin bound => m1.cells[c][a] = mem.cells[c][a]
  BY <1>1, <1>3, <1>5, <1>6 DEF MemType
<1>8. \A c \in ArdCols : m1.cells[c][<<Area, pos>>] =
        IF c \in copied THEN [n |-> n, val |-> row.vals[c]] ELSE OldCell
  <2> SUFFICES ASSUME NEW c \in ArdCols
               PROVE  m1.cells[c][<<Area, pos>>] =
                        IF c \in copied THEN [n |-> n, val |-> row.vals[c]] ELSE OldCell
    OBVIOUS
  <2>1. mem.cells[c] \in [Offsets \X AllPositions -> Cells] /\ mem.cells[c][<<Area, pos>>] = OldCell
    BY <1>1 DEF MemType, CellOf
  <2> HIDE DEF m1
  <2> QED BY <1>5, <1>6, <2>1
<1>9. r = IF failing # {} /\ FailsInConversion(row, Least(failing))
          THEN [mem |-> m1, diag |-> at(Least(failing)), ret |-> "ERROR"]
          ELSE IF failing # {} THEN SetRowDiag(m1, pos, Least(failing))
          ELSE IF infos # {}
          THEN [mem |-> SetStatus(m1, pos, "INFO"), diag |-> at(Greatest(infos)),
                ret |-> "INFO"]
          ELSE [mem |-> SetStatus(m1, pos, "SUCCESS"), diag |-> diag, ret |-> "SUCCESS"]
  BY DEF CopyOneRow, bound, failing, copied
<1>10. \A c : c \in ArdCols => at(c) \in DiagType
  BY <1>1 DEF DiagType, RowNo
<1>11. failing # {} => /\ Least(failing) \in bound /\ Least(failing) \in ArdCols
                      /\ ColumnFails(row, ard.cols, Least(failing))
  BY <1>2, LeastIn DEF failing
<1>12. infos # {} => Greatest(infos) \in ArdCols
  <2> SUFFICES ASSUME infos # {} PROVE Greatest(infos) \in ArdCols
    OBVIOUS
  <2>1. infos \in SUBSET (0..(Cols + 1)) /\ infos \subseteq ArdCols
    BY <1>2, <1>3
  <2>2. Cols + 1 \in Nat
    BY <1>1
  <2>3. Greatest(infos) \in infos
    BY <2>1, <2>2, GreatestIn
  <2> QED BY <2>1, <2>3
<1> HIDE DEF m1, infos, at, value, r
<1>13. mem.status[pos] = Old /\ m1.status[pos] = Old
  BY <1>6
<1>17. \A c \in ArdCols : Holds(Bound(ard), n, row, "ERROR", c, m1.cells[c][<<Area, pos>>])
  <2> SUFFICES ASSUME NEW c \in ArdCols
               PROVE  Holds(Bound(ard), n, row, "ERROR", c, m1.cells[c][<<Area, pos>>])
    OBVIOUS
  <2> DEFINE cell == m1.cells[c][<<Area, pos>>]
  <2>1. CASE c \in copied
    <3>1. cell = [n |-> n, val |-> row.vals[c]]
      BY <1>8, <2>1
    <3>2. cell.n = n
      BY <3>1
    <3> QED BY <3>2 DEF Holds
  <2>2. CASE c \notin copied
    BY <1>8, <2>2 DEF Holds
  <2> QED BY <2>1, <2>2
<1>18. ASSUME failing = {}, NEW ret, ret # "ERROR"
       PROVE  \A c \in ArdCols : Holds(Bound(ard), n, row, ret, c, m1.cells[c][<<Area, pos>>])
  <2> SUFFICES ASSUME NEW c \in ArdCols
               PROVE  Holds(Bound(ard), n, row, ret, c, m1.cells[c][<<Area, pos>>])
    OBVIOUS
  <2>1. CASE c \in copied
    <3>1. m1.cells[c][<<Area, pos>>] = [n |-> n, val |-> row.vals[c]]
      BY <1>8, <2>1
    <3> QED BY <1>3, <1>18, <2>1, <3>1 DEF Holds, bound
  <2>2. CASE c \notin copied
    <3>1. c \notin Bound(ard)
      BY <1>4, <1>18, <2>2 DEF bound
    <3> QED BY <1>8, <2>2, <3>1 DEF Holds
  <2> QED BY <2>1, <2>2
<1>14. CASE failing # {} /\ FailsInConversion(row, Least(failing))
  <2>1. r = [mem |-> m1, diag |-> at(Least(failing)), ret |-> "ERROR"]
    BY <1>9, <1>14
  <2>2. Least(failing) \in Bound(ard) \cap (1..Cols) /\ row.vals[Least(failing)] = "bad"
    BY <1>1, <1>2, <1>11, <1>14 DEF FailsInConversion, bound, ArdCols
  <2>3. Tells(Bound(ard), row, "ERROR", Old)
    BY <2>2 DEF Tells, Old
  <2>4. at(Least(failing)).col = Least(failing)
    BY DEF at
  <2>5. DiagOf(ard.cols, row, r.diag)
    BY <1>11, <1>14, <2>1, <2>4 DEF DiagOf
  <2>6. \A c \in ArdCols : Holds(Bound(ard), n, row, r.ret, c, r.mem.cells[c][<<Area, pos>>])
    BY <1>17, <2>1
  <2>7. r.mem = m1 /\ r.ret = "ERROR" /\ r.diag \in DiagType
    BY <1>10, <1>11, <1>14, <2>1
  <2>8. /\ \A p \in AllPositions \ {pos} : r.mem.status[p] = mem.status[p]
        /\ r.mem.status[pos] = Old
    BY <1>6, <1>13, <2>7
  <2>9. ird.status_ptr => Tells(Bound(ard), row, r.ret, r.mem.status[pos])
    BY <2>3, <2>7, <2>8
  <2>10. r.mem.rows = mem.rows /\ r.mem \in MemType
    BY <1>6, <2>7
  <2>11. \A c \in ArdCols, a \in Offsets \X AllPositions :
          a # <<Area, pos>> \/ c \notin Bound(ard) => r.mem.cells[c][a] = mem.cells[c][a]
    BY <1>7, <2>7 DEF bound
  <2>12. r.mem.status[pos] = mem.status[pos] /\ r.ret \in Rets
    BY <1>13, <2>7, <2>8 DEF Rets
  <2> QED BY <2>5, <2>6, <2>7, <2>8, <2>9, <2>10, <2>11, <2>12 DEF RowMade, r
<1>15. CASE failing # {} /\ ~FailsInConversion(row, Least(failing))
  <2>1. r = [mem |-> SetStatus(m1, pos, "ERROR"),
             diag |-> [row |-> stmt.tv_rows + 1, col |-> Least(failing)],
             ret |-> "ERROR"]
    BY <1>9, <1>15 DEF SetRowDiag
  <2>2. r.diag \in DiagType
    BY <1>1, <1>11, <1>15, <2>1 DEF DiagType
  <2>3. Tells(Bound(ard), row, "ERROR", "ERROR")
    BY DEF Tells
  <2>4. DiagOf(ard.cols, row, r.diag)
    BY <1>11, <1>15, <2>1 DEF DiagOf
  <2>5. "ERROR" \in Statuses
    BY DEF Statuses
  <2>7. /\ r.mem \in MemType /\ r.ret = "ERROR" /\ r.mem.rows = m1.rows
        /\ r.mem.cells = m1.cells
        /\ \A p \in AllPositions \ {pos} : r.mem.status[p] = m1.status[p]
        /\ r.mem.status[pos] = IF ird.status_ptr THEN "ERROR" ELSE m1.status[pos]
    <3>1. r.mem = SetStatus(m1, pos, "ERROR") /\ r.ret = "ERROR"
      BY <2>1
    <3> QED BY <1>1, <1>6, <2>5, <3>1, StatusSet
  <2>6. \A c \in ArdCols : Holds(Bound(ard), n, row, r.ret, c, r.mem.cells[c][<<Area, pos>>])
    BY <1>17, <2>7
  <2>9. ird.status_ptr => Tells(Bound(ard), row, r.ret, r.mem.status[pos])
    BY <2>3, <2>7
  <2>10. r.mem.rows = mem.rows /\ \A p \in AllPositions \ {pos} : r.mem.status[p] = mem.status[p]
    BY <1>6, <2>7
  <2>11. \A c \in ArdCols, a \in Offsets \X AllPositions :
          a # <<Area, pos>> \/ c \notin Bound(ard) => r.mem.cells[c][a] = mem.cells[c][a]
    BY <1>7, <2>7 DEF bound
  <2>12. (~ird.status_ptr => r.mem.status[pos] = mem.status[pos]) /\ r.ret \in Rets
    BY <1>13, <2>7 DEF Rets
  <2> QED BY <2>2, <2>4, <2>6, <2>7, <2>9, <2>10, <2>11, <2>12 DEF RowMade, r
<1>16. CASE failing = {}
  <2> DEFINE ret == IF infos # {} THEN "INFO" ELSE "SUCCESS"
  <2>1. /\ r.mem = SetStatus(m1, pos, ret) /\ r.ret = ret /\ r.diag \in DiagType
    BY <1>1, <1>9, <1>10, <1>12, <1>16
  <2>2. Tells(Bound(ard), row, ret, ret)
    BY <1>4, <1>16 DEF Tells, infos, bound
  <2>3. \A c \in ArdCols : c \in Bound(ard) => c \in copied
    BY <1>4, <1>16 DEF bound
  <2>4. ret \in Statuses /\ ret \in Rets /\ ret # "ERROR"
    BY DEF Statuses, Rets
  <2> HIDE DEF ret
  <2>6. /\ r.mem \in MemType /\ r.mem.rows = m1.rows /\ r.mem.cells = m1.cells
        /\ \A p \in AllPositions \ {pos} : r.mem.status[p] = m1.status[p]
        /\ r.mem.status[pos] = IF ird.status_ptr THEN ret ELSE m1.status[pos]
    BY <1>1, <1>6, <2>1, <2>4, StatusSet
  <2>5. \A c \in ArdCols : Holds(Bound(ard), n, row, r.ret, c, r.mem.cells[c][<<Area, pos>>])
    BY <1>16, <1>18, <2>1, <2>4, <2>6
  <2>7. r.mem.rows = mem.rows /\ \A p \in AllPositions \ {pos} : r.mem.status[p] = mem.status[p]
    BY <1>6, <2>6
  <2>8. r.ret = ret /\ r.diag \in DiagType
    BY <2>1
  <2>9. \A c \in ArdCols, a \in Offsets \X AllPositions :
          a # <<Area, pos>> \/ c \notin Bound(ard) => r.mem.cells[c][a] = mem.cells[c][a]
    BY <1>7, <2>6 DEF bound
  <2>10. /\ ird.status_ptr => Tells(Bound(ard), row, r.ret, r.mem.status[pos])
         /\ ~ird.status_ptr => r.mem.status[pos] = mem.status[pos]
    BY <1>13, <2>2, <2>6, <2>8
  <2> QED BY <2>4, <2>5, <2>6, <2>7, <2>8, <2>9, <2>10 DEF RowMade, r
<1> QED BY <1>14, <1>15, <1>16 DEF r

LEMMA UnpackMade ==
  ASSUME Typed, NEW row \in ServerRows, NEW n \in Nat, NEW pos \in AllPositions,
         \A c \in ArdCols : CellOf(c, pos) = OldCell, mem.status[pos] = Old
  PROVE  RowMade(UnpackOneRow(row, n, pos), row, n, pos)
<1>1. /\ Cols \in Nat \ {0} /\ mem \in MemType /\ ird \in IrdType
      /\ ard \in ArdType /\ diag \in DiagType /\ stmt.tv_rows \in Nat
  BY RowsetAssumption DEF Typed, StmtType
<1> DEFINE r == UnpackOneRow(row, n, pos)
<1>2. CASE row.shape # "fit"
  <2> DEFINE col == IF row.shape = "short" /\ call.json
                    THEN Cols ELSE NoColumnNumber
  <2>1. r = [mem |-> SetStatus(mem, pos, "ERROR"),
             diag |-> [row |-> stmt.tv_rows + 1, col |-> col], ret |-> "ERROR"]
    BY <1>2 DEF UnpackOneRow, SetRowDiag
  <2>2. col \in {NoColumnNumber, Cols} /\ Cols \in ArdCols
    BY <1>1 DEF ArdCols
  <2>3. r.diag \in DiagType /\ DiagOf(ard.cols, row, r.diag)
    BY <1>1, <1>2, <2>1, <2>2 DEF DiagType, DiagOf
  <2>4. Tells(Bound(ard), row, "ERROR", "ERROR") /\ "ERROR" \in Statuses
    BY DEF Tells, Statuses
  <2> HIDE DEF col, r
  <2>5. \A c \in ArdCols : Holds(Bound(ard), n, row, r.ret, c, r.mem.cells[c][<<Area, pos>>])
    BY <1>1, <2>1, <2>4, StatusSet DEF Holds, CellOf
  <2>6. RowMade(r, row, n, pos)
    BY <1>1, <1>2, <2>1, <2>3, <2>4, <2>5, StatusSet DEF RowMade, Rets
  <2> QED BY <2>6 DEF r
<1>3. CASE row.shape = "fit" /\ Bound(ard) = {}
  <2>1. r = [mem |-> mem, diag |-> diag, ret |-> "SUCCESS"]
    BY <1>3 DEF UnpackOneRow
  <2>2. Tells(Bound(ard), row, "SUCCESS", Old)
    BY <1>3 DEF Tells, Old
  <2>3. \A c \in ArdCols : Holds(Bound(ard), n, row, "SUCCESS", c, CellOf(c, pos))
    BY <1>3 DEF Holds
  <2> QED BY <1>1, <1>3, <2>1, <2>2, <2>3 DEF RowMade, Rets, CellOf
<1>4. CASE row.shape = "fit" /\ Bound(ard) # {}
  <2>1. r = CopyOneRow(mem, row, n, ard, pos, FALSE)
    BY <1>4 DEF UnpackOneRow
  <2> HIDE DEF r
  <2>2. RowMade(r, row, n, pos)
    BY <1>4, <2>1, CopyMade
  <2> QED BY <2>2 DEF r
<1> QED BY <1>2, <1>3, <1>4

-----------------------------------------------------------------------------
(* The steps.                                                              *)

LEMMA Started == Init => RowsetInv
<1> SUFFICES ASSUME Init PROVE RowsetInv
  OBVIOUS
<1>1. Typed
  <2>1. NoPage \in PageType /\ stmt \in StmtType
    BY DEF Init, NoPage, PageType, StmtType
  <2>2. ard \in ArdType /\ ird \in IrdType
    BY RowsetAssumption DEF Init, ArdType, IrdType, Binds
  <2>3. diag \in DiagType /\ mem \in MemType
    BY UntouchedTyped DEF Init, DiagType, NoDiag, NoColumnNumber
  <2>4. call \in CallType /\ Pos = 0 /\ call.errors = 0
    BY DEF Init, NoCall, CallType, Pos
  <2> QED BY RowsetAssumption, <2>1, <2>2, <2>3, <2>4
          DEF Typed, Init, NoPage, Codes, ArdType
<1>2. ~Live /\ ~call.on /\ ~Fetched /\ Len(call.rows) = 0 /\ stmt.rset.stuck = {}
      /\ last = "NONE"
  BY DEF Init, Live, Fetched, NoCall, NoPage
<1> QED BY <1>1, <1>2 DEF RowsetInv, Memory, RestTold, Answers, Iterator, RowsFollow

\* Calls that forget the last SQLFetch.
LEMMA Forgotten ==
  ASSUME RowsetInv, Anew, stmt' \in StmtType, ird' \in IrdType, ard' \in ArdType,
         stmt'.rset.lo <= stmt'.rset.hi, stmt'.rset.hi <= MaxRows,
         stmt'.rset = stmt.rset \/ stmt'.rset.stuck = {}
  PROVE  RowsetInv'
<1>1. /\ call'.on = FALSE /\ call'.rows = <<>> /\ call'.errors = 0 /\ last' = "NONE"
      /\ Len(call'.rows) = 0
  BY DEF Anew, NoCall
<1>2. Typed'
  <2>1. diag' \in DiagType /\ mem' \in MemType
    BY UntouchedTyped DEF Anew, DiagType, NoDiag, NoColumnNumber
  <2>2. call' \in CallType
    BY DEF Anew, NoCall, CallType
  <2>3. ard'.array_size \in Nat
    BY RowsetAssumption DEF ArdType
  <2> QED BY <1>1, <2>1, <2>2, <2>3 DEF Typed, Codes, Pos
<1>3. ~Live' /\ ~Fetched'
  BY <1>1 DEF Live, Fetched
<1>4. Iterator'
  BY <1>1 DEF RowsetInv, Iterator
<1> QED BY <1>1, <1>2, <1>3, <1>4 DEF RowsetInv, Memory, RestTold, Answers, RowsFollow

LEMMA EndsTyped ==
  ASSUME NEW lo \in Nat, NEW hi \in PageEnds(lo)
  PROVE  hi \in Nat /\ lo <= hi /\ hi <= MaxRows
BY RowsetAssumption DEF PageEnds

LEMMA ExecuteKeeps == RowsetInv /\ Execute => RowsetInv'
<1> SUFFICES ASSUME RowsetInv, Execute PROVE RowsetInv'
  OBVIOUS
<1>1. PICK json \in Packs, hi \in PageEnds(0), more \in BOOLEAN :
        stmt' = [rset |-> Page(json, 0, hi, more), tv_rows |-> 0]
  BY DEF Execute
<1>2. hi \in Nat /\ 0 <= hi /\ hi <= MaxRows
  BY EndsTyped
<1>3. /\ stmt' \in StmtType /\ stmt'.rset.lo = 0 /\ stmt'.rset.hi = hi
      /\ stmt'.rset.stuck = {}
  BY RowsetAssumption, <1>1, <1>2 DEF StmtType, PageType, Page
<1> QED BY <1>2, <1>3, Forgotten DEF Execute, RowsetInv, Typed

LEMMA CloseKeeps == RowsetInv /\ Close => RowsetInv'
<1> SUFFICES ASSUME RowsetInv, Close PROVE RowsetInv'
  OBVIOUS
<1>1. /\ stmt' \in StmtType /\ stmt'.rset.lo = 0 /\ stmt'.rset.hi = 0
      /\ stmt'.rset.stuck = {}
  BY DEF Close, StmtType, PageType, NoPage
<1>2. ird' \in IrdType /\ 0 <= MaxRows
  BY RowsetAssumption DEF Close, IrdType
<1> QED BY <1>1, <1>2, Forgotten DEF Close, RowsetInv, Typed

LEMMA SettingKeeps ==
  RowsetInv /\ (SetIrdPointer \/ SetArdHeader \/ BindCol) => RowsetInv'
<1> SUFFICES ASSUME RowsetInv, SetIrdPointer \/ SetArdHeader \/ BindCol
             PROVE  RowsetInv'
  OBVIOUS
<1>1. CASE SetIrdPointer
  <2>1. ird' \in IrdType
    BY <1>1 DEF SetIrdPointer, IrdType, RowsetInv, Typed
  <2> QED BY <1>1, <2>1, Forgotten DEF SetIrdPointer, RowsetInv, Typed
<1>2. CASE SetArdHeader
  <2>1. ard' \in ArdType
    BY <1>2 DEF SetArdHeader, ArdType, RowsetInv, Typed
  <2> QED BY <1>2, <2>1, Forgotten DEF SetArdHeader, RowsetInv, Typed
<1>3. CASE BindCol
  <2>1. PICK b \in BindCalls : ard' = [ard EXCEPT !.cols[b[1]] = b[2]]
    BY <1>3 DEF BindCol
  <2>2. b[2] \in Binds
    BY RowsetAssumption
  <2>3. ard' \in ArdType
    BY <2>1, <2>2 DEF ArdType, RowsetInv, Typed
  <2> QED BY <1>3, <2>3, Forgotten DEF BindCol, RowsetInv, Typed
<1> QED BY <1>1, <1>2, <1>3

LEMMA BeginKeeps == RowsetInv /\ FetchBegin => RowsetInv'
<1> SUFFICES ASSUME RowsetInv, FetchBegin PROVE RowsetInv'
  OBVIOUS
<1>1. /\ call'.on = TRUE /\ call'.rows = <<>> /\ call'.errors = 0 /\ last' = "NONE"
      /\ Len(call'.rows) = 0 /\ mem' = Untouched /\ UNCHANGED <<stmt, ird, ard>>
      /\ call'.json = stmt.rset.json
  BY DEF FetchBegin, NoCall
<1>2. Typed'
  <2>1. diag' \in DiagType /\ mem' \in MemType
    BY UntouchedTyped DEF FetchBegin, DiagType, NoDiag, NoColumnNumber
  <2>2. call' \in CallType
    <3>1. call' = [on |-> TRUE, json |-> stmt.rset.json, mixed |-> FALSE,
                   rows |-> <<>>, errors |-> 0]
      BY DEF FetchBegin, NoCall
    <3>2. <<>> \in Seq(Entry) /\ stmt.rset.json \in BOOLEAN
      BY DEF RowsetInv, Typed, StmtType, PageType
    <3> QED BY <3>1, <3>2 DEF CallType
  <2>3. ard'.array_size \in Nat
    BY <1>1, RowsetAssumption DEF ArdType, RowsetInv, Typed
  <2> QED BY <1>1, <2>1, <2>2, <2>3 DEF RowsetInv, Typed, Codes, Pos
<1>3. ~Fetched' /\ Pos' = 0 /\ mem'.rows = -1
  BY <1>1, UntouchedTyped DEF Fetched, Pos
<1>4. AllPositions \subseteq Nat
  BY PositionsAre
<1>5. Area' = Area /\ Area \in Offsets
  BY <1>1, RowsetAssumption DEF Area, RowsetInv, Typed, ArdType
<1>6. \A c \in ArdCols, p \in AllPositions : CellOf(c, p)' = OldCell
  BY <1>1, <1>5, UntouchedTyped DEF CellOf
<1>7. Memory' /\ RestTold'
  <2>1. \A p \in AllPositions : ~(p < 0) /\ p >= 0
    BY <1>4
  <2>2. \A p \in AllPositions : mem'.status[p] = Old
    BY <1>1, UntouchedTyped
  <2>3. Memory'
    BY <1>3, <1>6, <2>1 DEF Memory
  <2> QED BY <1>3, <2>2, <2>3 DEF RestTold
<1>8. Answers'
  <2>1. Positions(0) = {}
    BY DEF Positions
  <2> QED BY <1>1, <1>3, <2>1 DEF Answers
<1>9. Iterator'
  <2>1. ~Misread' /\ (stmt'.rset.stuck # {} => ~call'.json)
    BY <1>1 DEF Misread, RowsetInv, Iterator
  <2>2. 1..Len(call'.rows) = {}
    BY <1>1
  <2>3. \A m : UpTo(call'.rows, m)
    BY <2>2 DEF UpTo
  <2>4. ~(Pos' > 0)
    BY <1>3
  <2> QED BY <1>1, <2>1, <2>3, <2>4 DEF RowsetInv, Iterator
<1>10. RowsFollow'
  <2>1. 1..(Len(call'.rows) - 1) = {}
    BY <1>1
  <2> QED BY <2>1 DEF RowsFollow
<1> QED BY <1>2, <1>7, <1>8, <1>9, <1>10 DEF RowsetInv

\* What a turn of the loop leaves behind a row that was read.
Behind(e) ==
  /\ call'.on = TRUE /\ call'.json = call.json /\ call'.mixed = call.mixed
  /\ Pos \in Nat /\ Len(call'.rows) = Pos + 1 /\ Pos' = Pos + 1
  /\ call'.rows[Pos + 1] = e
  /\ \A p \in 1..Pos : call'.rows[p] = call.rows[p]

EntryOf(row, n) ==
  [n |-> n, row |-> row, ret |-> UnpackOneRow(row, n, Pos).ret, json |-> call.json,
   mixed |-> call.mixed]

LEMMA Taken ==
  ASSUME RowsetInv, Room, NEW row \in ServerRows, NEW n \in Nat,
         NEW rset \in PageType, rset.lo <= rset.hi, rset.hi <= MaxRows,
         TakeRow(row, n, rset)
  PROVE  /\ Typed' /\ Memory' /\ RestTold' /\ Answers'
         /\ stmt'.rset = rset /\ Behind(EntryOf(row, n)) /\ EntryOf(row, n) \in Entry
         /\ (row.shape # "fit" => EntryOf(row, n).ret = "ERROR")
<1>1. /\ Typed /\ Memory /\ RestTold /\ Answers
      /\ call.on /\ Pos < ard.array_size
      /\ UNCHANGED <<ird, ard, last>>
  BY DEF RowsetInv, TakeRow, Room
<1>2. /\ stmt.tv_rows \in Nat /\ ard \in ArdType
      /\ ard.array_size \in ArraySizes /\ ard.array_size \in Nat
      /\ call \in CallType /\ call.rows \in Seq(Entry) /\ call.errors \in Nat
      /\ Pos \in Nat /\ mem \in MemType /\ last = "NONE"
  <2>1. stmt.tv_rows \in Nat
    BY <1>1 DEF Typed, StmtType
  <2>2. /\ ard \in ArdType /\ ard.array_size \in ArraySizes /\ ard.array_size \in Nat
    BY <1>1, RowsetAssumption DEF Typed, ArdType
  <2>3. /\ call \in CallType /\ call.rows \in Seq(Entry) /\ call.errors \in Nat
        /\ Len(call.rows) \in Nat
    BY <1>1 DEF Typed, CallType
  <2>4. mem \in MemType /\ last = "NONE"
    BY <1>1 DEF Typed, Answers
  <2> QED BY <2>1, <2>2, <2>3, <2>4 DEF Pos
<1> DEFINE made == UnpackOneRow(row, n, Pos)
           e == EntryOf(row, n)
<1>3. /\ call' = [call EXCEPT !.rows = Append(@, e),
                              !.errors = IF made.ret = "ERROR" THEN @ + 1 ELSE @]
      /\ stmt' = [rset |-> rset, tv_rows |-> stmt.tv_rows + 1]
      /\ mem' = made.mem
      /\ diag' = made.diag
  BY DEF TakeRow, EntryOf
<1>4. Pos \in AllPositions
  BY <1>1, <1>2, PositionsAre DEF Positions
<1>5. RowMade(made, row, n, Pos)
  <2>1. ~(Pos < Pos) /\ Pos >= Pos
    BY <1>2
  <2>2. \A c \in ArdCols : CellOf(c, Pos) = OldCell
    BY <1>1, <1>4, <2>1 DEF Memory, Live
  <2>3. mem.status[Pos] = Old
    BY <1>1, <1>4, <2>1 DEF RestTold
  <2> QED BY <1>1, <1>4, <2>2, <2>3, UnpackMade
<1>7. made.ret \in Rets /\ e \in Entry
  <2>1. made.ret \in Rets
    BY <1>5 DEF RowMade
  <2>2. call.json \in BOOLEAN /\ call.mixed \in BOOLEAN
    BY <1>2 DEF CallType
  <2> HIDE DEF made
  <2>3. e = [n |-> n, row |-> row, ret |-> made.ret, json |-> call.json,
             mixed |-> call.mixed]
    BY DEF EntryOf, made
  <2> QED BY <2>1, <2>2, <2>3 DEF Entry
<1>10. e.n = n /\ e.row = row /\ e.ret = made.ret
  BY DEF EntryOf
<1> HIDE DEF made, e
<1>8. /\ call'.on = TRUE /\ call'.rows = Append(call.rows, e)
      /\ call'.json = call.json /\ call'.mixed = call.mixed
      /\ call'.errors = IF made.ret = "ERROR" THEN call.errors + 1 ELSE call.errors
      /\ call' \in CallType
  <2>1. call' = [on |-> call.on, json |-> call.json, mixed |-> call.mixed,
                 rows |-> Append(call.rows, e),
                 errors |-> IF made.ret = "ERROR" THEN call.errors + 1 ELSE call.errors]
    BY <1>2, <1>3 DEF CallType
  <2>2. Append(call.rows, e) \in Seq(Entry)
    BY <1>2, <1>7, AppendProperties
  <2>3. call.json \in BOOLEAN /\ call.mixed \in BOOLEAN
    BY <1>2 DEF CallType
  <2> QED BY <1>1, <1>2, <2>1, <2>2, <2>3 DEF CallType
<1>9. /\ Len(call'.rows) = Pos + 1 /\ Pos' = Pos + 1 /\ call'.rows[Pos + 1] = e
      /\ \A p \in 1..Pos : call'.rows[p] = call.rows[p]
  BY <1>2, <1>7, <1>8, AppendProperties DEF Pos
<1>11. row.shape # "fit" => e.ret = "ERROR"
  BY <1>5, <1>10 DEF RowMade
<1>12. stmt' \in StmtType /\ stmt'.rset = rset
  BY <1>2, <1>3 DEF StmtType
<1>13. Typed'
  <2>1. mem' \in MemType /\ diag' \in DiagType
    BY <1>3, <1>5 DEF RowMade
  <2>3. Pos' <= ard'.array_size /\ call'.errors <= Pos'
    BY <1>1, <1>2, <1>8, <1>9 DEF Typed
  <2> QED BY <1>1, <1>2, <1>8, <1>12, <2>1, <2>3 DEF Typed
<1>15. Memory'
  <2> SUFFICES ASSUME NEW p \in AllPositions
               PROVE  IF p < Pos' THEN Told(p)'
                      ELSE \A c \in ArdCols : CellOf(c, p)' = OldCell
    BY DEF Memory
  <2>1. p \in Nat /\ Area' = Area /\ Bound(ard)' = Bound(ard)
    BY <1>1, PositionsAre DEF Area
  <2>2. \A c \in ArdCols : CellOf(c, p)' = made.mem.cells[c][<<Area, p>>]
    BY <1>3, <2>1 DEF CellOf, made
  <2>3. <<Area, p>> \in Offsets \X AllPositions
    BY <1>2, RowsetAssumption DEF Area, ArdType
  <2>4. CASE p = Pos
    <3>1. p < Pos' /\ call'.rows[p + 1] = e
      BY <1>2, <1>9, <2>4
    <3>2. \A c \in ArdCols : Holds(Bound(ard), n, row, e.ret, c, CellOf(c, p)')
      BY <1>5, <1>10, <2>2, <2>4 DEF RowMade
    <3>3. ird.status_ptr => Tells(Bound(ard), row, e.ret, mem'.status[p])
      BY <1>3, <1>5, <1>10, <2>4 DEF RowMade, made
    <3>4. Told(p)'
      BY <1>1, <1>10, <2>1, <3>1, <3>2, <3>3 DEF Told
    <3> QED BY <3>1, <3>4
  <2>5. CASE p # Pos
    <3>1. <<Area, p>> # <<Area, Pos>>
      BY <2>5
    <3>2. \A c \in ArdCols : CellOf(c, p)' = CellOf(c, p)
      BY <1>5, <2>2, <2>3, <3>1 DEF RowMade, CellOf
    <3>3. mem'.status[p] = mem.status[p]
      BY <1>3, <1>5, <2>5 DEF RowMade, made
    <3>4. IF p < Pos THEN Told(p) ELSE \A c \in ArdCols : CellOf(c, p) = OldCell
      BY <1>1 DEF Memory, Live
    <3>5. p < Pos' <=> p < Pos
      BY <1>2, <1>9, <2>1, <2>5
    <3>6. CASE p < Pos
      <4>1. call'.rows[p + 1] = call.rows[p + 1]
        <5>1. p + 1 \in 1..Pos
          BY <1>2, <2>1, <3>6
        <5> QED BY <1>9, <5>1
      <4>2. Told(p)'
        BY <1>1, <2>1, <3>2, <3>3, <3>4, <3>6, <4>1 DEF Told
      <4> QED BY <3>5, <3>6, <4>2
    <3>7. CASE ~(p < Pos)
      BY <3>2, <3>4, <3>5, <3>7
    <3> QED BY <3>6, <3>7
  <2> QED BY <2>4, <2>5
<1>16. RestTold'
  <2>1. ~Fetched'
    BY <1>1, <1>2 DEF Fetched
  <2>2. ASSUME NEW p \in AllPositions, p >= Pos' PROVE mem'.status[p] = Old
    <3>1. p # Pos /\ p >= Pos
      BY <1>2, <1>9, <2>2, PositionsAre
    <3>2. mem'.status[p] = mem.status[p]
      BY <1>3, <1>5, <3>1 DEF RowMade, made
    <3> QED BY <1>1, <3>1, <3>2 DEF RestTold
  <2> QED BY <2>1, <2>2 DEF RestTold
<1>17. Answers'
  <2>1. /\ ~Fetched' /\ last' = "NONE" /\ mem'.rows = -1
    BY <1>1, <1>2, <1>3, <1>5 DEF Fetched, Answers, RowMade, made
  <2>2. (\E p \in Positions(Pos') : Good(p)') <=> call'.errors < Pos'
    <3>1. /\ Positions(Pos') = Positions(Pos) \cup {Pos}
          /\ \A p \in Positions(Pos) : p + 1 \in 1..Pos
      BY <1>2, <1>9 DEF Positions
    <3>2. \A p \in Positions(Pos) : call'.rows[p + 1].ret = call.rows[p + 1].ret
      BY <1>9, <3>1
    <3>3. call'.rows[Pos + 1].ret = made.ret
      BY <1>9, <1>10
    <3>4. (\E p \in Positions(Pos) : call.rows[p + 1].ret # "ERROR") <=> call.errors < Pos
      BY <1>1 DEF Answers, Live, Good
    <3>5. call.errors <= Pos
      BY <1>1 DEF Typed
    <3>6. (\E p \in Positions(Pos') : call'.rows[p + 1].ret # "ERROR")
             <=> (call.errors < Pos \/ made.ret # "ERROR")
      BY <3>1, <3>2, <3>3, <3>4
    <3>7. (call.errors < Pos \/ made.ret # "ERROR") <=> call'.errors < Pos'
      BY <1>2, <1>8, <1>9, <3>5
    <3> QED BY <3>6, <3>7 DEF Good
  <2>3. (~Good(Pos - 1) => DiagOf(ard.cols, call.rows[Pos].row, diag))'
    <3>1. Pos' - 1 + 1 = Pos + 1 /\ call'.rows[Pos + 1] = e
      BY <1>2, <1>9
    <3>2. (Good(Pos - 1))' <=> made.ret # "ERROR"
      BY <1>10, <3>1 DEF Good
    <3>3. diag' = made.diag /\ call'.rows[Pos'] = e
      BY <1>3, <1>9 DEF made
    <3> QED BY <1>1, <1>5, <1>10, <3>2, <3>3 DEF RowMade
  <2> QED BY <2>1, <2>2, <2>3 DEF Answers
<1>18. Behind(e)
  BY <1>2, <1>8, <1>9 DEF Behind
<1> QED BY <1>7, <1>11, <1>12, <1>13, <1>15, <1>16, <1>17, <1>18 DEF e

\* The rows in front of one that is appended still follow each other.
Followed(rows, p) ==
  LET a == rows[p]
      b == rows[p + 1]
  IN  \/ b.n = a.n + 1
      \/ b = a /\ a.row.shape = "long" /\ ~a.json
      \/ b.mixed /\ (b.n = NoRow \/ \A q \in 1..p : rows[q].n < b.n)

LEMMA FollowOn ==
  ASSUME RowsetInv, NEW e, Behind(e), Pos > 0 => Followed(call'.rows, Pos)
  PROVE  RowsFollow'
<1>1. Pos \in Nat /\ Pos = Len(call.rows) /\ Len(call'.rows) = Pos + 1
      /\ \A p \in 1..Pos : call'.rows[p] = call.rows[p]
  BY DEF Behind, Pos
<1>2. ASSUME NEW p \in 1..(Len(call'.rows) - 1) PROVE Followed(call'.rows, p)
  <2>1. p \in 1..Pos /\ \A q \in 1..p : q \in 1..Pos
    BY <1>1
  <2>2. CASE p # Pos
    <3>1. p \in 1..(Len(call.rows) - 1) /\ p + 1 \in 1..Pos
      BY <1>1, <2>1, <2>2
    <3>2. call'.rows[p + 1] = call.rows[p + 1] /\ call'.rows[p] = call.rows[p]
          /\ \A q \in 1..p : call'.rows[q] = call.rows[q]
      BY <1>1, <2>1, <3>1
    <3>3. Followed(call.rows, p)
      BY <3>1 DEF RowsetInv, RowsFollow, Followed
    <3> QED BY <3>2, <3>3 DEF Followed
  <2>3. CASE p = Pos
    <3>1. Pos > 0
      BY <1>1, <2>1, <2>3
    <3> QED BY <2>3, <3>1
  <2> QED BY <2>2, <2>3
<1> QED BY <1>2 DEF RowsFollow, Followed

LEMMA UpToMore ==
  ASSUME NEW rows, NEW m \in Nat, NEW n \in Nat, m <= n,
         \A p \in 1..Len(rows) : rows[p].n \in Nat, UpTo(rows, m)
  PROVE  UpTo(rows, n)
BY DEF UpTo

LEMMA RowKeeps == RowsetInv /\ FetchRow => RowsetInv'
<1> SUFFICES ASSUME RowsetInv, FetchRow PROVE RowsetInv'
  OBVIOUS
<1>1. /\ Typed /\ Iterator /\ RowsFollow /\ Room /\ call.on
      /\ stmt.rset.lo # stmt.rset.hi /\ call.json = stmt.rset.json
  BY DEF RowsetInv, FetchRow, Room, LooksEmpty, Empty, Misread
<1>2. /\ stmt.rset \in PageType /\ stmt.rset.lo \in Nat /\ stmt.rset.hi \in Nat
      /\ stmt.rset.lo < stmt.rset.hi /\ stmt.rset.hi <= MaxRows /\ MaxRows \in Nat
      /\ call.rows \in Seq(Entry) /\ call.json \in BOOLEAN
  <2>1. /\ stmt.rset \in PageType /\ stmt.rset.lo \in Nat /\ stmt.rset.hi \in Nat
    BY <1>1 DEF Typed, StmtType, PageType
  <2>2. call.rows \in Seq(Entry) /\ call.json \in BOOLEAN
    BY <1>1 DEF Typed, CallType
  <2> QED BY <1>1, <2>1, <2>2, RowsetAssumption DEF Typed
<1> DEFINE n == stmt.rset.lo + 1
           rset(row) == IF Advances(call.json, row)
                        THEN [stmt.rset EXCEPT !.lo = @ + 1, !.stuck = {}]
                        ELSE [stmt.rset EXCEPT !.stuck = {row}]
<1>3. PICK row \in ServerRows :
        (stmt.rset.stuck # {} => row \in stmt.rset.stuck) /\ TakeRow(row, n, rset(row))
  <2>1. stmt.rset.stuck \subseteq ServerRows
    BY <1>2 DEF PageType
  <2>2. CASE stmt.rset.stuck # {}
    BY <2>1, <2>2 DEF FetchRow
  <2>3. CASE stmt.rset.stuck = {}
    BY <2>3 DEF FetchRow
  <2> QED BY <2>2, <2>3
<1>4. /\ rset(row) \in PageType /\ rset(row).hi = stmt.rset.hi
      /\ rset(row).json = stmt.rset.json /\ rset(row).lo <= rset(row).hi
      /\ rset(row).lo = IF Advances(call.json, row) THEN n ELSE stmt.rset.lo
      /\ rset(row).stuck = IF Advances(call.json, row) THEN {} ELSE {row}
  <2>1. CASE Advances(call.json, row)
    <3>1. rset(row) = [stmt.rset EXCEPT !.lo = n, !.stuck = {}] /\ n \in Nat
      BY <1>2, <2>1
    <3>2. n <= stmt.rset.hi
      BY <1>2
    <3> HIDE DEF n, rset
    <3> DEFINE page == [stmt.rset EXCEPT !.lo = n, !.stuck = {}]
    <3>3. /\ page \in PageType /\ page.hi = stmt.rset.hi /\ page.lo = n
          /\ page.json = stmt.rset.json /\ page.stuck = {}
      BY <1>2, <3>1 DEF PageType
    <3> HIDE DEF page
    <3> QED BY <2>1, <3>1, <3>2, <3>3 DEF page
  <2>2. CASE ~Advances(call.json, row)
    BY <1>2, <2>2 DEF PageType
  <2> QED BY <2>1, <2>2
<1> DEFINE e == EntryOf(row, n)
<1> HIDE DEF rset
<1>5. /\ Typed' /\ Memory' /\ RestTold' /\ Answers'
      /\ stmt'.rset = rset(row) /\ Behind(e) /\ e \in Entry
      /\ (row.shape # "fit" => e.ret = "ERROR")
  <2>1. n \in Nat /\ rset(row).hi <= MaxRows
    BY <1>2, <1>4
  <2> HIDE DEF n
  <2> QED BY <1>1, <1>3, <1>4, <2>1, Taken DEF e
<1>6. e.n = n /\ e.row = row /\ e.json = call.json /\ e.mixed = call.mixed
  BY DEF EntryOf
<1> HIDE DEF e
<1>7. /\ Pos \in Nat /\ Pos' = Pos + 1 /\ call'.rows[Pos + 1] = e
      /\ Len(call'.rows) = Pos + 1 /\ Len(call.rows) = Pos
      /\ \A p \in 1..Pos : call'.rows[p] = call.rows[p]
      /\ call'.json = call.json /\ call'.mixed = call.mixed
  BY <1>5 DEF Behind, Pos
<1>8. \A p \in 1..Pos : call.rows[p].n \in Nat
  <2>1. \A p \in 1..Pos : call.rows[p] \in Entry
    BY <1>2, ElementOfSeq DEF Pos
  <2> QED BY <2>1 DEF Entry
<1>9. UpTo(call.rows, n) /\ (stmt.rset.stuck = {} => UpTo(call.rows, stmt.rset.lo))
  <2>1. CASE stmt.rset.stuck = {}
    <3>1. UpTo(call.rows, stmt.rset.lo)
      BY <1>1, <2>1 DEF Iterator
    <3>2. n \in Nat /\ stmt.rset.lo <= n
      BY <1>2
    <3> HIDE DEF n
    <3> QED BY <1>2, <1>7, <1>8, <3>1, <3>2, UpToMore
  <2>2. CASE stmt.rset.stuck # {}
    BY <1>1, <2>2 DEF Iterator
  <2> QED BY <2>1, <2>2
<1>10. UpTo(call'.rows, n)
  <2> SUFFICES ASSUME NEW p \in 1..(Pos + 1) PROVE call'.rows[p].n <= n
    BY <1>7 DEF UpTo
  <2>1. CASE p \in 1..Pos
    BY <1>7, <1>9, <2>1 DEF UpTo
  <2>2. CASE p = Pos + 1
    BY <1>2, <1>6, <1>7, <2>2
  <2> QED BY <1>7, <2>1, <2>2
<1>11. Iterator'
  <2>1. ~Misread'
    BY <1>1, <1>4, <1>5, <1>7 DEF Misread
  <2>2. CASE Advances(call.json, row)
    <3>1. stmt'.rset.lo = n /\ stmt'.rset.stuck = {}
      BY <1>4, <1>5, <2>2
    <3>2. LastRead'
      BY <1>6, <1>7, <3>1 DEF LastRead
    <3> QED BY <1>10, <2>1, <3>1, <3>2 DEF Iterator
  <2>3. CASE ~Advances(call.json, row)
    <3>1. stmt'.rset.lo = stmt.rset.lo /\ stmt'.rset.stuck = {row}
          /\ stmt'.rset.hi = stmt.rset.hi /\ stmt'.rset.json = stmt.rset.json
      BY <1>4, <1>5, <2>3
    <3>2. ~call.json /\ row.shape = "long"
      BY <2>3 DEF Advances
    <3>3. LastRead'
      BY <1>5, <1>6, <1>7, <3>1, <3>2 DEF LastRead
    <3> QED BY <1>1, <1>2, <1>7, <1>10, <2>1, <3>1, <3>2, <3>3 DEF Iterator
  <2> QED BY <2>2, <2>3
<1>12. RowsFollow'
  <2>1. ASSUME Pos > 0 PROVE Followed(call'.rows, Pos)
    <3> DEFINE f == call.rows[Pos]
    <3>1. /\ call'.rows[Pos'] = e /\ call'.rows[Pos] = f /\ LastRead /\ Pos \in 1..Pos
      BY <1>1, <1>7, <2>1 DEF Iterator
    <3>2. CASE stmt.rset.stuck = {} /\ ~call.mixed
      <4>1. f.n = stmt.rset.lo
        BY <3>1, <3>2 DEF LastRead
      <4>2. call'.rows[Pos + 1].n = call'.rows[Pos].n + 1
        BY <1>6, <1>7, <3>1, <4>1
      <4> QED BY <1>7, <4>2 DEF Followed
    <3>3. CASE stmt.rset.stuck = {} /\ call.mixed
      <4>1. \A q \in 1..Pos : call'.rows[q].n < call'.rows[Pos + 1].n
        <5>1. \A q \in 1..Pos : call.rows[q].n <= stmt.rset.lo
          BY <1>7, <1>9, <3>3 DEF UpTo
        <5>2. \A q \in 1..Pos : call.rows[q].n < n
          BY <1>2, <1>8, <5>1
        <5> QED BY <1>6, <1>7, <5>2
      <4>2. call'.rows[Pos + 1].mixed
        BY <1>6, <1>7, <3>3
      <4> QED BY <1>7, <4>1, <4>2 DEF Followed
    <3>4. CASE stmt.rset.stuck # {}
      <4>1. /\ f.n = n /\ f.row \in stmt.rset.stuck
            /\ f.ret = "ERROR" /\ ~f.json /\ f.mixed = call.mixed /\ ~call.json
        BY <1>1, <3>1, <3>4 DEF LastRead, Iterator
      <4>2. row.shape = "long" /\ f.row = row
        BY <1>1, <1>3, <3>4, <4>1 DEF Iterator
      <4>3. f \in Entry
        BY <1>2, <3>1, ElementOfSeq DEF Pos
      <4>4. e.n = f.n /\ e.row = f.row /\ e.ret = f.ret /\ e.mixed = f.mixed
        BY <1>5, <1>6, <4>1, <4>2
      <4>5. e.json = f.json
        BY <1>2, <1>6, <4>1, <4>3 DEF Entry
      <4> HIDE DEF f
      <4>6. e = f
        BY <1>5, <4>3, <4>4, <4>5 DEF Entry
      <4>7. /\ call'.rows[Pos + 1] = call'.rows[Pos] /\ call'.rows[Pos].row.shape = "long"
            /\ ~call'.rows[Pos].json
        BY <1>7, <3>1, <4>1, <4>2, <4>6
      <4> QED BY <1>7, <4>7 DEF Followed
    <3> QED BY <3>2, <3>3, <3>4
  <2> QED BY <1>5, <2>1, FollowOn
<1> QED BY <1>5, <1>11, <1>12 DEF RowsetInv

LEMMA AstrayKeeps == RowsetInv /\ FetchAstray => RowsetInv'
<1> SUFFICES ASSUME RowsetInv, FetchAstray PROVE RowsetInv'
  OBVIOUS
<1>1. /\ Typed /\ Iterator /\ RowsFollow /\ Room /\ call.on /\ Misread /\ call.json
      /\ call.mixed /\ stmt.rset.stuck = {}
  BY DEF RowsetInv, FetchAstray, Room, Iterator
<1>2. /\ stmt.rset \in PageType /\ stmt.rset.lo \in Nat /\ NoRow \in Nat
      /\ stmt.rset.lo <= stmt.rset.hi /\ stmt.rset.hi <= MaxRows
  BY <1>1 DEF Typed, StmtType, PageType, NoRow
<1>3. PICK row \in ServerRows : TakeRow(row, NoRow, stmt.rset)
  BY DEF FetchAstray
<1> DEFINE e == EntryOf(row, NoRow)
<1>4. /\ Typed' /\ Memory' /\ RestTold' /\ Answers'
      /\ stmt'.rset = stmt.rset /\ Behind(e)
  BY <1>1, <1>2, <1>3, Taken
<1>5. e.n = NoRow /\ e.mixed = call.mixed
  BY DEF EntryOf
<1> HIDE DEF e
<1>6. /\ Pos \in Nat /\ Pos' = Pos + 1 /\ call'.rows[Pos + 1] = e
      /\ Len(call'.rows) = Pos + 1 /\ Len(call.rows) = Pos
      /\ \A p \in 1..Pos : call'.rows[p] = call.rows[p]
      /\ call'.json = call.json /\ call'.mixed = call.mixed
  BY <1>4 DEF Behind, Pos
<1>7. UpTo(call'.rows, stmt.rset.lo)
  <2> SUFFICES ASSUME NEW p \in 1..(Pos + 1) PROVE call'.rows[p].n <= stmt.rset.lo
    BY <1>4, <1>6 DEF UpTo
  <2>1. CASE p \in 1..Pos
    BY <1>1, <1>6, <2>1 DEF UpTo, Iterator
  <2>2. CASE p = Pos + 1
    BY <1>2, <1>5, <1>6, <2>2 DEF NoRow
  <2> QED BY <1>6, <2>1, <2>2
<1>8. Iterator'
  <2>1. LastRead' /\ call'.mixed
    BY <1>1, <1>4, <1>6 DEF LastRead
  <2> QED BY <1>1, <1>4, <1>7, <2>1 DEF Iterator
<1>9. RowsFollow'
  <2>1. Followed(call'.rows, Pos)
    BY <1>1, <1>5, <1>6 DEF Followed
  <2> QED BY <1>4, <2>1, FollowOn
<1> QED BY <1>4, <1>8, <1>9 DEF RowsetInv

LEMMA TurnKeeps == RowsetInv /\ FetchTurn => RowsetInv'
<1> SUFFICES ASSUME RowsetInv, FetchTurn PROVE RowsetInv'
  OBVIOUS
<1>1. /\ Typed /\ Memory /\ RestTold /\ Answers /\ Iterator /\ RowsFollow
      /\ call.on /\ Pos < ard.array_size /\ LooksEmpty /\ stmt.rset.more
      /\ UNCHANGED <<ird, ard, mem, diag>>
  BY DEF RowsetInv, FetchTurn, Room
<1>2. /\ stmt \in StmtType /\ stmt.rset.lo \in Nat /\ stmt.rset.hi \in Nat
      /\ stmt.rset.lo <= stmt.rset.hi
      /\ last = "NONE" /\ call \in CallType /\ mem.rows = -1
      /\ call.rows \in Seq(Entry) /\ Pos \in Nat
  <2>1. /\ stmt \in StmtType /\ stmt.rset.lo \in Nat /\ stmt.rset.hi \in Nat
        /\ stmt.rset.lo <= stmt.rset.hi
    BY <1>1 DEF Typed, StmtType, PageType
  <2>2. call \in CallType /\ call.rows \in Seq(Entry) /\ Len(call.rows) \in Nat
    BY <1>1 DEF Typed, CallType
  <2>3. last = "NONE" /\ mem.rows = -1
    BY <1>1 DEF Answers
  <2> QED BY <2>1, <2>2, <2>3 DEF Pos
<1>3. CASE UNCHANGED last /\
           \E json \in Packs, hi \in PageEnds(stmt.rset.hi), more \in BOOLEAN :
             /\ stmt' = [stmt EXCEPT !.rset = Page(json, stmt.rset.hi, hi, more)]
             /\ call' = [call EXCEPT !.mixed = @ \/ json # call.json]
  <2>1. PICK json \in Packs, hi \in PageEnds(stmt.rset.hi), more \in BOOLEAN :
          /\ stmt' = [stmt EXCEPT !.rset = Page(json, stmt.rset.hi, hi, more)]
          /\ call' = [call EXCEPT !.mixed = @ \/ json # call.json]
    BY <1>3
  <2>2. hi \in Nat /\ stmt.rset.hi <= hi /\ hi <= MaxRows
    BY <1>2, EndsTyped
  <2>3. /\ stmt' \in StmtType /\ stmt'.rset.lo = stmt.rset.hi /\ stmt'.rset.hi = hi
        /\ stmt'.rset.stuck = {} /\ stmt'.rset.json = json
    BY <1>2, <2>1, <2>2, RowsetAssumption DEF StmtType, PageType, Page
  <2>4. /\ call'.on = call.on /\ call'.json = call.json /\ call'.rows = call.rows
        /\ call'.errors = call.errors /\ call' \in CallType
        /\ (call'.mixed = (call.mixed \/ json # call.json))
    BY <1>2, <2>1 DEF CallType
  <2>5. UNCHANGED <<last, ird, ard, mem, diag>> /\ Pos' = Pos /\ Area' = Area
    BY <1>1, <1>3, <2>4 DEF Pos, Area
  <2>6. Typed'
    BY <1>1, <2>2, <2>3, <2>4, <2>5 DEF Typed
  <2>7. Live' = Live /\ Fetched' = Fetched /\ ~Fetched
    BY <1>2, <2>4, <2>5 DEF Live, Fetched
  <2>8. Memory'
    BY <1>1, <2>4, <2>5, <2>7 DEF Memory, Told, CellOf
  <2>9. RestTold'
    BY <1>1, <2>4, <2>5, <2>7 DEF RestTold
  <2>10. Answers'
    BY <1>1, <1>2, <2>4, <2>5, <2>7 DEF Answers, Good
  <2>11. RowsFollow'
    BY <1>1, <2>4 DEF RowsFollow
  <2>12. \A p \in 1..Len(call.rows) : call.rows[p].n \in Nat
    <3>1. \A p \in 1..Len(call.rows) : call.rows[p] \in Entry
      BY <1>2, ElementOfSeq
    <3> QED BY <3>1 DEF Entry
  <2>13. UpTo(call.rows, stmt.rset.hi)
    <3>1. CASE stmt.rset.stuck = {}
      <4>1. UpTo(call.rows, stmt.rset.lo)
        BY <1>1, <3>1 DEF Iterator
      <4> QED BY <1>2, <2>12, <4>1, UpToMore
    <3>2. CASE stmt.rset.stuck # {}
      <4>1. UpTo(call.rows, stmt.rset.lo + 1) /\ stmt.rset.lo + 1 <= stmt.rset.hi
        BY <1>1, <1>2, <3>2 DEF Iterator
      <4> QED BY <1>2, <2>12, <4>1, UpToMore
    <3> QED BY <3>1, <3>2
  <2>14. UpTo(call'.rows, stmt'.rset.lo)
    BY <2>3, <2>4, <2>5, <2>13 DEF UpTo
  <2>15. Misread' => call'.mixed
    BY <2>3, <2>4 DEF Misread
  <2>16. ASSUME Pos > 0 PROVE LastRead'
    <3>1. CASE call'.mixed
      BY <2>3, <3>1 DEF LastRead
    <3>2. CASE ~call'.mixed
      <4>1. ~call.mixed /\ ~Misread
        BY <1>1, <2>4, <3>2 DEF Iterator
      <4>2. stmt.rset.lo = stmt.rset.hi
        BY <1>1, <4>1 DEF LooksEmpty, Empty
      <4>3. stmt.rset.stuck = {} /\ LastRead
        BY <1>1, <1>2, <2>16, <4>2 DEF Iterator
      <4> QED BY <2>3, <2>4, <2>5, <4>1, <4>2, <4>3 DEF LastRead
    <3> QED BY <3>1, <3>2
  <2>17. Iterator'
    BY <1>1, <2>3, <2>4, <2>5, <2>14, <2>15, <2>16 DEF Iterator
  <2> QED BY <2>6, <2>8, <2>9, <2>10, <2>11, <2>17 DEF RowsetInv
<1>4. CASE /\ call' = [call EXCEPT !.on = FALSE] /\ last' = "TURN_FAILED"
           /\ UNCHANGED stmt
  <2>1. /\ call'.on = FALSE /\ call'.rows = call.rows /\ call'.errors = call.errors
        /\ call'.json = call.json /\ call' \in CallType /\ UNCHANGED <<stmt, ird, ard, mem, diag>>
        /\ last' = "TURN_FAILED" /\ Pos' = Pos /\ Area' = Area
    BY <1>1, <1>2, <1>4 DEF CallType, Pos, Area
  <2>2. Typed'
    BY <1>1, <2>1 DEF Typed, Codes
  <2>3. Live /\ Live' /\ Fetched'
    BY <1>1, <2>1 DEF Live, Fetched
  <2>4. Memory'
    BY <1>1, <2>1, <2>3 DEF Memory, Told, CellOf
  <2>5. RestTold'
    <3>1. ard.array_size \in ArraySizes
      BY <1>1 DEF Typed, ArdType
    <3> QED BY <1>1, <2>1, <3>1, PositionsAre DEF RestTold
  <2>6. Answers'
    BY <1>1, <1>2, <2>1, <2>3 DEF Answers, Good, LooksEmpty, Empty, Misread
  <2>7. Iterator' /\ RowsFollow'
    BY <1>1, <2>1 DEF Iterator, RowsFollow
  <2> QED BY <2>2, <2>4, <2>5, <2>6, <2>7 DEF RowsetInv
<1> QED BY <1>3, <1>4 DEF FetchTurn

LEMMA EndKeeps == RowsetInv /\ FetchEnd => RowsetInv'
<1> SUFFICES ASSUME RowsetInv, FetchEnd PROVE RowsetInv'
  OBVIOUS
<1>1. /\ Typed /\ Memory /\ RestTold /\ Answers /\ Iterator /\ RowsFollow
      /\ call.on /\ (Pos = ard.array_size \/ (LooksEmpty /\ ~stmt.rset.more))
      /\ UNCHANGED <<stmt, ird, ard, diag>>
      /\ mem' = CountRows(MarkRest(mem)) /\ last' = Answer
  BY DEF RowsetInv, FetchEnd
<1>2. /\ call \in CallType /\ mem \in MemType /\ mem.rows = -1 /\ ird \in IrdType
      /\ ard.array_size \in ArraySizes /\ ard.array_size \in Nat /\ Pos \in Nat
      /\ Pos <= ard.array_size
  <2>1. Len(call.rows) \in Nat
    BY <1>1 DEF Typed, CallType
  <2> QED BY <1>1, <2>1, RowsetAssumption DEF Typed, ArdType, Pos, Answers
<1>3. /\ call'.on = FALSE /\ call'.rows = call.rows /\ call'.errors = call.errors
      /\ call'.json = call.json /\ call' \in CallType /\ Pos' = Pos /\ Area' = Area
  <2>1. call' = [call EXCEPT !.on = FALSE]
    BY DEF FetchEnd
  <2> QED BY <1>1, <1>2, <2>1 DEF CallType, Pos, Area
<1>4. /\ MarkRest(mem) \in MemType /\ MarkRest(mem).rows = -1
      /\ MarkRest(mem).cells = mem.cells
      /\ \A p \in AllPositions : p < Pos => MarkRest(mem).status[p] = mem.status[p]
      /\ ird.status_ptr => \A p \in Positions(ard.array_size) : p >= Pos =>
           MarkRest(mem).status[p] = "NOROW"
  <2>1. CASE ird.status_ptr /\ Pos < ard.array_size
    <3> DEFINE status == [p \in AllPositions |->
                            IF p \in Pos..(ard.array_size - 1) THEN "NOROW"
                            ELSE mem.status[p]]
    <3>1. MarkRest(mem) = [mem EXCEPT !.status = status]
      BY <1>2, <2>1 DEF MarkRest, MemType
    <3>2. status \in [AllPositions -> Statuses]
      BY <1>2 DEF MemType, Statuses
    <3>3. \A p \in AllPositions : p < Pos => status[p] = mem.status[p]
      BY <1>2, PositionsAre
    <3>4. \A p \in Positions(ard.array_size) : p >= Pos => status[p] = "NOROW"
      BY <1>2, PositionsAre DEF Positions
    <3> HIDE DEF status
    <3>5. /\ MarkRest(mem) \in MemType /\ MarkRest(mem).rows = mem.rows
          /\ MarkRest(mem).cells = mem.cells /\ MarkRest(mem).status = status
      BY <1>2, <3>1, <3>2 DEF MemType
    <3> QED BY <1>2, <3>3, <3>4, <3>5
  <2>2. CASE ~(ird.status_ptr /\ Pos < ard.array_size)
    <3>1. MarkRest(mem) = mem
      BY <2>2 DEF MarkRest
    <3>2. ird.status_ptr => \A p \in Positions(ard.array_size) : ~(p >= Pos)
      BY <1>2, <2>2 DEF Positions
    <3> QED BY <1>2, <3>1, <3>2
  <2> QED BY <2>1, <2>2
<1>5. /\ mem' \in MemType /\ mem'.cells = mem.cells
      /\ mem'.status = MarkRest(mem).status
      /\ ird.rows_ptr => mem'.rows = Pos
  <2> DEFINE m == MarkRest(mem)
  <2>1. m \in MemType
    BY <1>4
  <2> HIDE DEF m
  <2>2. CASE ird.rows_ptr
    <3>1. CountRows(m) = [m EXCEPT !.rows = Pos]
      BY <2>2 DEF CountRows
    <3>2. /\ CountRows(m) \in MemType /\ CountRows(m).cells = m.cells
          /\ CountRows(m).status = m.status /\ CountRows(m).rows = Pos
      BY <1>2, <2>1, <3>1 DEF MemType
    <3> QED BY <1>1, <1>4, <3>2 DEF m
  <2>3. CASE ~ird.rows_ptr
    <3>1. CountRows(m) = m
      BY <2>3 DEF CountRows
    <3> QED BY <1>1, <1>4, <2>1, <2>3, <3>1 DEF m
  <2> QED BY <2>2, <2>3
<1>6. last' \in {"NO_DATA", "ERROR", "SUCCESS"} /\ last' # "TURN_FAILED"
  BY <1>1 DEF Answer
<1>7. Typed'
  BY <1>1, <1>3, <1>5, <1>6 DEF Typed, Codes
<1>8. Live /\ Live' /\ Fetched'
  BY <1>1, <1>6 DEF Live, Fetched
<1>9. Memory'
  <2> SUFFICES ASSUME NEW p \in AllPositions
               PROVE  IF p < Pos' THEN Told(p)'
                      ELSE \A c \in ArdCols : CellOf(c, p)' = OldCell
    BY DEF Memory
  <2>1. IF p < Pos THEN Told(p) ELSE \A c \in ArdCols : CellOf(c, p) = OldCell
    BY <1>1, <1>8 DEF Memory
  <2>2. \A c \in ArdCols : CellOf(c, p)' = CellOf(c, p)
    BY <1>3, <1>5 DEF CellOf
  <2>3. p < Pos => mem'.status[p] = mem.status[p]
    BY <1>4, <1>5
  <2> QED BY <1>1, <1>3, <2>1, <2>2, <2>3 DEF Told
<1>10. RestTold'
  BY <1>1, <1>3, <1>4, <1>5, <1>6 DEF RestTold
<1>11. Answers'
  <2>1. Answer' = Answer
    BY <1>3 DEF Answer
  <2>2. LooksEmpty' = LooksEmpty
    BY <1>1, <1>3 DEF LooksEmpty, Empty, Misread
  <2> QED BY <1>1, <1>2, <1>3, <1>5, <1>6, <1>8, <2>1, <2>2 DEF Answers, Good
<1>12. Iterator' /\ RowsFollow'
  BY <1>1, <1>3 DEF Iterator, RowsFollow
<1> QED BY <1>7, <1>9, <1>10, <1>11, <1>12 DEF RowsetInv

LEMMA GetDataKeeps == RowsetInv /\ GetData => RowsetInv'
<1> SUFFICES ASSUME RowsetInv, GetData PROVE RowsetInv'
  OBVIOUS
<1>1. /\ Typed /\ Iterator /\ RowsFollow /\ ~call.on /\ last' = "GOT"
      /\ UNCHANGED <<stmt, ird, ard, call>>
  BY DEF RowsetInv, GetData, Idle
<1>2. /\ call \in CallType /\ call.rows \in Seq(Entry) /\ Len(call.rows) \in Nat
      /\ call.rows # <<>> /\ stmt.tv_rows \in Nat /\ ird \in IrdType
      /\ diag \in DiagType
  BY <1>1 DEF GetData, Typed, CallType, StmtType
<1> DEFINE cur == call.rows[Len(call.rows)]
           gd(b) == [ard EXCEPT !.cols = [k \in ArdCols |->
                                            IF k = b[1] THEN b[2] ELSE "unbound"]]
           copy(b) == CopyOneRow(Untouched, cur.row, cur.n, gd(b), 0, TRUE)
<1>3. PICK b \in BindCalls : mem' = copy(b).mem /\ diag' = copy(b).diag
  BY DEF GetData
<1> DEFINE bound == Bound(gd(b))
           failing == {c \in bound : ColumnFails(cur.row, gd(b).cols, c)}
           copied == Copied(cur.row, bound, failing)
           infos == {c \in copied : cur.row.vals[c] = "info"}
           at(c) == [row |-> RowNo(stmt.tv_rows, TRUE), col |-> c]
           r == copy(b)
<1>4. r = IF failing # {} /\ FailsInConversion(cur.row, Least(failing))
          THEN [mem |-> Untouched, diag |-> at(Least(failing)), ret |-> "ERROR"]
          ELSE IF failing # {} THEN SetRowDiag(Untouched, 0, Least(failing))
          ELSE IF infos # {}
          THEN [mem |-> SetStatus(Untouched, 0, "INFO"), diag |-> at(Greatest(infos)),
                ret |-> "INFO"]
          ELSE [mem |-> SetStatus(Untouched, 0, "SUCCESS"), diag |-> diag,
                ret |-> "SUCCESS"]
  BY DEF CopyOneRow
<1>5. /\ Cols \in Nat /\ bound \subseteq ArdCols /\ bound \subseteq 0..(Cols + 1)
      /\ bound \subseteq Nat /\ copied \subseteq bound
  <2>1. bound \subseteq ArdCols
    BY DEF Bound
  <2>2. copied \subseteq bound
    BY DEF Copied
  <2> HIDE DEF bound, copied
  <2> QED BY RowsetAssumption, <2>1, <2>2 DEF ArdCols
<1>6. failing # {} => Least(failing) \in ArdCols
  BY <1>5, LeastIn
<1>7. infos # {} => Greatest(infos) \in ArdCols
  <2> SUFFICES ASSUME infos # {} PROVE Greatest(infos) \in ArdCols
    OBVIOUS
  <2>1. infos \in SUBSET (0..(Cols + 1)) /\ infos \subseteq ArdCols /\ Cols + 1 \in Nat
    BY <1>5
  <2> HIDE DEF infos
  <2>2. Greatest(infos) \in infos
    BY <2>1, GreatestIn
  <2> QED BY <2>1, <2>2
<1>8. \A c \in ArdCols : at(c) \in DiagType
  BY DEF DiagType, RowNo
<1>9. 0 \in AllPositions
  BY RowsetAssumption DEF AllPositions, Positions
<1>10. \A value \in {"ERROR", "INFO", "SUCCESS"} :
         SetStatus(Untouched, 0, value) \in MemType
  BY <1>2, <1>9, StatusSet, UntouchedTyped DEF Statuses
<1> HIDE DEF bound, failing, copied, infos, at, r, copy, cur, gd
<1>11. r.mem \in MemType /\ r.diag \in DiagType
  <2>1. CASE failing # {} /\ FailsInConversion(cur.row, Least(failing))
    <3>1. r.mem = Untouched /\ r.diag = at(Least(failing))
      BY <1>4, <2>1
    <3> QED BY <1>6, <1>8, <2>1, <3>1, UntouchedTyped
  <2>2. CASE failing # {} /\ ~FailsInConversion(cur.row, Least(failing))
    <3>1. /\ r.mem = SetStatus(Untouched, 0, "ERROR")
          /\ r.diag = [row |-> stmt.tv_rows + 1, col |-> Least(failing)]
      BY <1>4, <2>2 DEF SetRowDiag
    <3> QED BY <1>2, <1>6, <1>10, <2>2, <3>1 DEF DiagType
  <2>3. CASE failing = {} /\ infos # {}
    <3>1. r.mem = SetStatus(Untouched, 0, "INFO") /\ r.diag = at(Greatest(infos))
      BY <1>4, <2>3
    <3> QED BY <1>7, <1>8, <1>10, <2>3, <3>1
  <2>4. CASE failing = {} /\ infos = {}
    <3>1. r.mem = SetStatus(Untouched, 0, "SUCCESS") /\ r.diag = diag
      BY <1>4, <2>4
    <3> QED BY <1>2, <1>10, <3>1
  <2> QED BY <2>1, <2>2, <2>3, <2>4
<1>12. Typed'
  <2>1. mem' \in MemType /\ diag' \in DiagType
    BY <1>3, <1>11 DEF r
  <2>2. Pos' = Pos
    BY <1>1 DEF Pos
  <2> QED BY <1>1, <2>1, <2>2 DEF Typed, Codes
<1>13. ~Live' /\ ~Fetched' /\ ~call'.on
  BY <1>1 DEF Live, Fetched
<1>14. Memory' /\ RestTold' /\ Answers'
  BY <1>1, <1>13 DEF Memory, RestTold, Answers
<1>15. Iterator' /\ RowsFollow'
  BY <1>1 DEF Iterator, RowsFollow
<1> QED BY <1>12, <1>14, <1>15 DEF RowsetInv

LEMMA Stutters == RowsetInv /\ UNCHANGED vars => RowsetInv'
BY DEF vars, RowsetInv, Typed, Memory, RestTold, Answers, Iterator, RowsFollow, Told,
       Live, Fetched, Good, CellOf, Area, Pos, LooksEmpty, Empty, Misread, Answer, UpTo,
       LastRead

\* Every step of every call keeps what is known of a fetch.
THEOREM RowsetKnown == Spec => []RowsetInv
<1>1. RowsetInv /\ [Next]_vars => RowsetInv'
  BY ExecuteKeeps, CloseKeeps, SettingKeeps, BeginKeeps, RowKeeps, AstrayKeeps,
     TurnKeeps, EndKeeps, GetDataKeeps, Stutters DEF Next
<1> QED BY <1>1, Started, PTL DEF Spec

-----------------------------------------------------------------------------
(* The theorems.                                                           *)

\* No call of a SQLFetch, whatever rows come, leaves the state's types: no
\* position outside the row set is counted, no column outside the ARD is posted.
THEOREM RowsetTypeCorrect == Spec => []TypeOK
<1>1. RowsetInv => TypeOK
  BY TypedImplies DEF RowsetInv
<1> QED BY <1>1, RowsetKnown, PTL

\* The rows of a row set follow each other, over page turns and failed rows: none is
\* left out, and only a CBOR row that the iterator cannot leave is read again.  Behind
\* a turn to a page of the other encapsulation, which the call goes on reading as one
\* of its own, rows may be left out, and none is there twice.
THEOREM RowsInOrder == Spec => []RowsFollow
<1>1. RowsetInv => RowsFollow
  BY DEF RowsetInv
<1> QED BY <1>1, RowsetKnown, PTL

\* The status array tells of each row what its buffers hold.
THEOREM StatusTrue == Spec => []StatusTellsRow
<1>1. RowsetInv => StatusTellsRow
  <2> SUFFICES ASSUME RowsetInv, Fetched, ird.status_ptr,
                      NEW p \in Positions(ard.array_size)
               PROVE
      CASE mem.status[p] \in {"SUCCESS", "INFO"} ->
             /\ p < Pos /\ Good(p)
             /\ (mem.status[p] = "INFO") =
                  (\E c \in Bound(ard) : call.rows[p + 1].row.vals[c] = "info")
        [] mem.status[p] = "ERROR" -> p < Pos /\ ~Good(p)
        [] mem.status[p] = "NOROW" -> p >= Pos /\ last \in {"SUCCESS", "ERROR", "NO_DATA"}
        [] OTHER -> \/ p >= Pos /\ last = "TURN_FAILED"
                    \/ p < Pos /\ ~Good(p)
                         /\ \E c \in Bound(ard) \cap (1..Cols) :
                              call.rows[p + 1].row.vals[c] = "bad"
                    \/ p < Pos /\ Bound(ard) = {}
    BY DEF StatusTellsRow
  <2>1. /\ ard.array_size \in ArraySizes /\ p \in AllPositions /\ p \in Nat
        /\ Len(call.rows) \in Nat
    <3>1. ard \in ArdType /\ call \in CallType
      BY DEF RowsetInv, Typed
    <3>2. ard.array_size \in ArraySizes /\ call.rows \in Seq(Entry)
      BY <3>1 DEF ArdType, CallType
    <3>3. p \in AllPositions /\ p \in Nat
      BY <3>2, PositionsAre
    <3>4. Len(call.rows) \in Nat
      BY <3>2
    <3> QED BY <3>2, <3>3, <3>4
  <2>2. CASE p < Pos
    <3> DEFINE e == call.rows[p + 1]
    <3>1. Tells(Bound(ard), e.row, e.ret, mem.status[p]) /\ (Good(p) <=> e.ret # "ERROR")
      BY <2>1, <2>2 DEF RowsetInv, Memory, Live, Told, Good
    <3> QED BY <2>2, <3>1 DEF Tells
  <2>3. CASE ~(p < Pos)
    <3>1. p >= Pos
      BY <2>1, <2>3 DEF Pos
    <3>2. mem.status[p] = IF last = "TURN_FAILED" THEN Old ELSE "NOROW"
      BY <3>1 DEF RowsetInv, RestTold
    <3>3. last = "TURN_FAILED" \/ last \in {"SUCCESS", "ERROR", "NO_DATA"}
      BY DEF Fetched
    <3> QED BY <3>1, <3>2, <3>3 DEF Old
  <2> QED BY <2>2, <2>3
<1> QED BY <1>1, RowsetKnown, PTL

\* What SQLFetch returns and counts agrees with the rows that came over.
THEOREM AnswerTrue == Spec => []AnswerTellsRows
<1>1. RowsetInv => AnswerTellsRows
  <2> SUFFICES ASSUME RowsetInv, Fetched PROVE AnswerTellsRows
    BY DEF AnswerTellsRows
  <2>1. Pos \in Nat /\ call.errors \in Nat /\ call.errors <= Pos
    BY DEF RowsetInv, Typed, CallType, Pos
  <2>2. /\ (\E p \in Positions(Pos) : Good(p)) <=> call.errors < Pos
        /\ Pos > 0 => (~Good(Pos - 1) => DiagOf(ard.cols, call.rows[Pos].row, diag))
        /\ last # "TURN_FAILED" => last = Answer
        /\ Pos < ard.array_size =>
             LooksEmpty /\ (last = "TURN_FAILED" <=> stmt.rset.more)
        /\ ird.rows_ptr => mem.rows = (IF last = "TURN_FAILED" THEN -1 ELSE Pos)
    BY DEF RowsetInv, Answers, Live
  <2>3. last = "SUCCESS" => \E p \in Positions(Pos) : Good(p)
    BY <2>1, <2>2 DEF Answer
  <2>4. last = "ERROR" => Pos > 0 /\ \A p \in Positions(Pos) : ~Good(p)
    BY <2>1, <2>2 DEF Answer
  <2>5. last = "ERROR" => DiagOf(ard.cols, call.rows[Pos].row, diag)
    <3>1. last = "ERROR" => Pos - 1 \in Positions(Pos)
      BY <2>1, <2>4 DEF Positions
    <3> QED BY <2>2, <2>4, <3>1
  <2>6. last = "NO_DATA" <=> (Pos = 0 /\ last # "TURN_FAILED")
    BY <2>1, <2>2 DEF Answer
  <2> QED BY <2>2, <2>3, <2>4, <2>5, <2>6 DEF AnswerTellsRows, DiagOf
<1> QED BY <1>1, RowsetKnown, PTL

\* Rows that came over are in the bound buffers at their own positions.
THEOREM CellsTrue == Spec => []CellsHoldRows
<1>1. RowsetInv => CellsHoldRows
  <2> SUFFICES ASSUME RowsetInv, Fetched, NEW c \in ArdCols,
                      NEW p \in Positions(ard.array_size)
               PROVE
      IF p < Pos /\ Good(p) /\ call.rows[p + 1].row.shape = "fit" /\ c \in Bound(ard)
      THEN CellOf(c, p) = [n |-> call.rows[p + 1].n, val |-> call.rows[p + 1].row.vals[c]]
      ELSE CellOf(c, p) # OldCell => p < Pos /\ CellOf(c, p).n = call.rows[p + 1].n
    BY DEF CellsHoldRows
  <2>1. p \in AllPositions
    BY PositionsAre DEF RowsetInv, Typed, ArdType
  <2>2. IF p < Pos THEN Told(p) ELSE CellOf(c, p) = OldCell
    BY <2>1 DEF RowsetInv, Memory, Live
  <2> QED BY <2>2 DEF Told, Holds, Good
<1> QED BY <1>1, RowsetKnown, PTL

-----------------------------------------------------------------------------
(* What a step may write.                                                  *)

Confined ==
  /\ \A p \in AllPositions : mem'.status[p] \notin {Old, mem.status[p]} =>
       ird.status_ptr /\ p < ard.array_size
  /\ mem'.rows \notin {-1, mem.rows} => ird.rows_ptr
  /\ \A c \in ArdCols : \A a \in Offsets \X AllPositions :
       mem'.cells[c][a] \notin {OldCell, mem.cells[c][a]} =>
         /\ call.on /\ c \in Bound(ard)
         /\ a = <<Area, Pos>>

LEMMA TakeConfined ==
  ASSUME RowsetInv, Room, NEW row \in ServerRows, NEW n \in Nat, NEW rset,
         TakeRow(row, n, rset)
  PROVE  Confined
<1>1. /\ Typed /\ Memory /\ RestTold /\ call.on /\ Pos < ard.array_size
      /\ ird \in IrdType /\ ard.array_size \in ArraySizes
  BY DEF RowsetInv, Room, Typed, ArdType
<1>3. Pos \in Nat /\ Pos \in AllPositions
  <2>1. Len(call.rows) \in Nat
    BY <1>1 DEF Typed, CallType
  <2>2. Pos \in Nat /\ ard.array_size \in Nat
    BY <1>1, <2>1, RowsetAssumption DEF Pos
  <2>3. Pos \in Positions(ard.array_size)
    BY <1>1, <2>2 DEF Positions
  <2> QED BY <1>1, <2>2, <2>3, PositionsAre
<1> DEFINE made == UnpackOneRow(row, n, Pos)
<1>5. RowMade(made, row, n, Pos)
  <2>1. ~(Pos < Pos) /\ Pos >= Pos
    BY <1>3
  <2>2. \A c \in ArdCols : CellOf(c, Pos) = OldCell
    BY <1>1, <1>3, <2>1 DEF Memory, Live
  <2>3. mem.status[Pos] = Old
    BY <1>1, <1>3, <2>1 DEF RestTold
  <2> QED BY <1>1, <1>3, <2>2, <2>3, UnpackMade
<1>6. mem' = made.mem
  BY DEF TakeRow
<1> HIDE DEF made
<1>7. \A p \in AllPositions : mem'.status[p] # mem.status[p] =>
        ird.status_ptr /\ p < ard.array_size
  BY <1>1, <1>5, <1>6 DEF RowMade
<1>8. mem'.rows = mem.rows
  BY <1>5, <1>6 DEF RowMade
<1>9. \A c \in ArdCols, a \in Offsets \X AllPositions :
        mem'.cells[c][a] # mem.cells[c][a] => a = <<Area, Pos>> /\ c \in Bound(ard)
  BY <1>5, <1>6 DEF RowMade
<1> QED BY <1>1, <1>7, <1>8, <1>9 DEF Confined

LEMMA RowConfined == RowsetInv /\ (FetchRow \/ FetchAstray) => Confined
<1>1. ASSUME RowsetInv, FetchRow PROVE Confined
  <2>1. Room /\ stmt.rset.stuck \subseteq ServerRows /\ stmt.rset.lo + 1 \in Nat
    BY <1>1 DEF FetchRow, RowsetInv, Typed, StmtType, PageType
  <2>2. PICK row \in ServerRows : \E rset : TakeRow(row, stmt.rset.lo + 1, rset)
    <3>1. CASE stmt.rset.stuck # {}
      BY <1>1, <2>1, <3>1 DEF FetchRow
    <3>2. CASE stmt.rset.stuck = {}
      BY <1>1, <3>2 DEF FetchRow
    <3> QED BY <3>1, <3>2
  <2> QED BY <1>1, <2>1, <2>2, TakeConfined
<1>2. ASSUME RowsetInv, FetchAstray PROVE Confined
  <2>1. Room /\ NoRow \in Nat /\ \E row \in ServerRows : TakeRow(row, NoRow, stmt.rset)
    BY <1>2 DEF FetchAstray, NoRow
  <2> QED BY <1>2, <2>1, TakeConfined
<1> QED BY <1>1, <1>2

LEMMA EndConfined == RowsetInv /\ FetchEnd => Confined
<1> SUFFICES ASSUME RowsetInv, FetchEnd PROVE Confined
  OBVIOUS
<1>1. /\ mem \in MemType /\ ard.array_size \in Nat /\ Len(call.rows) \in Nat
      /\ mem' = CountRows(MarkRest(mem))
  <2>1. /\ mem \in MemType /\ ard.array_size \in ArraySizes /\ call \in CallType
    BY DEF RowsetInv, Typed, ArdType
  <2>2. Len(call.rows) \in Nat
    BY <2>1 DEF CallType
  <2> QED BY <2>1, <2>2, RowsetAssumption DEF FetchEnd
<1> DEFINE m == MarkRest(mem)
<1>2. /\ m.cells = mem.cells /\ m.rows = mem.rows /\ m \in MemType
      /\ \A p \in AllPositions : m.status[p] # mem.status[p] =>
           ird.status_ptr /\ p < ard.array_size
  <2>1. CASE ird.status_ptr /\ Pos < ard.array_size
    <3> DEFINE status == [p \in AllPositions |->
                            IF p \in Pos..(ard.array_size - 1) THEN "NOROW"
                            ELSE mem.status[p]]
    <3>1. m = [mem EXCEPT !.status = status]
      BY <1>1, <2>1 DEF MarkRest, MemType
    <3>2. status \in [AllPositions -> Statuses]
      BY <1>1 DEF MemType, Statuses
    <3>3. \A p \in AllPositions : status[p] # mem.status[p] => p < ard.array_size
      BY <1>1, PositionsAre DEF Pos
    <3> HIDE DEF status
    <3>4. m \in MemType /\ m.rows = mem.rows /\ m.cells = mem.cells /\ m.status = status
      BY <1>1, <3>1, <3>2 DEF MemType
    <3> QED BY <2>1, <3>3, <3>4
  <2>2. CASE ~(ird.status_ptr /\ Pos < ard.array_size)
    <3>1. m = mem
      BY <2>2 DEF MarkRest
    <3> QED BY <1>1, <3>1
  <2> QED BY <2>1, <2>2
<1> HIDE DEF m
<1>3. mem'.cells = m.cells /\ mem'.status = m.status /\ (~ird.rows_ptr => mem'.rows = m.rows)
  BY <1>1, <1>2 DEF CountRows, MemType, m
<1> QED BY <1>2, <1>3 DEF Confined

LEMMA GetDataConfined == RowsetInv /\ GetData => Confined
<1> SUFFICES ASSUME RowsetInv, GetData PROVE Confined
  OBVIOUS
<1>1. ird \in IrdType /\ ard.array_size = 1 /\ 0 \in AllPositions
  BY RowsetAssumption DEF RowsetInv, Typed, GetData, AllPositions, Positions
<1>2. \/ mem' = Untouched
      \/ \E value \in {"ERROR", "INFO", "SUCCESS"} : mem' = SetStatus(Untouched, 0, value)
  <2> DEFINE copy(row, n, a) == CopyOneRow(Untouched, row, n, a, 0, TRUE).mem
  <2>1. ASSUME NEW row, NEW n, NEW a
        PROVE  \/ copy(row, n, a) = Untouched
               \/ copy(row, n, a) = SetStatus(Untouched, 0, "ERROR")
               \/ copy(row, n, a) = SetStatus(Untouched, 0, "INFO")
               \/ copy(row, n, a) = SetStatus(Untouched, 0, "SUCCESS")
    BY DEF CopyOneRow, SetRowDiag
  <2>2. \E row, n, a : mem' = copy(row, n, a)
    BY DEF GetData
  <2> QED BY <2>1, <2>2
<1>3. /\ mem'.rows = -1
      /\ \A c \in ArdCols, a \in Offsets \X AllPositions : mem'.cells[c][a] = OldCell
      /\ \A p \in AllPositions : mem'.status[p] # Old => ird.status_ptr /\ p = 0
  <2>1. CASE mem' = Untouched
    BY <2>1, UntouchedTyped
  <2>2. ASSUME NEW value \in {"ERROR", "INFO", "SUCCESS"},
               mem' = SetStatus(Untouched, 0, value)
        PROVE  /\ mem'.rows = -1 /\ mem'.cells = Untouched.cells
               /\ \A p \in AllPositions : mem'.status[p] # Old => ird.status_ptr /\ p = 0
    <3>1. value \in Statuses /\ Untouched \in MemType /\ Untouched.rows = -1
      BY UntouchedTyped DEF Statuses
    <3>2. /\ mem'.rows = -1 /\ mem'.cells = Untouched.cells
          /\ \A p \in AllPositions \ {0} : mem'.status[p] = Untouched.status[p]
          /\ mem'.status[0] = IF ird.status_ptr THEN value ELSE Untouched.status[0]
      BY <1>1, <2>2, <3>1, StatusSet
    <3> QED BY <1>1, <3>2, UntouchedTyped
  <2> QED BY <1>2, <2>1, <2>2, UntouchedTyped
<1> QED BY <1>1, <1>3 DEF Confined

\* A call writes to its own part of the application's memory only.
THEOREM WritesConfined == Spec => WritesOwnOnly
<1>1. RowsetInv /\ [Next]_vars => [Confined]_vars
  <2> SUFFICES ASSUME RowsetInv, Next PROVE Confined
    BY DEF vars
  <2>1. CASE Execute \/ Close \/ SetIrdPointer \/ SetArdHeader \/ BindCol \/ FetchBegin
    <3>1. mem' = Untouched
      BY <2>1 DEF Execute, Close, SetIrdPointer, SetArdHeader, BindCol, FetchBegin, Anew
    <3> QED BY <3>1, UntouchedTyped DEF Confined
  <2>2. CASE FetchTurn
    BY <2>2 DEF FetchTurn, Confined
  <2> QED BY <2>1, <2>2, RowConfined, EndConfined, GetDataConfined DEF Next
<1>2. WritesOwnOnly <=> [][Confined]_vars
  BY PTL DEF WritesOwnOnly, Confined
<1> QED BY <1>1, <1>2, RowsetKnown, PTL DEF Spec

=============================================================================
