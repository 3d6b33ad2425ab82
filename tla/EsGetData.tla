------------------------------ MODULE EsGetData -------------------------------
(***************************************************************************)
(* SQLGetData on the row the cursor is on: a text is handed over piece by  *)
(* piece, from an offset that the statement keeps between the calls        *)
(* (EsSQLGetData in src/driver/queries.c; transfer_xstr0, wstr_to_cstr and *)
(* sql2c_* in convert.c).                                                  *)
(*                                                                         *)
(* A value's text is the sequence of the widths that its UTF-16 units have *)
(* in UTF-8; a buffer's content is the range of bytes of the encoded text  *)
(* that it holds.  A timestamp's text is the one that it is translated to; *)
(* the answer has one character more, the time zone, and ApplyTZ is off.   *)
(* Surrogate pairs, doubles and intervals are left out.                    *)
(***************************************************************************)
EXTENDS Integers, Sequences

CONSTANTS
  Rows,           \* bound: the rows SQLFetch copies, each a sequence of values
  BufferLengths,  \* bound: the lengths of the application's buffers
  MaxLengths,     \* bound: the values of SQL_ATTR_MAX_LENGTH
  VarcharLimit,   \* the connection's VarcharLimit, 0 if it has none
  MinXfer         \* the characters of a timestamp that may not be cut, with \0:
                  \* as many as the shortest one has in the answer

Kinds == {"TEXT", "INTEGER", "TIMESTAMP", "NULL"}
Value == [kind : Kinds, text : Seq(1..3)]
CTypes == {"CHAR", "WCHAR", "SLONG"}

ASSUME RowsAssumption ==
  /\ Rows \subseteq Seq(Value)
  /\ \A row \in Rows : \A c \in 1..Len(row) :
       row[c].kind # "TEXT" => \A i \in 1..Len(row[c].text) : row[c].text[i] = 1
ASSUME LengthsAssumption ==
  /\ BufferLengths \subseteq Nat /\ MaxLengths \subseteq Nat
  /\ VarcharLimit \in Nat /\ MinXfer \in Nat

VARIABLES
  row,       \* the values in the IRD's records
  gd,        \* SQLGetData's column, type and offset
  attr,      \* the statement's attributes: max_length, array_size
  last,      \* the last call: its answer, and what it left in the buffer
  got,       \* history: the characters of gd's value the application has put
             \* together, or Garbled
  spoilt     \* history: a piece of gd's value was read under SQL_ATTR_MAX_LENGTH,
             \* or into a buffer that does not hold one character

vars == <<row, gd, attr, last, got, spoilt>>

NoGd == [col |-> -1, ctype |-> "none", offt |-> 0]
Exhausted == -1
Garbled == -1

-----------------------------------------------------------------------------
(* Texts and buffers.                                                      *)

Least(m, n) == IF m < n THEN m ELSE n

\* varchar_limit_apply(), of strings, which timestamps are in the answer too: the
\* limit cuts them before they are translated, which drops the last character,
\* whatever it is by then.
Shown(v) ==
  LET limited(n) == IF VarcharLimit > 0 THEN Least(VarcharLimit, n) ELSE n
      kept == IF v.kind = "TEXT" THEN limited(Len(v.text))
              ELSE IF v.kind = "TIMESTAMP" THEN limited(Len(v.text) + 1) - 1
              ELSE Len(v.text)
  IN  SubSeq(v.text, 1, kept)

\* The bytes that the first i characters of the value take as C type t; the one
\* after the last is the terminator.
CharSize(t) == IF t = "WCHAR" THEN 2 ELSE 1
Width(s, t, i) == IF t = "CHAR" /\ i <= Len(s) THEN s[i] ELSE CharSize(t)
Octets(s, t) ==
  LET o[i \in 0..(Len(s) + 1)] == IF i = 0 THEN 0 ELSE o[i - 1] + Width(s, t, i)
  IN  o

\* SQL_ATTR_MAX_LENGTH concerns character data only; 0 is no limit.
MaxLength(v) == IF v.kind = "TEXT" THEN attr.max_length ELSE 0

BuffOctetSizeNoRoom(avail, unit, room, max) ==
  LET max_copy == IF max \in 1..(avail - 1) THEN max ELSE avail
      size == Least(max_copy, room + 1)
  IN  [size |-> size - (size % unit), cut |-> room < max_copy]

\* The bytes to copy into a buffer, and whether the buffer is too small.
BuffOctetSize(avail, unit, room, max) ==
  LET max_copy == IF max \in 1..(avail - 1) THEN max ELSE avail
      size == Least(max_copy, room)
  IN  [size |-> size - (size % unit), cut |-> room < max_copy]

\* What a call does to the buffer: the characters it takes for transferred, the
\* bytes of the value in the buffer, and those written, with the terminator; also
\* whether it went by the byte in front of the buffer, and whether it wrote there.
Copied(xfed, bytes, written, term, cut) ==
  [xfed |-> xfed, bytes |-> bytes, written |-> written, term |-> term,
   cut |-> cut, astray |-> FALSE, before |-> FALSE]

NothingCopied(cut) == Copied(0, 0, 0, FALSE, cut)
Astray(xfed, cut, before) ==
  [xfed |-> xfed, bytes |-> 0, written |-> 0, term |-> FALSE, cut |-> cut,
   astray |-> TRUE, before |-> before]

\* transfer_xstr0(): the text from offset off on, which the driver has in the
\* encoding of the target.
TransferXstr0(v, t, off, room) ==
  LET cnt == Len(Shown(v)) - off
      sz == CharSize(t)
      b == BuffOctetSize((cnt + 1) * sz, sz, room, MaxLength(v))
      chars == b.size \div sz - 1
      term == b.cut \/ chars = cnt
  IN  IF b.size = 0 THEN {NothingCopied(b.cut)}
      ELSE {Copied(chars, IF term THEN chars * sz ELSE b.size, b.size, term, b.cut)}

\* wstr_to_cstr(): as many characters as fit are converted; if the terminator is
\* not among them, it replaces the last byte.  Where not even one fits, that is the
\* byte in front of the buffer, the code's assertion being off in a release: a 0
\* there stays, and nothing is transferred; any other is overwritten with 0, and
\* -1 characters count as all of them.
WstrToCstr(v, off, room) ==
  LET o == Octets(Shown(v), "CHAR")
      cnt == Len(Shown(v)) - off
      b == BuffOctetSize(o[off + cnt + 1] - o[off], 1, room, MaxLength(v))
      fit == {c \in 1..(cnt + 1) : o[off + c] - o[off] <= b.size}
      bytes(c) == o[off + c] - o[off]
      all(c) == Copied(cnt, bytes(c) - 1, bytes(c), TRUE, b.cut)
      some(c) == Copied(c - 1, bytes(c) - 1, bytes(c), TRUE, TRUE)
  IN  IF b.size = 0 THEN {NothingCopied(b.cut)}
      ELSE IF fit = {} THEN {Astray(0, b.cut, FALSE), Astray(cnt, TRUE, TRUE)}
      ELSE {IF c = cnt + 1 THEN all(c) ELSE some(c)
              : c \in {n \in fit : \A m \in fit : m <= n}}

TransfersCountCut(v, t, off, room) ==
  {IF r.cut /\ r.written > 0 THEN [r EXCEPT !.xfed = @ + 1] ELSE r
     : r \in IF t = "CHAR" /\ v.kind # "INTEGER" THEN WstrToCstr(v, off, room)
             ELSE TransferXstr0(v, t, off, room)}

\* Integers are printed in the target's encoding, strings converted to it.
Transfers(v, t, off, room) ==
  IF t = "CHAR" /\ v.kind # "INTEGER" THEN WstrToCstr(v, off, room)
  ELSE TransferXstr0(v, t, off, room)

GdOffsetUpdateAtEnd(v, off, r) ==
  IF r.written > 0 /\ Len(Shown(v)) - off <= r.xfed THEN Exhausted ELSE off

\* gd_offset_update(): not called if nothing was copied.
GdOffsetUpdate(v, off, r) ==
  IF r.written = 0 /\ r.xfed = 0 THEN off
  ELSE IF Len(Shown(v)) - off <= r.xfed THEN Exhausted ELSE off + r.xfed

OctetLengthOfAll(v, t, off) == Octets(Shown(v), t)[Len(Shown(v))]

\* write_out_octets(): what is left of the text, or the limit.
OctetLength(v, t, off) ==
  LET o == Octets(Shown(v), t)
      max == MaxLength(v)
  IN  IF max > 0 THEN max ELSE o[Len(Shown(v))] - o[off]

\* What the application has after the bytes that it finds in the buffer.
PutTogether(v, t, from, off, bytes) ==
  LET o == Octets(Shown(v), t)
      whole == {i \in off..Len(Shown(v)) : o[i] <= o[off] + bytes}
  IN  IF bytes = 0 THEN from
      ELSE IF from # off THEN Garbled
      ELSE CHOOSE i \in whole : \A j \in whole : j <= i

-----------------------------------------------------------------------------
(* The calls.                                                              *)

NoPiece ==
  [room |-> 0, max |-> 0, bytes |-> 0, written |-> 0, term |-> FALSE, before |-> FALSE,
   octets |-> 0, from |-> 0]
Answer(a) == [answer |-> a, piece |-> NoPiece]

Init ==
  /\ row \in Rows
  /\ gd = NoGd
  /\ attr = [max_length |-> 0, array_size |-> 1]
  /\ last = Answer("none")
  /\ got = 0 /\ spoilt = FALSE

FetchKeepsOffset ==
  /\ row' \in Rows
  /\ last' = Answer("none")
  /\ UNCHANGED <<gd, attr, got, spoilt>>

\* EsSQLFetch() of one row: STMT_GD_RESET.
Fetch ==
  /\ row' \in Rows
  /\ gd' = NoGd
  /\ last' = Answer("none")
  /\ got' = 0 /\ spoilt' = FALSE
  /\ UNCHANGED attr

\* EsSQLSetStmtAttrW() of SQL_ATTR_MAX_LENGTH and SQL_ATTR_ROW_ARRAY_SIZE.
SetAttr ==
  /\ \/ \E n \in MaxLengths : attr' = [attr EXCEPT !.max_length = n]
     \/ \E n \in {1, 2} : attr' = [attr EXCEPT !.array_size = n]
  /\ UNCHANGED <<row, gd, last, got, spoilt>>

Resuming(c, t) == gd.col = c /\ gd.ctype = t

GetDataExhausted(c, t) ==
  /\ Resuming(c, t) /\ gd.offt = Exhausted
  /\ last' = Answer("no data")
  /\ UNCHANGED <<row, gd, attr, got, spoilt>>

FailsResetsColumn ==
  /\ gd' = [gd EXCEPT !.col = -1]
  /\ last' = Answer("error")
  /\ got' = 0 /\ spoilt' = FALSE
  /\ UNCHANGED <<row, attr>>

\* Every failure resets the state, but for that of getdata_set_ard(), which the
\* descriptor it makes cannot cause: the statement takes any ARD.
Fails ==
  /\ gd' = NoGd
  /\ last' = Answer("error")
  /\ got' = 0 /\ spoilt' = FALSE
  /\ UNCHANGED <<row, attr>>

\* gd_checks(), of a value that is not being read already.
GdChecks(c) == attr.array_size = 1 /\ c >= 1

GetDataRefused(c, t) == ~Resuming(c, t) /\ ~GdChecks(c) /\ Fails

Available(c, t) ==
  /\ c \in 1..Len(row)
  /\ IF Resuming(c, t) THEN gd.offt # Exhausted ELSE GdChecks(c)

\* The offset, and what the application has of the value, when a call starts.
Offset(c, t) == IF Resuming(c, t) THEN gd.offt ELSE 0
From(c, t) == IF Resuming(c, t) THEN got ELSE 0
WasSpoilt(c, t) == Resuming(c, t) /\ spoilt

\* convertability_check(), for the types here.
Convertible(v, t) == v.kind = "TIMESTAMP" => t # "SLONG"
IsPieced(v, t) == v.kind # "NULL" /\ t # "SLONG"

\* translate_timestamp_iso8601_to_sql(): what is left of it is long enough.
Translatable(v) == v.kind = "TIMESTAMP" => Len(Shown(v)) + 1 >= MinXfer

\* A NULL without a pointer to indicate it at, a text that is no number, a
\* timestamp that the limit has cut too short.
GetDataFails(c, t, ind) ==
  /\ Available(c, t)
  /\ \/ ~Convertible(row[c], t)
     \/ row[c].kind = "NULL" /\ ~ind
     \/ row[c].kind = "TEXT" /\ t = "SLONG"
     \/ IsPieced(row[c], t) /\ ~Translatable(row[c])
  /\ Fails

\* A number, or NULL: the offset stays, and so the next call repeats it.
GetDataFixed(c, t, ind) ==
  /\ Available(c, t)
  /\ ~IsPieced(row[c], t) /\ Convertible(row[c], t) /\ (row[c].kind = "NULL" => ind)
  /\ gd' = [col |-> c, ctype |-> t, offt |-> Offset(c, t)]
  /\ last' = Answer("fixed")
  /\ got' = From(c, t) /\ spoilt' = WasSpoilt(c, t)
  /\ UNCHANGED <<row, attr>>

\* wstr_to_string(): only a timestamp's fraction may be cut, in a piece or not.
TooShort(v, t, room) ==
  /\ v.kind = "TIMESTAMP"
  /\ LET all == (Len(Shown(v)) + 1) * CharSize(t)
     IN  BuffOctetSize(all, CharSize(t), room, 0).size < MinXfer * CharSize(t)

GetDataPiece(c, t, room) ==
  /\ Available(c, t) /\ IsPieced(row[c], t) /\ Translatable(row[c])
  /\ LET v == row[c]
         off == Offset(c, t)
         from == From(c, t)
     IN  \E r \in Transfers(v, t, off, room) :
           IF r.cut /\ TooShort(v, t, room) THEN Fails
           ELSE /\ gd' = [col |-> c, ctype |-> t, offt |-> GdOffsetUpdate(v, off, r)]
                /\ last' = [answer |-> IF r.cut THEN "some" ELSE "all",
                            piece |-> [room |-> room, max |-> MaxLength(v),
                                       bytes |-> r.bytes, written |-> r.written,
                                       term |-> r.term, before |-> r.before,
                                       octets |-> OctetLength(v, t, off),
                                       from |-> from]]
                /\ got' = PutTogether(v, t, from, off, r.bytes)
                /\ spoilt' = (WasSpoilt(c, t) \/ MaxLength(v) > 0 \/ r.astray)
                /\ UNCHANGED <<row, attr>>

Next ==
  \/ Fetch \/ SetAttr
  \/ \E c \in 0..Len(row), t \in CTypes :
       \/ GetDataExhausted(c, t) \/ GetDataRefused(c, t)
       \/ \E ind \in BOOLEAN : GetDataFails(c, t, ind) \/ GetDataFixed(c, t, ind)
       \/ \E room \in BufferLengths : GetDataPiece(c, t, room)

Spec == Init /\ [][Next]_vars

-----------------------------------------------------------------------------
(* Properties.                                                             *)

\* A statement reads a column as a type or nothing at all: the three members of
\* SQLGetData's state are set and reset together (STMT_GD_RESET).
TypeOK ==
  /\ row \in Rows
  /\ gd \in [col : {-1} \cup 1..Len(row), ctype : CTypes \cup {"none"},
             offt : {Exhausted} \cup Nat]
  /\ gd.col = -1 <=> gd.ctype = "none"
  /\ attr \in [max_length : MaxLengths \cup {0}, array_size : {1, 2}]
  /\ last \in [answer : {"none", "no data", "error", "fixed", "some", "all"},
               piece : [room : Nat, max : Nat, bytes : Nat, written : Nat,
                        term : BOOLEAN, before : BOOLEAN,
                        octets : Nat, from : {Garbled} \cup Nat]]
  /\ got \in {Garbled} \cup Nat /\ spoilt \in BOOLEAN

\* The offset is in the text of the value it is for: what gd_offset_apply()
\* asserts of the next call, whatever was fetched or asked for in between.
OffsetInValue ==
  IF gd.col = -1 THEN gd.offt = 0
  ELSE gd.offt = Exhausted \/ gd.offt <= Len(Shown(row[gd.col]))

IsPiece == last.answer \in {"some", "all"}
Being == row[gd.col]
Encoded == Octets(Shown(Being), gd.ctype)

\* A piece stays within the application's buffer, with its terminator
\* (buff_octet_size, transfer_xstr0, wstr_to_cstr).  The byte in front of the
\* buffer is the application's too, and is kept wherever the buffer, and the limit
\* if there is one, have room for the widest character; where one has less, down
\* to a byte, wstr_to_cstr() may overwrite it against its own assertion.
PieceInBuffer ==
  LET p == last.piece
  IN  /\ p.written <= p.room
      /\ p.written > 0 /\ ~spoilt => p.term
      /\ p.before => p.room \in 1..2 \/ p.max \in 1..2

\* The length a call reports is what the value has beyond that which the
\* application has put together from the pieces before (write_out_octets, which
\* goes by the offset).
LengthAddsUp ==
  IsPiece /\ ~spoilt =>
    Encoded[last.piece.from] + last.piece.octets = Encoded[Len(Shown(Being))]

\* A call with room for two of the widest characters moves on, so a loop of calls
\* for more ends.  Room for one and the terminator is not enough: it takes the
\* place of that character (wstr_to_cstr).
PieceAdvances ==
  last.answer = "some" /\ ~spoilt /\ last.piece.room >= 2 * 3 => got > last.piece.from

Whole == INSTANCE Pieces WITH
  None <- <<-1, "none">>,
  item <- <<gd.col, gd.ctype>>,
  total <- IF IsPiece \/ last.answer = "no data" THEN Len(Shown(Being)) ELSE 0,
  answer <- last.answer

\* The pieces, put together, are the value: no character is lost between two
\* calls, the return code tells the last piece, and there is no data after it.
ImplementsPieces == Whole!Spec

\* "last char was overwritten with 0 -> dec xfed count": the terminator takes the
\* place of a character, and a piece consists of whole characters.
PieceIsWhole ==
  IsPiece /\ ~spoilt => last.piece.bytes = Encoded[got] - Encoded[last.piece.from]

=============================================================================
