---------------------------- MODULE EsStmtProofs ----------------------------
(***************************************************************************)
(* Proofs about EsStmt, for every number of rows, page size, row set size, *)
(* set of types and conversion table.                                      *)
(***************************************************************************)
EXTENDS EsStmt, TLAPS

-----------------------------------------------------------------------------
(* The inductive invariant.                                                *)

\* Without an answer there is no cursor, no counted row, no SQLGetData state.
Unopened(s) == s.rset = EmptyRset /\ s.tv_rows = 0 /\ s.gd.ctype = NoType

WellFormed(s) ==
  /\ s \in StmtType
  /\ s.rset.lo <= s.rset.hi
  /\ ~s.rset.body => Unopened(s)

SrvType == [open : BOOLEAN, total : Nat, unheld : BOOLEAN]

\* What the requests to the server have to keep between the two.
Held(s, w) == w.open => HasCursor(s) \/ w.unheld

-----------------------------------------------------------------------------
(* What closing and attaching do to a statement.                           *)

\* Closing keeps the statement well-formed and empties it; the query, the
\* early execution flag, the bindings and the row set size stay (clear_desc).
LEMMA ClearIrdEffect ==
  ASSUME NEW s, WellFormed(s)
  PROVE  /\ ClearIrd(s) \in StmtType /\ Unopened(ClearIrd(s))
         /\ ClearIrd(s).u8sql = s.u8sql /\ ClearIrd(s).early = s.early
         /\ ClearIrd(s).ird = InitIrd
         /\ ClearIrd(s).conv = s.conv /\ ClearIrd(s).bound = s.bound
         /\ ClearIrd(s).unflagged = s.unflagged
         /\ ClearIrd(s).array_size = s.array_size
<1> DEFINE c == ClearResultset(s, TRUE)
<1>1. ASSUME s.rset.body
      PROVE  /\ c \in StmtType /\ Unopened(c)
             /\ c.u8sql = s.u8sql /\ c.early = s.early
             /\ c.conv = s.conv /\ c.bound = s.bound
             /\ c.unflagged = s.unflagged /\ c.array_size = s.array_size
  BY DEF WellFormed, Unopened, ClearResultset, StmtType,
         EmptyRset, NoGd, NoCursor, NoRow, Released, Refs
<1> HIDE DEF c
<1>2. CASE s.rset.body
  BY <1>1, <1>2 DEF ClearIrd, c, StmtType, InitIrd, Refs, Unopened
<1>3. CASE ~s.rset.body
  BY <1>3 DEF ClearIrd, WellFormed, Unopened, StmtType, InitIrd, Refs
<1> QED BY <1>2, <1>3

\* An answer, as the driver gets it.
IsAnswer(a) ==
  a \in [page : [lo : Nat, hi : Nat, more : BOOLEAN], form : AllFaults \cup {"ok"},
         cols : ColTypes \cup {NoType}]
  /\ a.page.lo <= a.page.hi

\* Pages begin where they were asked to and go forward.
LEMMA PagesForward ==
  ASSUME NEW lo \in Nat, NEW total \in Nat, NEW p \in Pages(lo, total)
  PROVE  p \in [lo : Nat, hi : Nat, more : BOOLEAN] /\ p.lo = lo /\ lo <= p.hi
  BY BoundsAssumption DEF Pages

\* The answers to a query and to a cursor are answers from the right row on.
LEMMA AnswersTyped ==
  ASSUME NEW pos \in Nat, NEW total \in Nat
  PROVE  /\ \A a \in QueryAnswers(total) :
              IsAnswer(a) /\ a.page.lo = 0 /\ a.form \in Forms
         /\ \A a \in ContinueAnswers(pos, total) :
              IsAnswer(a) /\ a.page.lo = pos /\ a.form \in Forms
<1>1. Forms \subseteq AllFaults \cup {"ok"}
  BY DEF Forms, AllFaults
<1>2. ASSUME NEW a \in QueryAnswers(total)
      PROVE  IsAnswer(a) /\ a.page.lo = 0 /\ a.form \in Forms
  <2>1. PICK p \in Pages(0, total), f \in Forms, c \in ColTypes :
           a = Answer(p, f, IF f = "nocols" THEN NoType ELSE c)
    BY <1>2 DEF QueryAnswers
  <2>2. p \in [lo : Nat, hi : Nat, more : BOOLEAN] /\ p.lo = 0 /\ 0 <= p.hi
    BY PagesForward
  <2> QED BY <1>1, <2>1, <2>2 DEF IsAnswer, Answer
<1>3. ASSUME NEW a \in ContinueAnswers(pos, total)
      PROVE  IsAnswer(a) /\ a.page.lo = pos /\ a.form \in Forms
  <2>1. PICK p \in Pages(pos, total), f \in Forms, c \in ColTypes :
           a = Answer(p, f, IF f = "colsagain" THEN c ELSE NoType)
    BY <1>3 DEF ContinueAnswers
  <2>2. p \in [lo : Nat, hi : Nat, more : BOOLEAN] /\ p.lo = pos /\ pos <= p.hi
    BY PagesForward
  <2> QED BY <1>1, <2>1, <2>2 DEF IsAnswer, Answer
<1> QED BY <1>2, <1>3

\* What every request leaves of the statement as it was.
Keeps(s, t) ==
  /\ t.u8sql = s.u8sql /\ t.early = s.early /\ t.bound = s.bound
  /\ t.unflagged = s.unflagged /\ t.array_size = s.array_size
  /\ t.tv_rows = s.tv_rows

\* An attached answer is the statement's result set from then on, usable or
\* not, and SQLGetData's state is gone (attach_answer).
LEMMA AttachAnswerEffect ==
  ASSUME NEW s, WellFormed(s), NEW a, IsAnswer(a)
  PROVE  LET t == AttachAnswer(s, a) IN
         /\ WellFormed(t) /\ Keeps(s, t)
         /\ t.rset.body /\ t.gd.ctype = NoType
         /\ t.rset = AttachRows(s, a).rset
         /\ Attaches(s, a) => t.ird.cols # NoType
         /\ s.ird.cols # NoType => t.ird.cols = s.ird.cols
         /\ t.conv \in {s.conv, "UNCHECKED"}
         /\ s.ird.cols = NoType /\ t.ird.cols # NoType /\ a.form # "badcols"
              => t.conv = "UNCHECKED"
<1> DEFINE c == IF s.rset.body THEN ClearResultset(s, FALSE) ELSE s
           r == AttachRows(c, a)
           columns == a.form # "garbage" /\ a.cols # NoType /\ s.ird.cols = NoType
           n == IF columns THEN AttachColumns(r, a) ELSE r
           t == AttachAnswer(s, a)
<1>1. /\ c \in StmtType /\ Keeps(s, c)
      /\ c.gd.ctype = NoType /\ c.conv = s.conv /\ c.ird.cols = s.ird.cols
  <2>1. CASE s.rset.body
    <3> DEFINE d == ClearResultset(s, FALSE)
    <3>1. /\ d \in StmtType /\ Keeps(s, d)
          /\ d.gd.ctype = NoType /\ d.conv = s.conv /\ d.ird.cols = s.ird.cols
      BY DEF WellFormed, ClearResultset, StmtType, Keeps,
             EmptyRset, NoGd, NoCursor, NoRow, Released, Refs
    <3> QED BY <2>1, <3>1
  <2>2. CASE ~s.rset.body
    BY <2>2 DEF WellFormed, Unopened, Keeps
  <2> QED BY <2>1, <2>2
<1> DEFINE R == IF a.form = "garbage"
                THEN [EmptyRset EXCEPT !.body = TRUE]
                ELSE [body |-> TRUE, forced |-> a.page.hi = a.page.lo,
                      lo |-> a.page.lo, hi |-> a.page.hi,
                      curs |-> IF a.page.more THEN a.page.hi ELSE NoCursor]
<1>r. /\ R \in [body : BOOLEAN, forced : BOOLEAN,
                lo : Nat, hi : Nat, curs : Nat \cup {NoCursor}]
      /\ R.body /\ R.lo <= R.hi
  <2>1. CASE a.form = "garbage"
    <3>1. R = [body |-> TRUE, forced |-> FALSE, lo |-> 0, hi |-> 0, curs |-> NoCursor]
      BY <2>1 DEF EmptyRset
    <3> HIDE DEF R
    <3> QED BY <3>1
  <2>2. CASE a.form # "garbage"
    <3> DEFINE f == a.page.hi = a.page.lo
    <3>1. a.page.lo \in Nat /\ a.page.hi \in Nat /\ a.page.lo <= a.page.hi
      BY DEF IsAnswer
    <3>2. f \in BOOLEAN
      OBVIOUS
    <3>3. R = [body |-> TRUE, forced |-> f, lo |-> a.page.lo, hi |-> a.page.hi,
               curs |-> IF a.page.more THEN a.page.hi ELSE NoCursor]
      BY <2>2
    <3> HIDE DEF R, f
    <3> QED BY <3>1, <3>2, <3>3
  <2> QED BY <2>1, <2>2
<1> HIDE DEF c
<1>2. /\ r \in StmtType /\ Keeps(s, r) /\ r.rset = AttachRows(s, a).rset
      /\ r.rset.body /\ r.rset.lo <= r.rset.hi
      /\ r.gd.ctype = NoType /\ r.conv = s.conv /\ r.ird.cols = s.ird.cols
  <2>1. r = [c EXCEPT !.rset = R] /\ AttachRows(s, a) = [s EXCEPT !.rset = R]
    BY DEF AttachRows
  <2> HIDE DEF r, R
  <2>2. AttachRows(s, a).rset = R
    BY <2>1 DEF WellFormed, StmtType
  <2> QED BY <1>1, <1>r, <2>1, <2>2 DEF StmtType, Keeps
<1> HIDE DEF r, R
<1>3. /\ n \in StmtType /\ Keeps(s, n) /\ n.rset = r.rset
      /\ n.gd.ctype = NoType /\ n.conv = s.conv
      /\ n.ird.cols = IF columns THEN a.cols ELSE s.ird.cols
  <2>1. CASE columns
    <3> DEFINE k == AttachColumns(r, a)
    <3>1. /\ k \in StmtType /\ Keeps(r, k) /\ k.rset = r.rset
          /\ k.gd = r.gd /\ k.conv = r.conv /\ k.ird.cols = a.cols
      BY <1>2 DEF AttachColumns, StmtType, Keeps, Refs, IsAnswer
    <3> HIDE DEF k
    <3> QED BY <1>2, <2>1, <3>1 DEF Keeps, k
  <2>2. CASE ~columns
    BY <1>2, <2>2
  <2> QED BY <2>1, <2>2
<1>4. t = IF columns /\ Attaches(s, a) THEN [n EXCEPT !.conv = "UNCHECKED"] ELSE n
  BY DEF AttachAnswer, c, r
<1> HIDE DEF n, t
<1>5. /\ t \in StmtType /\ Keeps(s, t) /\ t.rset = r.rset
      /\ t.gd.ctype = NoType /\ t.ird = n.ird
      /\ t.conv = IF columns /\ Attaches(s, a) THEN "UNCHECKED" ELSE s.conv
  BY <1>3, <1>4 DEF StmtType, Keeps
<1>6. WellFormed(t)
  BY <1>2, <1>5 DEF WellFormed
<1> QED BY <1>2, <1>3, <1>5, <1>6 DEF t, Attaches

-----------------------------------------------------------------------------
(* What a request does to the statement and to the server.                 *)

\* The row the next page has to begin after.
From(s) == IF HasCursor(s) THEN s.rset.curs ELSE 0

IsOutcome(o, s, w) ==
  \/ o = Refused(s, w)
  \/ \E p \in [lo : Nat, hi : Nat, more : BOOLEAN], n \in Nat : o = Late(s, w, p, n)
  \/ \E a : \E n \in Nat :
       /\ IsAnswer(a) /\ a.page.lo = From(s) /\ a.form \in Forms
       /\ o = Served(s, a, n)

\* A request is refused, or served from the right row on, with its answer
\* used or lost (serialize_statement, curl_post).
LEMMA RequestCases ==
  ASSUME NEW s, WellFormed(s), NEW w \in SrvType, NEW o \in Request(s, w)
  PROVE  IsOutcome(o, s, w)
<1>1. CASE HasCursor(s)
  <2>1. From(s) = s.rset.curs /\ s.rset.curs \in Nat
    BY <1>1 DEF From, HasCursor, WellFormed, StmtType
  <2>2. w.total \in Nat
    BY DEF SrvType
  <2>3. \/ o = Refused(s, w)
        \/ \E p \in Pages(s.rset.curs, w.total) : o = Late(s, w, p, w.total)
        \/ \E a \in ContinueAnswers(s.rset.curs, w.total) : o = Served(s, a, w.total)
    BY <1>1 DEF Request
  <2>4. \A p \in Pages(s.rset.curs, w.total) :
          p \in [lo : Nat, hi : Nat, more : BOOLEAN]
    BY <2>1, <2>2, PagesForward
  <2>5. \A a \in ContinueAnswers(s.rset.curs, w.total) :
          IsAnswer(a) /\ a.page.lo = From(s) /\ a.form \in Forms
    BY <2>1, <2>2, AnswersTyped
  <2> QED BY <2>2, <2>3, <2>4, <2>5 DEF IsOutcome
<1>2. CASE ~HasCursor(s)
  <2>1. From(s) = 0 /\ 0..MaxRows \subseteq Nat
    BY <1>2 DEF From
  <2>2. \/ o = Refused(s, w)
        \/ \E n \in 0..MaxRows : \E p \in Pages(0, n) : o = Late(s, w, p, n)
        \/ \E n \in 0..MaxRows : \E a \in QueryAnswers(n) : o = Served(s, a, n)
    BY <1>2 DEF Request
  <2>3. \A n \in 0..MaxRows : \A p \in Pages(0, n) :
          p \in [lo : Nat, hi : Nat, more : BOOLEAN]
    BY <2>1, PagesForward
  <2>4. \A n \in 0..MaxRows : \A a \in QueryAnswers(n) :
          IsAnswer(a) /\ a.page.lo = From(s) /\ a.form \in Forms
    <3> SUFFICES ASSUME NEW n \in 0..MaxRows, NEW a \in QueryAnswers(n)
                 PROVE  IsAnswer(a) /\ a.page.lo = From(s) /\ a.form \in Forms
      OBVIOUS
    <3> QED BY <2>1, AnswersTyped
  <2> QED BY <2>1, <2>2, <2>3, <2>4 DEF IsOutcome
<1> QED BY <1>1, <1>2

\* Whatever comes of a request, the statement stays well-formed and keeps its
\* query, bindings and count of rows, and the server's context has a holder.
LEMMA RequestEffect ==
  ASSUME NEW s, WellFormed(s), NEW w \in SrvType, Held(s, w),
         NEW o, IsOutcome(o, s, w)
  PROVE  /\ WellFormed(o.s) /\ Keeps(s, o.s)
         /\ o.w \in SrvType /\ Held(o.s, o.w) /\ o.ok \in BOOLEAN
         /\ o.ok => o.s.rset.body /\ o.s.ird.cols # NoType
         /\ s.rset.body => o.s.rset.body
         /\ s.ird.cols # NoType => o.s.ird.cols = s.ird.cols
         /\ o.s = s \/ o.s.gd.ctype = NoType
         /\ ~HasCursor(s) /\ s.rset.lo = 0 => o.s.rset.lo = 0
<1>1. CASE o = Refused(s, w)
  BY <1>1 DEF Refused, Outcome, Keeps
<1>2. CASE \E p \in [lo : Nat, hi : Nat, more : BOOLEAN], n \in Nat : o = Late(s, w, p, n)
  <2> PICK p \in [lo : Nat, hi : Nat, more : BOOLEAN], n \in Nat : o = Late(s, w, p, n)
    BY <1>2
  <2>1. o.s = s /\ o.ok = FALSE
        /\ o.w = [open |-> p.more, total |-> n,
                  unheld |-> p.more /\ (w.unheld \/ ~HasCursor(s))]
    BY DEF Late, Outcome
  <2>2. o.w \in SrvType /\ Held(s, o.w)
    BY <2>1 DEF SrvType, Held
  <2> QED BY <2>1, <2>2 DEF Keeps
<1>3. CASE \E a : \E n \in Nat :
             /\ IsAnswer(a) /\ a.page.lo = From(s) /\ a.form \in Forms
             /\ o = Served(s, a, n)
  <2> PICK a : \E n \in Nat : /\ IsAnswer(a) /\ a.page.lo = From(s)
                              /\ o = Served(s, a, n)
    BY <1>3
  <2> PICK n \in Nat : IsAnswer(a) /\ a.page.lo = From(s) /\ o = Served(s, a, n)
    OBVIOUS
  <2>1. /\ o.s = AttachAnswer(s, a) /\ o.ok = Attaches(s, a)
        /\ o.w = [open |-> a.page.more, total |-> n,
                  unheld |-> a.page.more /\ a.form = "garbage"]
    BY DEF Served, Outcome
  <2>2. o.w \in SrvType
    BY <2>1 DEF SrvType, IsAnswer
  <2>3. Held(o.s, o.w)
    <3>1. ASSUME o.w.open, ~o.w.unheld
          PROVE  HasCursor(o.s)
      <4>0. a.form # "garbage" /\ a.page.more
        <5>1. o.w.open = a.page.more
          BY <2>1
        <5>2. o.w.unheld = (a.page.more /\ a.form = "garbage")
          BY <2>1
        <5> QED BY <3>1, <5>1, <5>2
      <4>1. AttachRows(s, a).rset.curs = a.page.hi
        BY <4>0 DEF AttachRows, WellFormed, StmtType
      <4> QED BY <2>1, <4>1, AttachAnswerEffect DEF HasCursor, NoCursor, IsAnswer
    <3> QED BY <3>1 DEF Held
  <2>4. o.ok \in BOOLEAN
    <3>1. CASE a.cols = NoType
      <4>1. o.ok = (a.form # "garbage" /\ s.ird.cols # NoType)
        BY <2>1, <3>1 DEF Attaches
      <4> QED BY <4>1
    <3>2. CASE a.cols # NoType
      <4>1. o.ok = (/\ a.form # "garbage"
                    /\ s.ird.cols = NoType /\ a.form # "badcols")
        BY <2>1, <3>2 DEF Attaches
      <4> QED BY <4>1
    <3> QED BY <3>1, <3>2
  <2>5. ASSUME ~HasCursor(s)
        PROVE  o.s.rset.lo = 0
    <3>1. AttachRows(s, a).rset.lo = 0
      BY <2>5 DEF AttachRows, From, EmptyRset, WellFormed, StmtType
    <3> QED BY <2>1, <3>1, AttachAnswerEffect
  <2> QED BY <2>1, <2>2, <2>3, <2>4, <2>5, AttachAnswerEffect
<1> QED BY <1>1, <1>2, <1>3 DEF IsOutcome

\* Once the early execution flag is seen to, an execution is a request.
LEMMA ExecuteEffect ==
  ASSUME NEW s, WellFormed(s), NEW w \in SrvType, Held(s, w),
         s.early /\ s.rset.body => s.ird.cols # NoType,
         NEW o \in Execute(s, w)
  PROVE  LET t == [s EXCEPT !.early = FALSE] IN
         /\ WellFormed(o.s) /\ Keeps(t, o.s)
         /\ o.w \in SrvType /\ Held(o.s, o.w) /\ o.ok \in BOOLEAN
         /\ o.ok => o.s.rset.body /\ o.s.ird.cols # NoType
         /\ s.rset.body => o.s.rset.body
         /\ s.ird.cols # NoType => o.s.ird.cols = s.ird.cols
         /\ o.s = t \/ o.s.gd.ctype = NoType
         /\ ~HasCursor(s) /\ s.rset.lo = 0 => o.s.rset.lo = 0
<1> DEFINE t == [s EXCEPT !.early = FALSE]
<1>1. /\ t \in StmtType /\ t.rset = s.rset /\ t.ird = s.ird /\ t.gd = s.gd
      /\ t.tv_rows = s.tv_rows
  BY DEF WellFormed, StmtType
<1>2. WellFormed(t) /\ Held(t, w) /\ (HasCursor(t) <=> HasCursor(s))
  BY <1>1 DEF WellFormed, Unopened, Held, HasCursor
<1>3. CASE s.early /\ s.rset.body
  <2>1. o = Outcome(t, w, TRUE)
    BY <1>3 DEF Execute
  <2>2. o.s = t /\ o.w = w /\ o.ok = TRUE
    BY <2>1 DEF Outcome
  <2> HIDE DEF t
  <2> QED BY <1>1, <1>2, <1>3, <2>2 DEF Keeps, t
<1>4. CASE ~(s.early /\ s.rset.body)
  <2>1. o \in Request(t, w)
    BY <1>4 DEF Execute
  <2> HIDE DEF t
  <2>2. IsOutcome(o, t, w)
    BY <1>2, <2>1, RequestCases
  <2>3. /\ WellFormed(o.s) /\ Keeps(t, o.s)
        /\ o.w \in SrvType /\ Held(o.s, o.w) /\ o.ok \in BOOLEAN
        /\ o.ok => o.s.rset.body /\ o.s.ird.cols # NoType
        /\ t.rset.body => o.s.rset.body
        /\ t.ird.cols # NoType => o.s.ird.cols = t.ird.cols
        /\ o.s = t \/ o.s.gd.ctype = NoType
        /\ ~HasCursor(t) /\ t.rset.lo = 0 => o.s.rset.lo = 0
    BY <1>2, <2>2, RequestEffect
  <2> QED BY <1>1, <1>2, <2>3 DEF t
<1> QED BY <1>3, <1>4

-----------------------------------------------------------------------------
(* The calls' own parts.                                                   *)

\* Closing the cursor on the server leaves nothing open there that is not
\* accounted for (close_es_cursor).
LEMMA AfterCloseEffect ==
  ASSUME NEW s, NEW w \in SrvType, Held(s, w), NEW heard \in BOOLEAN
  PROVE  /\ AfterClose(s, w, heard) \in SrvType
         /\ \A u : Held(u, AfterClose(s, w, heard))
<1>1. CASE ~HasCursor(s)
  BY <1>1 DEF AfterClose, Held
<1>2. CASE HasCursor(s) /\ heard
  BY <1>2 DEF AfterClose, Held, SrvType
<1>3. CASE HasCursor(s) /\ ~heard
  BY <1>3 DEF AfterClose, Held, SrvType
<1> QED BY <1>1, <1>2, <1>3

\* A statement without an answer is well-formed.
LEMMA UnopenedWellFormed ==
  ASSUME NEW s \in StmtType, Unopened(s)
  PROVE  WellFormed(s) /\ ~HasCursor(s) /\ s.rset.lo = 0 /\ ~s.rset.body
BY DEF WellFormed, Unopened, EmptyRset, HasCursor

\* A closed statement holds no answer and no columns (ESODBC_SQL_CLOSE,
\* attach_sql).
LEMMA ClosedEffect ==
  ASSUME NEW s, WellFormed(s)
  PROVE  /\ WellFormed(FreeStmtClose(s)) /\ Unopened(FreeStmtClose(s))
         /\ FreeStmtClose(s).u8sql = s.u8sql
         /\ WellFormed(FreeStmtEsClose(s)) /\ Unopened(FreeStmtEsClose(s))
         /\ LET t == AttachSql(FreeStmtEsClose(s)) IN
              /\ WellFormed(t) /\ Unopened(t) /\ t.u8sql = TRUE /\ t.early = FALSE
<1>1. WellFormed(ClearIrd(s))
  BY ClearIrdEffect, UnopenedWellFormed
<1>2. WellFormed(DetachSql(s))
  BY DEF WellFormed, Unopened, DetachSql, StmtType
<1> DEFINE c == FreeStmtEsClose(s)
<1>3. c \in StmtType /\ Unopened(c)
  BY <1>2, ClearIrdEffect DEF FreeStmtEsClose
<1>4. WellFormed(c)
  BY <1>3, UnopenedWellFormed
<1> HIDE DEF c
<1>5. /\ AttachSql(c) \in StmtType /\ AttachSql(c).u8sql = TRUE
      /\ AttachSql(c).early = FALSE /\ Unopened(AttachSql(c))
  BY <1>3 DEF AttachSql, StmtType, Unopened
<1>6. WellFormed(AttachSql(c))
  BY <1>5, UnopenedWellFormed
<1> QED BY <1>1, <1>3, <1>4, <1>5, <1>6, ClearIrdEffect DEF FreeStmtClose, c

-----------------------------------------------------------------------------
(* The inductive invariant: what TypeOK and the safety properties need to  *)
(* know of each other to be kept by every step.                            *)

\* The Driver Manager's state goes with what the statement holds.
StatesAgree ==
  /\ dm.st = "S0" => ~dm.prep /\ ~HasCursor(stmt)
  /\ CursorOpen => stmt.rset.body /\ stmt.ird.cols # NoType /\ ~stmt.early
  /\ stmt.early /\ stmt.rset.body => stmt.ird.cols # NoType
  /\ call.on => CursorOpen
  /\ Idle => call = NoCall

\* The running SQLFetch has unpacked each row it has not counted as an error.
ReadsAgree ==
  call.on => /\ ~app.onrow
             /\ call.i > call.errors /\ stmt.array_size = 1
                  => stmt.ird.ival = "live"

Consistent ==
  /\ TypeOK /\ WellFormed(stmt) /\ StatesAgree /\ ReadsAgree
  /\ PreparedKeepsQuery /\ EarlyResultUntouched /\ ServerContextHeld
  /\ GetDataOnCurrentRow /\ RowValuesLive

\* The statement and the Driver Manager's state as a call may leave them.
Matches(s, d) ==
  /\ d.st = "S0" => ~HasCursor(s)
  /\ d.prep => s.u8sql /\ d.st # "S0"
  /\ d.st \in {"S5", "S6"} => s.rset.body /\ s.ird.cols # NoType /\ ~s.early
  /\ s.early => /\ d.st \in {"S1", "S3"}
                /\ s.rset.body => /\ s.ird.cols # NoType
                                  /\ s.rset.lo = 0 /\ s.tv_rows = 0
  /\ s.gd.ctype # NoType => s.rset.body /\ s.gd.row = s.tv_rows

DmType == [st : {"S0", "S1", "S3", "S5", "S6"}, prep : BOOLEAN]

\* The invariant says of a statement what a call may rely on.
LEMMA ConsistentMatches ==
  ASSUME Consistent
  PROVE  Matches(stmt, dm) /\ Held(stmt, srv) /\ srv \in SrvType /\ dm \in DmType
BY DEF Consistent, Matches, Held, StatesAgree, PreparedKeepsQuery,
       EarlyResultUntouched, GetDataOnCurrentRow, ServerContextHeld, CursorOpen,
       TypeOK, SrvType, DmType

\* A call that returns with the statement, the server's context and the
\* Driver Manager's state matching keeps the invariant.
LEMMA ReturnedConsistent ==
  ASSUME Consistent, Idle, NEW rc \in Codes, Returns(rc),
         WellFormed(stmt'), srv' \in SrvType, Held(stmt', srv'), dm' \in DmType,
         Matches(stmt', dm')
  PROVE  Consistent'
<1>1. call' = NoCall /\ early_exec' = early_exec
      /\ app' = [rc |-> rc, rows |-> <<>>, onrow |-> FALSE, read |-> "none"]
  <2>1. call = NoCall
    BY DEF Consistent, StatesAgree
  <2>2. app' = [NoApp EXCEPT !.rc = rc]
    BY DEF Returns
  <2> QED BY <2>1, <2>2 DEF Returns, NoApp
<1>2. TypeOK'
  <2>1. call' \in [on : BOOLEAN, i : Nat, errors : Nat, rows : Seq(Nat)]
    BY <1>1 DEF NoCall
  <2>2. app' \in [rc : Codes, rows : Seq(Nat), onrow : BOOLEAN, read : Refs]
    BY <1>1 DEF Refs
  <2>3. call'.i <= stmt'.array_size
    <3>1. stmt'.array_size \in ArraySizes
      BY DEF WellFormed, StmtType
    <3>2. stmt'.array_size \in Nat
      BY <3>1, BoundsAssumption
    <3>3. call'.i = 0
      BY <1>1 DEF NoCall
    <3> QED BY <3>2, <3>3
  <2> QED BY <1>1, <2>1, <2>2, <2>3 DEF TypeOK, WellFormed, Consistent, SrvType, DmType
<1>3. ~call'.on /\ ~app'.onrow
  BY <1>1 DEF NoCall
<1>4. StatesAgree' /\ ReadsAgree' /\ RowValuesLive'
  BY <1>1, <1>3 DEF StatesAgree, ReadsAgree, RowValuesLive, Matches, CursorOpen, Idle
<1>5. PreparedKeepsQuery' /\ EarlyResultUntouched' /\ ServerContextHeld'
      /\ GetDataOnCurrentRow'
  BY <1>3 DEF PreparedKeepsQuery, EarlyResultUntouched, ServerContextHeld,
              GetDataOnCurrentRow, Matches, Held
<1> QED BY <1>2, <1>4, <1>5 DEF Consistent

-----------------------------------------------------------------------------
(* One lemma for each call, or two that are close.                         *)

\* SQLPrepare, executing early or not, keeps the invariant (EsSQLPrepareW).
LEMMA PrepareConsistent == Consistent /\ Prepare => Consistent'
<1> SUFFICES ASSUME Consistent, Prepare PROVE Consistent'
  OBVIOUS
<1> PICK heard \in BOOLEAN, markers \in BOOLEAN :
      LET s == AttachSql(FreeStmtEsClose(stmt))
          w == AfterClose(stmt, srv, heard)
      IN  \/ /\ ~early_exec \/ markers
             /\ stmt' = s /\ srv' = w
             /\ dm' = [st |-> "S3", prep |-> TRUE]
             /\ Returns("SUCCESS")
          \/ /\ early_exec /\ ~markers
             /\ \E o \in Execute(s, w) :
                  /\ stmt' = [o.s EXCEPT !.early = o.ok]
                  /\ srv' = o.w
                  /\ dm' = [st |-> IF o.ok THEN "S3" ELSE "S1", prep |-> o.ok]
                  /\ Returns(Code(o.ok))
  BY DEF Prepare
<1> DEFINE s == AttachSql(FreeStmtEsClose(stmt))
           w == AfterClose(stmt, srv, heard)
<1>1. /\ WellFormed(s) /\ Unopened(s) /\ s.u8sql = TRUE /\ s.early = FALSE
      /\ ~HasCursor(s) /\ s.rset.lo = 0 /\ ~s.rset.body /\ s.tv_rows = 0
      /\ s.gd.ctype = NoType
  <2>1. WellFormed(s) /\ Unopened(s) /\ s.u8sql = TRUE /\ s.early = FALSE
    BY ClosedEffect DEF Consistent
  <2> HIDE DEF s
  <2> QED BY <2>1, UnopenedWellFormed DEF WellFormed, Unopened
<1>2. w \in SrvType /\ \A u : Held(u, w)
  BY ConsistentMatches, AfterCloseEffect
<1>3. Idle
  BY DEF Prepare
<1> HIDE DEF s, w
<1>4. CASE /\ stmt' = s /\ srv' = w
           /\ dm' = [st |-> "S3", prep |-> TRUE]
           /\ Returns("SUCCESS")
  <2>1. Matches(stmt', dm') /\ dm' \in DmType /\ "SUCCESS" \in Codes
    BY <1>1, <1>4 DEF Matches, DmType, Codes
  <2> QED BY <1>1, <1>2, <1>3, <1>4, <2>1, ReturnedConsistent
<1>5. CASE \E o \in Execute(s, w) :
             /\ stmt' = [o.s EXCEPT !.early = o.ok]
             /\ srv' = o.w
             /\ dm' = [st |-> IF o.ok THEN "S3" ELSE "S1", prep |-> o.ok]
             /\ Returns(Code(o.ok))
  <2> PICK o \in Execute(s, w) :
             /\ stmt' = [o.s EXCEPT !.early = o.ok]
             /\ srv' = o.w
             /\ dm' = [st |-> IF o.ok THEN "S3" ELSE "S1", prep |-> o.ok]
             /\ Returns(Code(o.ok))
    BY <1>5
  <2>1. /\ WellFormed(o.s) /\ Keeps([s EXCEPT !.early = FALSE], o.s)
        /\ o.w \in SrvType /\ Held(o.s, o.w) /\ o.ok \in BOOLEAN
        /\ o.ok => o.s.rset.body /\ o.s.ird.cols # NoType
        /\ o.s = [s EXCEPT !.early = FALSE] \/ o.s.gd.ctype = NoType
        /\ o.s.rset.lo = 0
    BY <1>1, <1>2, ExecuteEffect
  <2>2. o.s.u8sql = TRUE /\ o.s.tv_rows = 0 /\ o.s.gd.ctype = NoType
    BY <1>1, <2>1 DEF Keeps, WellFormed, StmtType
  <2>3. /\ stmt' \in StmtType /\ stmt'.early = o.ok /\ stmt'.u8sql = TRUE
        /\ stmt'.rset = o.s.rset /\ stmt'.ird = o.s.ird /\ stmt'.gd = o.s.gd
        /\ stmt'.tv_rows = 0
    BY <2>1, <2>2 DEF WellFormed, StmtType
  <2>4. WellFormed(stmt') /\ Held(stmt', srv')
    BY <2>1, <2>2, <2>3 DEF WellFormed, Unopened, Held, HasCursor
  <2>5. dm' \in DmType /\ Code(o.ok) \in Codes
    BY <2>1 DEF DmType, Code, Codes
  <2>6. Matches(stmt', dm')
    <3>1. CASE o.ok
      BY <2>1, <2>2, <2>3, <3>1 DEF Matches
    <3>2. CASE ~o.ok
      BY <2>1, <2>2, <2>3, <3>2 DEF Matches
    <3> QED BY <3>1, <3>2
  <2> QED BY <1>3, <2>1, <2>4, <2>5, <2>6, ReturnedConsistent
<1> QED BY <1>4, <1>5 DEF s, w

\* So does a SQLPrepare or SQLExecDirect that cannot attach its query.
LEMMA AttachSqlFailsConsistent == Consistent /\ AttachSqlFails => Consistent'
<1> SUFFICES ASSUME Consistent, AttachSqlFails PROVE Consistent'
  OBVIOUS
<1> DEFINE s == FreeStmtEsClose(stmt)
<1>1. WellFormed(s) /\ Unopened(s)
  BY ClosedEffect DEF Consistent
<1>2. stmt' = s /\ Idle /\ Returns("ERROR") /\ dm' = [st |-> "S1", prep |-> FALSE]
  BY DEF AttachSqlFails
<1> HIDE DEF s
<1>3. srv' \in SrvType /\ Held(stmt', srv')
  BY ConsistentMatches, AfterCloseEffect DEF AttachSqlFails
<1>4. Matches(stmt', dm') /\ dm' \in DmType /\ "ERROR" \in Codes
  BY <1>1, <1>2, UnopenedWellFormed DEF WellFormed, Unopened, Matches, DmType, Codes
<1> QED BY <1>1, <1>2, <1>3, <1>4, ReturnedConsistent

\* SQLExecDirect keeps the invariant, whatever comes of its request.
LEMMA ExecDirectConsistent == Consistent /\ ExecDirect => Consistent'
<1> SUFFICES ASSUME Consistent, ExecDirect PROVE Consistent'
  OBVIOUS
<1> PICK heard \in BOOLEAN :
      \E o \in Execute(AttachSql(FreeStmtEsClose(stmt)), AfterClose(stmt, srv, heard)) :
        /\ stmt' = DetachSql(o.s) /\ srv' = o.w
        /\ dm' = [st |-> IF o.ok THEN "S5" ELSE "S1", prep |-> FALSE]
        /\ Returns(Code(o.ok))
  BY DEF ExecDirect
<1> DEFINE s == AttachSql(FreeStmtEsClose(stmt))
           w == AfterClose(stmt, srv, heard)
<1>1. WellFormed(s) /\ Unopened(s) /\ s.early = FALSE
  BY ClosedEffect DEF Consistent
<1>2. w \in SrvType /\ Held(s, w)
  BY ConsistentMatches, AfterCloseEffect
<1>3. Idle
  BY DEF ExecDirect
<1> HIDE DEF s, w
<1> PICK o \in Execute(s, w) :
      /\ stmt' = DetachSql(o.s) /\ srv' = o.w
      /\ dm' = [st |-> IF o.ok THEN "S5" ELSE "S1", prep |-> FALSE]
      /\ Returns(Code(o.ok))
  BY DEF s, w
<1>4. /\ WellFormed(o.s) /\ Keeps([s EXCEPT !.early = FALSE], o.s)
      /\ o.w \in SrvType /\ Held(o.s, o.w) /\ o.ok \in BOOLEAN
      /\ o.ok => o.s.rset.body /\ o.s.ird.cols # NoType
      /\ o.s = [s EXCEPT !.early = FALSE] \/ o.s.gd.ctype = NoType
  BY <1>1, <1>2, ExecuteEffect
<1>5. o.s.early = FALSE /\ o.s.gd.ctype = NoType
  BY <1>1, <1>4 DEF Keeps, WellFormed, StmtType, Unopened
<1>6. /\ stmt' \in StmtType /\ stmt'.early = FALSE
      /\ stmt'.rset = o.s.rset /\ stmt'.ird = o.s.ird /\ stmt'.gd = o.s.gd
      /\ stmt'.tv_rows = o.s.tv_rows
  BY <1>4, <1>5 DEF DetachSql, WellFormed, StmtType
<1>7. WellFormed(stmt') /\ Held(stmt', srv')
  BY <1>4, <1>6 DEF WellFormed, Unopened, Held, HasCursor
<1>8. dm' \in DmType /\ Code(o.ok) \in Codes /\ dm'.prep = FALSE
      /\ (dm'.st \in {"S5", "S6"} => o.ok)
  BY <1>4 DEF DmType, Code, Codes
<1>9. Matches(stmt', dm')
  BY <1>4, <1>5, <1>6, <1>8 DEF Matches
<1> QED BY <1>3, <1>4, <1>7, <1>8, <1>9, ReturnedConsistent

\* SQLExecute keeps it: of an early executed query, or with a request.
LEMMA ExecutePreparedConsistent == Consistent /\ ExecutePrepared => Consistent'
<1> SUFFICES ASSUME Consistent, ExecutePrepared PROVE Consistent'
  OBVIOUS
<1> PICK o \in Execute(stmt, srv) :
      /\ stmt' = o.s /\ srv' = o.w
      /\ dm' = [dm EXCEPT !.st = IF o.ok THEN "S5" ELSE "S3"]
      /\ Returns(Code(o.ok))
  BY DEF ExecutePrepared
<1> DEFINE t == [stmt EXCEPT !.early = FALSE]
<1>1. /\ Matches(stmt, dm) /\ Held(stmt, srv) /\ srv \in SrvType /\ dm \in DmType
      /\ WellFormed(stmt)
  BY ConsistentMatches DEF Consistent
<1>2. /\ WellFormed(o.s) /\ Keeps(t, o.s)
      /\ o.w \in SrvType /\ Held(o.s, o.w) /\ o.ok \in BOOLEAN
      /\ o.ok => o.s.rset.body /\ o.s.ird.cols # NoType
      /\ stmt.rset.body => o.s.rset.body
      /\ o.s = t \/ o.s.gd.ctype = NoType
  BY <1>1, ExecuteEffect DEF Matches
<1>3. /\ o.s.early = FALSE /\ o.s.u8sql = stmt.u8sql /\ o.s.tv_rows = stmt.tv_rows
      /\ o.s.gd.ctype # NoType => o.s.gd = stmt.gd
  BY <1>1, <1>2 DEF Keeps, WellFormed, StmtType
<1>4. dm' \in DmType /\ dm'.prep = dm.prep /\ dm'.st \in {"S3", "S5"}
      /\ (dm'.st = "S5" => o.ok) /\ Code(o.ok) \in Codes /\ Idle
  <2> DEFINE st == IF o.ok THEN "S5" ELSE "S3"
  <2>2. st \in {"S3", "S5"} /\ (st = "S5" => o.ok)
    BY <1>2
  <2>3. dm' = [dm EXCEPT !.st = st]
    OBVIOUS
  <2> HIDE DEF st
  <2> QED BY <1>1, <1>2, <2>2, <2>3 DEF ExecutePrepared, DmType, Code, Codes
<1>5. Matches(stmt', dm')
  BY <1>1, <1>2, <1>3, <1>4 DEF Matches
<1> QED BY <1>2, <1>4, <1>5, ReturnedConsistent

\* Closing keeps it, heard by the server or not (SQL_CLOSE, SQLCloseCursor).
LEMMA CloseConsistent == Consistent /\ (CloseCursor \/ FreeStmt) => Consistent'
<1> SUFFICES ASSUME Consistent, CloseCursor \/ FreeStmt PROVE Consistent'
  OBVIOUS
<1>1. /\ Matches(stmt, dm) /\ Held(stmt, srv) /\ srv \in SrvType /\ dm \in DmType
      /\ WellFormed(stmt)
  BY ConsistentMatches DEF Consistent
<1>2. Idle /\ dm.st # "S0" /\ Close
  BY DEF CloseCursor, FreeStmt, CursorOpen
<1>3. /\ WellFormed(stmt') /\ Unopened(stmt') /\ stmt'.u8sql = stmt.u8sql
  BY <1>1, <1>2, ClosedEffect DEF Close
<1>4. srv' \in SrvType /\ Held(stmt', srv')
  BY <1>1, <1>2, AfterCloseEffect DEF Close
<1>5. dm' \in DmType /\ dm'.prep = dm.prep /\ dm'.st \in {"S1", "S3"}
  <2>1. dm' = [dm EXCEPT !.st = IF dm.prep THEN "S3" ELSE "S1"]
    BY <1>2 DEF Close
  <2> QED BY <1>1, <2>1 DEF DmType
<1>6. ~stmt'.rset.body /\ stmt'.gd.ctype = NoType
  BY <1>3, UnopenedWellFormed DEF Unopened, EmptyRset
<1>7. Matches(stmt', dm')
  BY <1>1, <1>3, <1>5, <1>6 DEF Matches
<1> QED BY <1>2, <1>3, <1>4, <1>5, <1>7, ReturnedConsistent DEF Close, Codes

\* What init_stmt() leaves is well-formed and holds nothing.
LEMMA InitStmtFresh ==
  /\ WellFormed(InitStmt) /\ Unopened(InitStmt)
  /\ InitStmt.early = FALSE /\ ~HasCursor(InitStmt)
<1>1. 1 \in ArraySizes
  BY BoundsAssumption
<1>2. InitStmt \in StmtType
  BY <1>1 DEF InitStmt, StmtType, InitIrd, EmptyRset, NoGd, NoCursor, NoRow, Refs
<1>3. Unopened(InitStmt) /\ InitStmt.early = FALSE
  BY DEF InitStmt, Unopened, NoGd
<1> QED BY <1>2, <1>3, UnopenedWellFormed

\* Freeing the handle and allocating it again keep it.
LEMMA HandleConsistent == Consistent /\ (FreeHandle \/ AllocHandle) => Consistent'
<1> SUFFICES ASSUME Consistent, FreeHandle \/ AllocHandle PROVE Consistent'
  OBVIOUS
<1>1. Held(stmt, srv) /\ srv \in SrvType /\ dm \in DmType
  BY ConsistentMatches
<1>2. stmt' = InitStmt /\ Returns("SUCCESS") /\ "SUCCESS" \in Codes
  BY DEF FreeHandle, AllocHandle, Codes
<1>3. WellFormed(stmt') /\ stmt'.early = FALSE /\ stmt'.gd.ctype = NoType
      /\ ~HasCursor(stmt')
  BY <1>2, InitStmtFresh DEF Unopened
<1>4. CASE FreeHandle
  <2>1. srv' \in SrvType /\ Held(stmt', srv')
    BY <1>1, <1>4, AfterCloseEffect DEF FreeHandle
  <2>2. dm' = [st |-> "S0", prep |-> FALSE] /\ Idle
    BY <1>4 DEF FreeHandle
  <2>3. dm' \in DmType /\ Matches(stmt', dm')
    BY <1>3, <2>2 DEF DmType, Matches
  <2> QED BY <1>2, <1>3, <2>1, <2>2, <2>3, ReturnedConsistent
<1>5. CASE AllocHandle
  <2>1. dm.st = "S0" /\ dm' = [dm EXCEPT !.st = "S1"] /\ srv' = srv
    BY <1>5 DEF AllocHandle
  <2>2. ~dm.prep /\ Idle /\ Held(stmt', srv')
    <3>1. ~dm.prep /\ ~call.on
      BY <2>1 DEF Consistent, StatesAgree, CursorOpen
    <3>2. ~HasCursor(stmt)
      BY <2>1 DEF Consistent, StatesAgree
    <3> QED BY <1>1, <2>1, <3>1, <3>2 DEF Idle, Held
  <2>3. dm' \in DmType /\ Matches(stmt', dm')
    BY <1>1, <1>3, <2>1, <2>2 DEF DmType, Matches
  <2> QED BY <1>1, <1>2, <1>3, <2>1, <2>2, <2>3, ReturnedConsistent
<1> QED BY <1>4, <1>5

\* Binding and statement attributes leave alone all that the invariant is
\* about.
LEMMA RebindConsistent ==
  ASSUME Consistent, Idle, NEW s \in StmtType, Rebinds(s),
         s.u8sql = stmt.u8sql, s.early = stmt.early, s.rset = stmt.rset,
         s.ird = stmt.ird, s.tv_rows = stmt.tv_rows, s.gd = stmt.gd
  PROVE  Consistent'
<1>1. stmt' = s /\ UNCHANGED <<early_exec, dm, srv, call, app>>
  BY DEF Rebinds
<1>2. call = NoCall /\ ~call.on
  BY DEF Consistent, StatesAgree, Idle
<1>3. WellFormed(stmt')
  BY <1>1 DEF Consistent, WellFormed, Unopened
<1>4. call'.i <= stmt'.array_size
  <2>1. stmt'.array_size \in Nat
    BY <1>1, BoundsAssumption DEF StmtType
  <2>2. call'.i = 0
    BY <1>1, <1>2 DEF NoCall
  <2> QED BY <2>1, <2>2
<1>5. TypeOK'
  BY <1>1, <1>3, <1>4 DEF Consistent, TypeOK, WellFormed
<1>6. StatesAgree' /\ ReadsAgree' /\ RowValuesLive'
  BY <1>1, <1>2 DEF Consistent, StatesAgree, ReadsAgree, RowValuesLive,
                    CursorOpen, HasCursor, Idle
<1>7. PreparedKeepsQuery' /\ EarlyResultUntouched' /\ ServerContextHeld'
      /\ GetDataOnCurrentRow'
  BY <1>1 DEF Consistent, PreparedKeepsQuery, EarlyResultUntouched,
              ServerContextHeld, GetDataOnCurrentRow, HasCursor
<1> QED BY <1>3, <1>5, <1>6, <1>7 DEF Consistent

\* Binding, unbinding and resizing the row set keep it.
LEMMA BindingConsistent ==
  Consistent /\ (BindCol \/ Unbind \/ BindUnflagged \/ SetArraySize) => Consistent'
<1> SUFFICES ASSUME Consistent, BindCol \/ Unbind \/ BindUnflagged \/ SetArraySize
             PROVE  Consistent'
  OBVIOUS
<1>1. stmt \in StmtType
  BY DEF Consistent, TypeOK
<1>2. CASE BindCol
  <2> PICK c \in CTypes :
        Rebinds([stmt EXCEPT !.bound = c, !.unflagged = FALSE, !.conv = "UNCHECKED"])
    BY <1>2 DEF BindCol
  <2> DEFINE s == [stmt EXCEPT !.bound = c, !.unflagged = FALSE, !.conv = "UNCHECKED"]
  <2>1. /\ s \in StmtType /\ s.u8sql = stmt.u8sql /\ s.early = stmt.early
        /\ s.rset = stmt.rset /\ s.ird = stmt.ird /\ s.tv_rows = stmt.tv_rows
        /\ s.gd = stmt.gd
    BY <1>1 DEF StmtType
  <2>2. Rebinds(s) /\ Idle
    BY <1>2 DEF BindCol
  <2> HIDE DEF s
  <2> QED BY <2>1, <2>2, RebindConsistent
<1>3. CASE Unbind
  <2> DEFINE s == [stmt EXCEPT !.bound = NoType]
  <2>1. /\ s \in StmtType /\ s.u8sql = stmt.u8sql /\ s.early = stmt.early
        /\ s.rset = stmt.rset /\ s.ird = stmt.ird /\ s.tv_rows = stmt.tv_rows
        /\ s.gd = stmt.gd
    BY <1>1 DEF StmtType
  <2>2. Rebinds(s) /\ Idle
    BY <1>3 DEF Unbind
  <2> HIDE DEF s
  <2> QED BY <2>1, <2>2, RebindConsistent
<1>4. CASE BindUnflagged
  <2> PICK c \in CTypes : Rebinds([stmt EXCEPT !.bound = c, !.unflagged = TRUE])
    BY <1>4 DEF BindUnflagged
  <2> DEFINE s == [stmt EXCEPT !.bound = c, !.unflagged = TRUE]
  <2>1. /\ s \in StmtType /\ s.u8sql = stmt.u8sql /\ s.early = stmt.early
        /\ s.rset = stmt.rset /\ s.ird = stmt.ird /\ s.tv_rows = stmt.tv_rows
        /\ s.gd = stmt.gd
    BY <1>1 DEF StmtType
  <2>2. Rebinds(s) /\ Idle
    BY <1>4 DEF BindUnflagged
  <2> HIDE DEF s
  <2> QED BY <2>1, <2>2, RebindConsistent
<1>5. CASE SetArraySize
  <2> PICK n \in ArraySizes : Rebinds([stmt EXCEPT !.array_size = n])
    BY <1>5 DEF SetArraySize
  <2> DEFINE s == [stmt EXCEPT !.array_size = n]
  <2>1. /\ s \in StmtType /\ s.u8sql = stmt.u8sql /\ s.early = stmt.early
        /\ s.rset = stmt.rset /\ s.ird = stmt.ird /\ s.tv_rows = stmt.tv_rows
        /\ s.gd = stmt.gd
    BY <1>1 DEF StmtType
  <2>2. Rebinds(s) /\ Idle
    BY <1>5 DEF SetArraySize
  <2> HIDE DEF s
  <2> QED BY <2>1, <2>2, RebindConsistent
<1> QED BY <1>2, <1>3, <1>4, <1>5

\* The conversion flag, checked, is one of its values (convertability_check).
LEMMA CheckedTyped ==
  ASSUME NEW s \in StmtType, s.ird.cols # NoType
  PROVE  Checked(s) \in {"UNCHECKED", "SUPPORTED", "VIOLATION", "UNSUPPORTED"}
<1>1. ASSUME s.bound # NoType
      PROVE  Conv[s.ird.cols, s.bound] \in {"SUPPORTED", "VIOLATION", "UNSUPPORTED"}
  <2>1. <<s.ird.cols, s.bound>> \in ColTypes \X CTypes
    BY <1>1 DEF StmtType
  <2> QED BY <2>1, TypesAssumption
<1> QED BY <1>1 DEF Checked, Convertible, StmtType

\* A SQLFetch that its conversion check refuses keeps the invariant.
LEMMA FetchRefusedConsistent == Consistent /\ FetchRefused => Consistent'
<1> SUFFICES ASSUME Consistent, FetchRefused PROVE Consistent'
  OBVIOUS
<1>1. /\ Matches(stmt, dm) /\ Held(stmt, srv) /\ srv \in SrvType /\ dm \in DmType
      /\ WellFormed(stmt)
  BY ConsistentMatches DEF Consistent
<1>2. /\ Idle /\ Returns("ERROR") /\ srv' = srv /\ dm' = dm
      /\ stmt' = [stmt EXCEPT !.conv = Checked(stmt)]
  BY DEF FetchRefused
<1>3. stmt.ird.cols # NoType
  BY DEF FetchRefused, Consistent, StatesAgree
<1>4. Checked(stmt) \in {"UNCHECKED", "SUPPORTED", "VIOLATION", "UNSUPPORTED"}
  BY <1>1, <1>3, CheckedTyped DEF WellFormed
<1>5. /\ stmt' \in StmtType /\ stmt'.u8sql = stmt.u8sql /\ stmt'.early = stmt.early
      /\ stmt'.rset = stmt.rset /\ stmt'.ird = stmt.ird
      /\ stmt'.tv_rows = stmt.tv_rows /\ stmt'.gd = stmt.gd
  BY <1>1, <1>2, <1>4 DEF WellFormed, StmtType
<1>6. WellFormed(stmt') /\ Held(stmt', srv') /\ Matches(stmt', dm')
  BY <1>1, <1>2, <1>5 DEF WellFormed, Unopened, Held, Matches, HasCursor
<1> QED BY <1>1, <1>2, <1>6, ReturnedConsistent DEF Codes

\* A SQLFetch that begins drops SQLGetData's state and keeps the invariant.
LEMMA FetchBeginConsistent == Consistent /\ FetchBegin => Consistent'
<1> SUFFICES ASSUME Consistent, FetchBegin PROVE Consistent'
  OBVIOUS
<1>1. /\ stmt' = [stmt EXCEPT !.conv = Checked(stmt), !.gd = NoGd]
      /\ call' = [NoCall EXCEPT !.on = TRUE]
      /\ app' = NoApp /\ UNCHANGED <<early_exec, dm, srv>>
      /\ CursorOpen /\ Checked(stmt) = "SUPPORTED"
  BY DEF FetchBegin
<1>2. WellFormed(stmt) /\ stmt \in StmtType
  BY DEF Consistent, WellFormed
<1>3. /\ stmt' \in StmtType /\ stmt'.u8sql = stmt.u8sql /\ stmt'.early = stmt.early
      /\ stmt'.rset = stmt.rset /\ stmt'.ird = stmt.ird
      /\ stmt'.tv_rows = stmt.tv_rows /\ stmt'.gd.ctype = NoType
      /\ stmt'.array_size = stmt.array_size
  BY <1>1, <1>2 DEF StmtType, NoGd, NoRow
<1>4. call' = [on |-> TRUE, i |-> 0, errors |-> 0, rows |-> <<>>]
  BY <1>1 DEF NoCall
<1>5. app' = [rc |-> "SUCCESS", rows |-> <<>>, onrow |-> FALSE, read |-> "none"]
  BY <1>1 DEF NoApp
<1>6. WellFormed(stmt')
  BY <1>2, <1>3 DEF WellFormed, Unopened
<1>7. TypeOK'
  <2>1. call' \in [on : BOOLEAN, i : Nat, errors : Nat, rows : Seq(Nat)]
    BY <1>2, <1>4 DEF StmtType
  <2>2. app' \in [rc : Codes, rows : Seq(Nat), onrow : BOOLEAN, read : Refs]
    BY <1>5 DEF Codes, Refs
  <2>3. call'.i <= stmt'.array_size
    <3>1. stmt'.array_size \in Nat
      BY <1>3, BoundsAssumption DEF StmtType
    <3> QED BY <1>4, <3>1
  <2> QED BY <1>1, <1>3, <1>6, <2>1, <2>2, <2>3 DEF TypeOK, WellFormed, Consistent
<1>8. call'.on = TRUE /\ call'.i = 0 /\ call'.errors = 0 /\ app'.onrow = FALSE
  BY <1>4, <1>5
<1>9. StatesAgree' /\ ReadsAgree' /\ RowValuesLive'
  BY <1>1, <1>3, <1>8 DEF Consistent, StatesAgree, ReadsAgree, RowValuesLive,
                          CursorOpen, HasCursor, Idle
<1>10. PreparedKeepsQuery' /\ EarlyResultUntouched' /\ ServerContextHeld'
       /\ GetDataOnCurrentRow'
  BY <1>1, <1>3 DEF Consistent, PreparedKeepsQuery, EarlyResultUntouched,
                    ServerContextHeld, GetDataOnCurrentRow, HasCursor
<1> QED BY <1>6, <1>7, <1>9, <1>10 DEF Consistent

CallType == [on : BOOLEAN, i : Nat, errors : Nat, rows : Seq(Nat)]
AppType == [rc : Codes, rows : Seq(Nat), onrow : BOOLEAN, read : Refs]

\* A row that is taken is copied, or counted as an error.
Taken(ival, e, r) ==
  /\ stmt' = [stmt EXCEPT !.rset.lo = @ + 1, !.tv_rows = @ + 1, !.ird.ival = ival]
  /\ call' = [call EXCEPT !.i = call.i + 1, !.errors = e, !.rows = r]
  /\ \/ ival = "live" /\ e = call.errors /\ r = Append(call.rows, stmt.rset.lo + 1)
     \/ e = call.errors + 1 /\ r = call.rows

LEMMA RowTaken ==
  ASSUME Consistent, FetchRow
  PROVE  \E ival \in Refs, e \in Nat, r \in Seq(Nat) : Taken(ival, e, r)
<1> PICK outcome \in RowOutcomes(stmt) :
      /\ call' = IF outcome = "copied"
                 THEN [call EXCEPT !.i = @ + 1, !.rows = Append(@, stmt.rset.lo + 1)]
                 ELSE [call EXCEPT !.i = @ + 1, !.errors = @ + 1]
      /\ \E ival \in IF outcome = "malformed" THEN {stmt.ird.ival, "live"}
                                              ELSE {"live"} :
           stmt' = [stmt EXCEPT !.rset.lo = @ + 1, !.tv_rows = @ + 1,
                                !.ird.ival = ival]
  BY DEF FetchRow
<1>1. /\ call \in CallType /\ stmt.rset.lo \in Nat /\ stmt.ird.ival \in Refs
      /\ call.errors \in Nat /\ call.rows \in Seq(Nat)
  BY DEF Consistent, TypeOK, StmtType, CallType
<1>2. CASE outcome = "copied"
  <2>1. call' = [call EXCEPT !.i = call.i + 1, !.errors = call.errors,
                             !.rows = Append(call.rows, stmt.rset.lo + 1)]
    BY <1>1, <1>2 DEF CallType
  <2>2. Append(call.rows, stmt.rset.lo + 1) \in Seq(Nat)
    BY <1>1
  <2>3. Taken("live", call.errors, Append(call.rows, stmt.rset.lo + 1))
    BY <1>2, <2>1 DEF Taken
  <2> QED BY <1>1, <2>2, <2>3 DEF Refs
<1>3. CASE outcome # "copied"
  <2>1. PICK ival \in Refs :
          stmt' = [stmt EXCEPT !.rset.lo = @ + 1, !.tv_rows = @ + 1, !.ird.ival = ival]
    BY <1>1 DEF Refs
  <2>2. call' = [call EXCEPT !.i = call.i + 1, !.errors = call.errors + 1,
                             !.rows = call.rows]
    BY <1>1, <1>3 DEF CallType
  <2>3. Taken(ival, call.errors + 1, call.rows) /\ call.errors + 1 \in Nat
    BY <1>1, <2>1, <2>2 DEF Taken
  <2> QED BY <1>1, <2>3
<1> QED BY <1>2, <1>3

\* Taking a row moves the page and the count together and keeps it.
LEMMA FetchRowConsistent == Consistent /\ FetchRow => Consistent'
<1> SUFFICES ASSUME Consistent, FetchRow PROVE Consistent'
  OBVIOUS
<1> PICK ival \in Refs, e \in Nat, r \in Seq(Nat) : Taken(ival, e, r)
  BY RowTaken
<1>1. /\ stmt' = [stmt EXCEPT !.rset.lo = @ + 1, !.tv_rows = @ + 1,
                              !.ird.ival = ival]
      /\ UNCHANGED <<early_exec, dm, srv, app>>
      /\ call.on /\ call.i < stmt.array_size /\ stmt.rset.lo # stmt.rset.hi
  BY DEF FetchRow, RowsWanted, PageEmpty, Taken
<1>2. /\ stmt \in StmtType /\ stmt.rset.lo <= stmt.rset.hi /\ call \in CallType
      /\ CursorOpen /\ stmt.rset.body /\ stmt.ird.cols # NoType /\ stmt.early = FALSE
      /\ stmt.gd.ctype = NoType /\ stmt.array_size \in Nat /\ app.onrow = FALSE
  <2>1. stmt.early \in BOOLEAN /\ app.onrow \in BOOLEAN /\ stmt.array_size \in Nat
    BY BoundsAssumption DEF Consistent, TypeOK, StmtType
  <2> QED BY <1>1, <2>1 DEF Consistent, TypeOK, WellFormed, StatesAgree, ReadsAgree,
                            GetDataOnCurrentRow, CallType
<1>3. /\ stmt' \in StmtType /\ stmt'.u8sql = stmt.u8sql /\ stmt'.early = FALSE
      /\ stmt'.rset.body /\ stmt'.rset.curs = stmt.rset.curs
      /\ stmt'.rset.lo <= stmt'.rset.hi
      /\ stmt'.ird.cols = stmt.ird.cols /\ stmt'.ird.ival = ival
      /\ stmt'.gd.ctype = NoType /\ stmt'.array_size = stmt.array_size
  <2> DEFINE R == [stmt.rset EXCEPT !.lo = stmt.rset.lo + 1]
             I == [stmt.ird EXCEPT !.ival = ival]
             n == stmt.tv_rows + 1
  <2>1. /\ R \in [body : BOOLEAN, forced : BOOLEAN, lo : Nat,
                  hi : Nat, curs : Nat \cup {NoCursor}]
        /\ R.body /\ R.curs = stmt.rset.curs /\ R.lo <= R.hi
    <3>1. stmt.rset \in [body : BOOLEAN, forced : BOOLEAN, lo : Nat,
                        hi : Nat, curs : Nat \cup {NoCursor}]
      BY <1>2 DEF StmtType
    <3>2. stmt.rset.lo \in Nat /\ stmt.rset.hi \in Nat
      BY <3>1
    <3>3. stmt.rset.lo + 1 \in Nat /\ stmt.rset.lo + 1 <= stmt.rset.hi
      BY <1>1, <1>2, <3>2
    <3> QED BY <1>2, <3>1, <3>3
  <2>2. /\ I \in [cols : ColTypes \cup {NoType}, names : Refs, ival : Refs]
        /\ I.cols = stmt.ird.cols /\ I.ival = ival /\ n \in Nat
    <3>1. /\ stmt.ird \in [cols : ColTypes \cup {NoType}, names : Refs, ival : Refs]
          /\ stmt.tv_rows \in Nat
      BY <1>2 DEF StmtType
    <3> QED BY <3>1
  <2>3. stmt' = [stmt EXCEPT !.rset = R, !.tv_rows = n, !.ird = I]
    BY <1>1, <1>2 DEF StmtType
  <2> HIDE DEF R, I, n
  <2> QED BY <1>2, <2>1, <2>2, <2>3 DEF StmtType
<1>4. WellFormed(stmt')
  BY <1>3 DEF WellFormed
<1>5. /\ call' \in CallType /\ call'.on = TRUE /\ call'.i <= stmt'.array_size
      /\ call'.i = call.i + 1 /\ call'.errors = e /\ call.errors \in Nat
      /\ call.i \in Nat
  <2> DEFINE n == call.i + 1
  <2>1. call.on = TRUE /\ call.i \in Nat /\ n \in Nat /\ call.errors \in Nat
    BY <1>1, <1>2 DEF CallType
  <2>2. call' = [call EXCEPT !.i = n, !.errors = e, !.rows = r]
    BY DEF Taken
  <2> HIDE DEF n
  <2>3. call' \in CallType /\ call'.on = call.on /\ call'.i = n /\ call'.errors = e
    BY <1>2, <2>1, <2>2 DEF CallType
  <2> QED BY <1>1, <1>2, <1>3, <2>1, <2>3 DEF n
<1>6. TypeOK'
  BY <1>1, <1>3, <1>5 DEF Consistent, TypeOK, CallType
<1>7. StatesAgree' /\ ReadsAgree' /\ RowValuesLive'
  <2>1. stmt.array_size = 1 => ival = "live" \/ ~(call'.i > call'.errors)
    BY <1>1, <1>2, <1>5 DEF Taken
  <2>2. app'.onrow = FALSE
    BY <1>1, <1>2
  <2>3. ReadsAgree'
    BY <1>3, <2>1, <2>2 DEF ReadsAgree
  <2> QED BY <1>1, <1>2, <1>3, <1>5, <2>2, <2>3
          DEF Consistent, StatesAgree, RowValuesLive, CursorOpen, HasCursor, Idle
<1>8. PreparedKeepsQuery' /\ EarlyResultUntouched' /\ ServerContextHeld'
      /\ GetDataOnCurrentRow'
  BY <1>1, <1>3 DEF Consistent, PreparedKeepsQuery, EarlyResultUntouched,
                    ServerContextHeld, GetDataOnCurrentRow, HasCursor
<1> QED BY <1>4, <1>6, <1>7, <1>8 DEF Consistent

\* SQLFetch leaves the application on a row only if it copied it.
LEMMA FetchReturnsEffect ==
  ASSUME Consistent, call.on, FetchReturns(call.i, call.errors)
  PROVE  /\ call' = NoCall /\ app' \in AppType
         /\ app'.onrow => call.i > call.errors /\ stmt.array_size = 1
         /\ dm' \in DmType /\ dm'.prep = dm.prep /\ dm'.st \in {"S5", "S6"}
<1> DEFINE rc == IF call.i = 0 THEN "NO_DATA"
                 ELSE IF call.i <= call.errors THEN "ERROR" ELSE "SUCCESS"
           rows == IF rc = "SUCCESS" THEN call.rows ELSE <<>>
           onrow == rc = "SUCCESS" /\ stmt.array_size = 1
           st == IF rc = "ERROR" THEN dm.st ELSE "S6"
<1>1. /\ call' = NoCall
      /\ app' = [rc |-> rc, rows |-> rows, onrow |-> onrow, read |-> "none"]
      /\ dm' = [dm EXCEPT !.st = st]
  BY ConsistentMatches DEF FetchReturns, DmType
<1>2. call.rows \in Seq(Nat) /\ call.i \in Nat /\ call.errors \in Nat /\ dm \in DmType
      /\ dm.st \in {"S5", "S6"}
  BY ConsistentMatches DEF Consistent, TypeOK, StatesAgree, CursorOpen
<1>3. rc \in Codes /\ rows \in Seq(Nat) /\ onrow \in BOOLEAN
      /\ (onrow => call.i > call.errors /\ stmt.array_size = 1)
  BY <1>2 DEF Codes
<1>4. st \in {"S5", "S6"}
  BY <1>2
<1> HIDE DEF rc, rows, onrow, st
<1>5. app' \in AppType /\ app'.onrow = onrow
  BY <1>1, <1>3 DEF AppType, Refs
<1>6. dm' \in DmType /\ dm'.prep = dm.prep /\ dm'.st \in {"S5", "S6"}
  BY <1>1, <1>2, <1>4 DEF DmType
<1> QED BY <1>1, <1>3, <1>5, <1>6

\* What a SQLFetch that returns needs of the statement.
LEMMA FetchReturnedConsistent ==
  ASSUME Consistent, early_exec' = early_exec, call' = NoCall, app' \in AppType,
         dm' \in DmType, dm'.prep = dm.prep, dm'.st \in {"S5", "S6"},
         WellFormed(stmt'), srv' \in SrvType, Held(stmt', srv'),
         stmt'.u8sql = stmt.u8sql, stmt'.early = FALSE,
         stmt'.rset.body, stmt'.ird.cols # NoType, stmt'.gd.ctype = NoType,
         app'.onrow => stmt'.ird.ival = "live"
  PROVE  Consistent'
<1>1. call'.on = FALSE /\ call'.i = 0 /\ call' \in CallType
  BY DEF NoCall, CallType
<1>2. call'.i <= stmt'.array_size
  <2>1. stmt'.array_size \in Nat
    BY BoundsAssumption DEF WellFormed, StmtType
  <2> QED BY <1>1, <2>1
<1>3. TypeOK'
  BY <1>1, <1>2 DEF Consistent, TypeOK, WellFormed, CallType, AppType, DmType, SrvType
<1>4. StatesAgree' /\ ReadsAgree' /\ RowValuesLive'
  BY <1>1 DEF StatesAgree, ReadsAgree, RowValuesLive, CursorOpen, Idle
<1>5. PreparedKeepsQuery' /\ EarlyResultUntouched' /\ ServerContextHeld'
      /\ GetDataOnCurrentRow'
  BY DEF Consistent, PreparedKeepsQuery, EarlyResultUntouched, ServerContextHeld,
         GetDataOnCurrentRow, Held
<1> QED BY <1>3, <1>4, <1>5 DEF Consistent

\* While a SQLFetch runs there is an answer with columns and nothing of
\* SQLGetData's.
LEMMA FetchingFacts ==
  ASSUME Consistent, call.on
  PROVE  /\ WellFormed(stmt) /\ srv \in SrvType /\ Held(stmt, srv) /\ dm \in DmType
         /\ CursorOpen /\ stmt.rset.body /\ stmt.ird.cols # NoType
         /\ stmt.early = FALSE /\ stmt.gd.ctype = NoType /\ app.onrow = FALSE
         /\ call \in CallType /\ stmt.array_size \in Nat
<1>1. stmt.early \in BOOLEAN /\ app.onrow \in BOOLEAN /\ stmt.array_size \in Nat
  BY BoundsAssumption DEF Consistent, TypeOK, StmtType
<1>2. CursorOpen /\ ~stmt.early /\ ~app.onrow
  BY DEF Consistent, StatesAgree, ReadsAgree
<1> QED BY <1>1, <1>2, ConsistentMatches
        DEF Consistent, TypeOK, StatesAgree, GetDataOnCurrentRow, CallType

\* A SQLFetch that returns keeps the invariant.
LEMMA FetchEndConsistent == Consistent /\ FetchEnd => Consistent'
<1> SUFFICES ASSUME Consistent, FetchEnd PROVE Consistent'
  OBVIOUS
<1>1. /\ call.on /\ FetchReturns(call.i, call.errors)
      /\ stmt' = stmt /\ early_exec' = early_exec /\ srv' = srv
  BY DEF FetchEnd
<1>2. /\ call' = NoCall /\ app' \in AppType
      /\ app'.onrow => call.i > call.errors /\ stmt.array_size = 1
      /\ dm' \in DmType /\ dm'.prep = dm.prep /\ dm'.st \in {"S5", "S6"}
  BY <1>1, FetchReturnsEffect
<1>3. app'.onrow => stmt'.ird.ival = "live"
  BY <1>1, <1>2 DEF Consistent, ReadsAgree
<1>4. /\ WellFormed(stmt') /\ Held(stmt', srv') /\ srv' \in SrvType
      /\ stmt'.rset.body /\ stmt'.ird.cols # NoType
      /\ stmt'.early = FALSE /\ stmt'.gd.ctype = NoType
  BY <1>1, FetchingFacts DEF WellFormed, Held, HasCursor, Unopened
<1> QED BY <1>1, <1>2, <1>3, <1>4, FetchReturnedConsistent

\* Turning a page keeps it: the page comes, comes empty or does not come.
LEMMA FetchTurnConsistent == Consistent /\ FetchTurn => Consistent'
<1> SUFFICES ASSUME Consistent, FetchTurn PROVE Consistent'
  OBVIOUS
<1> PICK o \in Execute(stmt, srv) :
      /\ stmt' = o.s /\ srv' = o.w
      /\ \/ /\ ~o.ok /\ call' = NoCall
            /\ app' = [NoApp EXCEPT !.rc = "ERROR"] /\ UNCHANGED dm
         \/ /\ o.ok /\ ~o.s.rset.forced /\ UNCHANGED <<call, app, dm>>
         \/ /\ o.ok /\ o.s.rset.forced /\ FetchReturns(call.i, call.errors)
  BY DEF FetchTurn
<1>1. call.on /\ call.i < stmt.array_size /\ early_exec' = early_exec
  BY DEF FetchTurn, RowsWanted
<1>2. /\ WellFormed(stmt) /\ srv \in SrvType /\ Held(stmt, srv) /\ dm \in DmType
      /\ CursorOpen /\ stmt.rset.body /\ stmt.ird.cols # NoType
      /\ stmt.early = FALSE /\ stmt.gd.ctype = NoType /\ app.onrow = FALSE
      /\ call \in CallType /\ stmt.array_size \in Nat
  BY <1>1, FetchingFacts
<1> DEFINE t == [stmt EXCEPT !.early = FALSE]
<1>3. /\ WellFormed(o.s) /\ Keeps(t, o.s) /\ o.w \in SrvType /\ Held(o.s, o.w)
      /\ o.s.rset.body /\ o.s.ird.cols = stmt.ird.cols
      /\ o.s = t \/ o.s.gd.ctype = NoType
  BY <1>2, ExecuteEffect
<1>4. /\ stmt'.u8sql = stmt.u8sql /\ stmt'.early = FALSE
      /\ stmt'.array_size = stmt.array_size /\ stmt'.gd.ctype = NoType
      /\ stmt'.rset.body /\ stmt'.ird.cols # NoType
  BY <1>2, <1>3 DEF Keeps, WellFormed, StmtType
<1>5. WellFormed(stmt') /\ srv' \in SrvType /\ Held(stmt', srv')
  BY <1>3 DEF WellFormed, Held, HasCursor, Unopened
<1>6. CASE /\ ~o.ok /\ call' = NoCall
           /\ app' = [NoApp EXCEPT !.rc = "ERROR"] /\ UNCHANGED dm
  <2>1. app' \in AppType /\ app'.onrow = FALSE
    <3>1. app' = [rc |-> "ERROR", rows |-> <<>>, onrow |-> FALSE, read |-> "none"]
      BY <1>6 DEF NoApp
    <3> QED BY <3>1 DEF AppType, Codes, Refs
  <2>2. dm' \in DmType /\ dm'.prep = dm.prep /\ dm'.st \in {"S5", "S6"}
    BY <1>2, <1>6 DEF CursorOpen
  <2> QED BY <1>1, <1>4, <1>5, <1>6, <2>1, <2>2, FetchReturnedConsistent
<1>7. CASE /\ o.ok /\ ~o.s.rset.forced /\ UNCHANGED <<call, app, dm>>
  <2>1. ~(call.i > call.errors) \/ stmt.array_size # 1
    BY <1>1, <1>2 DEF CallType
  <2>2. TypeOK'
    BY <1>1, <1>4, <1>5, <1>7 DEF Consistent, TypeOK, WellFormed, SrvType
  <2>3. StatesAgree' /\ ReadsAgree' /\ RowValuesLive'
    BY <1>1, <1>2, <1>4, <1>7, <2>1
       DEF Consistent, StatesAgree, ReadsAgree, RowValuesLive, CursorOpen, Idle, CallType
  <2>4. PreparedKeepsQuery' /\ EarlyResultUntouched' /\ ServerContextHeld'
        /\ GetDataOnCurrentRow'
    BY <1>4, <1>5, <1>7 DEF Consistent, PreparedKeepsQuery, EarlyResultUntouched,
                            ServerContextHeld, GetDataOnCurrentRow, Held
  <2> QED BY <1>5, <2>2, <2>3, <2>4 DEF Consistent
<1>8. CASE /\ o.ok /\ o.s.rset.forced /\ FetchReturns(call.i, call.errors)
  <2>1. /\ call' = NoCall /\ app' \in AppType
        /\ app'.onrow => call.i > call.errors /\ stmt.array_size = 1
        /\ dm' \in DmType /\ dm'.prep = dm.prep /\ dm'.st \in {"S5", "S6"}
    BY <1>1, <1>8, FetchReturnsEffect
  <2>2. ~app'.onrow
    BY <1>1, <1>2, <2>1 DEF CallType
  <2> QED BY <1>1, <1>4, <1>5, <2>1, <2>2, FetchReturnedConsistent
<1> QED BY <1>6, <1>7, <1>8

\* SQLGetData changes its own state, and the conversion flag, only.
LEMMA GetDataConsistent ==
  Consistent /\ (GetDataExhausted \/ GetDataRefused \/ GetDataCopies) => Consistent'
<1> SUFFICES ASSUME Consistent, GetDataExhausted \/ GetDataRefused \/ GetDataCopies
             PROVE  Consistent'
  OBVIOUS
<1>1. /\ stmt \in StmtType /\ WellFormed(stmt) /\ CursorOpen /\ stmt.rset.body
      /\ call.on = FALSE /\ app \in AppType
      /\ stmt.ird.cols \in ColTypes /\ stmt.ird.ival \in Refs
  <2>1. call.on \in BOOLEAN /\ CursorOpen
    BY DEF Consistent, TypeOK, CursorOpen, GetDataExhausted, GetDataRefused,
           GetDataCopies
  <2>2. ~call.on
    BY DEF GetDataExhausted, GetDataRefused, GetDataCopies, Idle
  <2> QED BY <2>1, <2>2 DEF Consistent, TypeOK, StatesAgree, StmtType, AppType
<1>2. /\ UNCHANGED <<early_exec, dm, srv, call>>
      /\ stmt' \in StmtType /\ stmt'.u8sql = stmt.u8sql /\ stmt'.early = stmt.early
      /\ stmt'.rset = stmt.rset /\ stmt'.ird = stmt.ird
      /\ stmt'.tv_rows = stmt.tv_rows /\ stmt'.array_size = stmt.array_size
      /\ stmt'.gd.ctype # NoType => stmt'.gd.row = stmt'.tv_rows
      /\ app' \in AppType /\ app'.onrow = app.onrow
  <2>1. CASE GetDataExhausted
    <3>1. GdReturns("NO_DATA", stmt.gd, "none")
      BY <2>1 DEF GetDataExhausted
    <3> QED BY <1>1, <3>1
            DEF GdReturns, Consistent, GetDataOnCurrentRow, StmtType, AppType, Codes, Refs
  <2>2. CASE GetDataRefused
    <3>1. GdReturns("ERROR", NoGd, "none")
      BY <2>2 DEF GetDataRefused
    <3> QED BY <1>1, <3>1 DEF GdReturns, NoGd, NoRow, StmtType, AppType, Codes, Refs
  <2>3. CASE GetDataCopies
    <3> PICK c \in CTypes :
          LET from == IF GdResuming(c) THEN stmt.gd.offt ELSE "start"
              convertible == Conv[stmt.ird.cols, c] = "SUPPORTED"
          IN  /\ from # "end"
              /\ GdResuming(c) \/ stmt.array_size = 1
              /\ \E copied \in BOOLEAN, offt \in NextOfft[from] :
                   /\ copied => convertible
                   /\ stmt' = [stmt EXCEPT !.conv = "UNCHECKED",
                                 !.gd = IF copied THEN [ctype |-> c, offt |-> offt,
                                                        row |-> stmt.tv_rows]
                                                  ELSE NoGd]
                   /\ app' = [app EXCEPT !.rc = Code(copied),
                                !.read = IF convertible THEN stmt.ird.ival ELSE "none"]
      BY <2>3 DEF GetDataCopies
    <3> DEFINE from == IF GdResuming(c) THEN stmt.gd.offt ELSE "start"
               convertible == Conv[stmt.ird.cols, c] = "SUPPORTED"
               read == IF convertible THEN stmt.ird.ival ELSE "none"
    <3>1. PICK copied \in BOOLEAN, offt \in NextOfft[from] :
            /\ stmt' = [stmt EXCEPT !.conv = "UNCHECKED",
                          !.gd = IF copied THEN [ctype |-> c, offt |-> offt,
                                                 row |-> stmt.tv_rows]
                                           ELSE NoGd]
            /\ app' = [app EXCEPT !.rc = Code(copied), !.read = read]
      OBVIOUS
    <3>2. offt \in {"start", "mid", "end"}
      <4>1. from \in {"start", "mid"}
        <5>1. stmt.gd.offt \in {"start", "mid", "end"} /\ from # "end"
          BY <1>1 DEF StmtType
        <5> QED BY <5>1
      <4>2. /\ NextOfft["start"] = {"start", "mid", "end"}
            /\ NextOfft["mid"] = {"mid", "end"}
        BY DEF NextOfft
      <4>3. offt \in NextOfft[from]
        OBVIOUS
      <4> HIDE DEF from
      <4> QED BY <4>1, <4>2, <4>3
    <3> DEFINE gd == IF copied THEN [ctype |-> c, offt |-> offt, row |-> stmt.tv_rows]
                               ELSE NoGd
    <3>3. /\ gd \in [ctype : CTypes \cup {NoType}, offt : {"start", "mid", "end"},
                     row : Nat]
          /\ gd.ctype # NoType => gd.row = stmt.tv_rows
      BY <1>1, <3>2 DEF StmtType, NoGd, NoRow
    <3>4. read \in Refs /\ Code(copied) \in Codes
      BY <1>1 DEF Refs, Code, Codes
    <3>5. UNCHANGED <<early_exec, dm, srv, call>>
      BY <2>3 DEF GetDataCopies
    <3> HIDE DEF read
    <3>6. app' \in AppType /\ app'.onrow = app.onrow
      BY <1>1, <3>1, <3>4 DEF AppType
    <3>7. stmt' = [stmt EXCEPT !.conv = "UNCHECKED", !.gd = gd]
      BY <3>1
    <3> HIDE DEF gd
    <3> QED BY <1>1, <3>3, <3>5, <3>6, <3>7 DEF StmtType
  <2> QED BY <2>1, <2>2, <2>3
<1>3. WellFormed(stmt')
  BY <1>1, <1>2 DEF WellFormed
<1>4. TypeOK'
  BY <1>2, <1>3 DEF Consistent, TypeOK, WellFormed, AppType
<1>5. StatesAgree' /\ ReadsAgree' /\ RowValuesLive'
  BY <1>2 DEF Consistent, StatesAgree, ReadsAgree, RowValuesLive, CursorOpen,
              HasCursor, Idle
<1>6. PreparedKeepsQuery' /\ EarlyResultUntouched' /\ ServerContextHeld'
      /\ GetDataOnCurrentRow'
  BY <1>1, <1>2 DEF Consistent, PreparedKeepsQuery, EarlyResultUntouched,
                    ServerContextHeld, GetDataOnCurrentRow, HasCursor
<1> QED BY <1>3, <1>4, <1>5, <1>6 DEF Consistent

-----------------------------------------------------------------------------
(* The theorems.                                                           *)

\* A statement as init_stmt() leaves it satisfies the invariant.
LEMMA InitConsistent == Init => Consistent
<1> SUFFICES ASSUME Init PROVE Consistent
  OBVIOUS
<1>1. /\ stmt = InitStmt /\ early_exec \in BOOLEAN
      /\ dm = [st |-> "S1", prep |-> FALSE]
      /\ srv = [open |-> FALSE, total |-> 0, unheld |-> FALSE]
      /\ call = NoCall /\ app = NoApp
  BY TypesAssumption DEF Init
<1>2. WellFormed(stmt) /\ stmt.early = FALSE /\ stmt.gd.ctype = NoType
      /\ ~HasCursor(stmt)
  BY <1>1, InitStmtFresh DEF Unopened
<1>3. call \in CallType /\ call.on = FALSE /\ call.i = 0
  BY <1>1 DEF NoCall, CallType
<1>4. app \in AppType /\ app.onrow = FALSE
  BY <1>1 DEF NoApp, AppType, Codes, Refs
<1>5. call.i <= stmt.array_size
  <2>1. stmt.array_size \in Nat
    BY <1>2, BoundsAssumption DEF WellFormed, StmtType
  <2> QED BY <1>3, <2>1
<1>6. TypeOK
  BY <1>1, <1>2, <1>3, <1>4, <1>5 DEF TypeOK, WellFormed, CallType, AppType
<1>7. StatesAgree /\ ReadsAgree /\ RowValuesLive
  BY <1>1, <1>2, <1>3, <1>4
     DEF StatesAgree, ReadsAgree, RowValuesLive, CursorOpen, Idle
<1>8. PreparedKeepsQuery /\ EarlyResultUntouched /\ ServerContextHeld
      /\ GetDataOnCurrentRow
  BY <1>1, <1>2 DEF PreparedKeepsQuery, EarlyResultUntouched, ServerContextHeld,
                    GetDataOnCurrentRow
<1> QED BY <1>2, <1>6, <1>7, <1>8 DEF Consistent

\* Nothing happening keeps the invariant.
LEMMA StutterConsistent == Consistent /\ UNCHANGED vars => Consistent'
BY DEF Consistent, vars, TypeOK, WellFormed, Unopened, StatesAgree, ReadsAgree,
       PreparedKeepsQuery, EarlyResultUntouched, ServerContextHeld,
       GetDataOnCurrentRow, RowValuesLive, CursorOpen, HasCursor, Idle

\* Every call, every row and page of a SQLFetch, and every failure of a request
\* keeps the invariant.
THEOREM ConsistentInductive == Consistent /\ [Next]_vars => Consistent'
<1> SUFFICES ASSUME Consistent, [Next]_vars PROVE Consistent'
  OBVIOUS
<1>1. CASE Prepare \/ AttachSqlFails
  BY <1>1, PrepareConsistent, AttachSqlFailsConsistent
<1>2. CASE ExecDirect \/ ExecutePrepared
  BY <1>2, ExecDirectConsistent, ExecutePreparedConsistent
<1>3. CASE CloseCursor \/ FreeStmt
  BY <1>3, CloseConsistent
<1>4. CASE FreeHandle \/ AllocHandle
  BY <1>4, HandleConsistent
<1>5. CASE BindCol \/ Unbind \/ BindUnflagged \/ SetArraySize
  BY <1>5, BindingConsistent
<1>6. CASE FetchRefused \/ FetchBegin
  BY <1>6, FetchRefusedConsistent, FetchBeginConsistent
<1>7. CASE FetchStep
  BY <1>7, FetchRowConsistent, FetchTurnConsistent, FetchEndConsistent DEF FetchStep
<1>8. CASE GetDataExhausted \/ GetDataRefused \/ GetDataCopies
  BY <1>8, GetDataConsistent
<1>9. CASE UNCHANGED vars
  BY <1>9, StutterConsistent
<1> QED BY <1>1, <1>2, <1>3, <1>4, <1>5, <1>6, <1>7, <1>8, <1>9 DEF Next

\* The invariant holds in every state the driver can be in.
THEOREM AlwaysConsistent == Spec => []Consistent
BY InitConsistent, ConsistentInductive, PTL DEF Spec

\* The statement, the server's context and the calls keep their types; no
\* SQLFetch takes more rows than a rowset or a page has.
THEOREM TypeCorrect == Spec => []TypeOK
<1>1. Consistent => TypeOK
  BY DEF Consistent
<1> QED BY <1>1, AlwaysConsistent, PTL

\* SQL_CLOSE, a failed execution or a page never drops the query of a statement
\* that the Driver Manager lets the application execute again.
THEOREM QueryKept == Spec => []PreparedKeepsQuery
<1>1. Consistent => PreparedKeepsQuery
  BY DEF Consistent
<1> QED BY <1>1, AlwaysConsistent, PTL

\* The flag of early execution is off before a SQLFetch can turn a page, and
\* the result of the early execution is whole when SQLExecute hands it over.
THEOREM EarlyUntouched == Spec => []EarlyResultUntouched
<1>1. Consistent => EarlyResultUntouched
  BY DEF Consistent
<1> QED BY <1>1, AlwaysConsistent, PTL

\* No paging context stays open on the server with the statement having
\* forgotten its cursor, but for one lost on the way.
THEOREM ContextHeld == Spec => []ServerContextHeld
<1>1. Consistent => ServerContextHeld
  BY DEF Consistent
<1> QED BY <1>1, AlwaysConsistent, PTL

\* SQLGetData never resumes in a row the statement has left.
THEOREM GetDataCurrent == Spec => []GetDataOnCurrentRow
<1>1. Consistent => GetDataOnCurrentRow
  BY DEF Consistent
<1> QED BY <1>1, AlwaysConsistent, PTL

\* A SQLFetch that leaves the application on a row leaves the IRD's values
\* pointing into the answer that is attached.
THEOREM ValuesLive == Spec => []RowValuesLive
<1>1. Consistent => RowValuesLive
  BY DEF Consistent
<1> QED BY <1>1, AlwaysConsistent, PTL

=============================================================================
