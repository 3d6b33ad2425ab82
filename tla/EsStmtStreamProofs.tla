------------------------- MODULE EsStmtStreamProofs -------------------------
(***************************************************************************)
(* Proofs that the statement's pages add up to the stream of rows that     *)
(* ResultStream promises, and that SQLFetch converts what it checked, for  *)
(* a server that sends columns with a first page and rows with a cursor.   *)
(***************************************************************************)
EXTENDS EsStmtProofs

\* What is asked of the server: of the faults, only answers that do not parse,
\* later pages that repeat the columns and rows that cannot be read.
Orderly == Faults \subseteq {"garbage", "colsagain", "badrow"}

-----------------------------------------------------------------------------
(* The page against the query's rows.                                      *)

\* The page that is attached goes on where the counted rows end, and up to the
\* cursor, or up to the last row without one.
Whole(s, w) ==
  /\ s.rset.lo = s.tv_rows /\ s.rset.hi <= w.total
  /\ IF HasCursor(s) THEN s.rset.curs = s.rset.hi ELSE s.rset.hi = w.total

\* What an answer that did not parse leaves.
Broken(s, w) ==
  /\ s.rset.lo = 0 /\ s.rset.hi = 0 /\ ~HasCursor(s)
  /\ s.tv_rows <= w.total

PageOf(s, w) == Whole(s, w) \/ Broken(s, w)

\* A statement that has a query and nothing of a result yet.
Blank(s) == s.ird.cols = NoType /\ s.tv_rows = 0 /\ ~HasCursor(s)

\* A page ends where its cursor is, or with the query.
LEMMA PagesEnd ==
  ASSUME Orderly, NEW lo \in Nat, NEW total \in Nat, NEW p \in Pages(lo, total)
  PROVE  /\ p \in [lo : Nat, hi : Nat, more : BOOLEAN]
         /\ p.lo = lo /\ lo <= p.hi /\ p.hi <= total
         /\ ~p.more => p.hi = total
         /\ p.hi = lo => lo = total /\ ~p.more
<1>1. "emptypage" \notin Faults
  BY DEF Orderly
<1>2. /\ p \in [lo : Nat, hi : Nat, more : BOOLEAN]
      /\ p.lo = lo /\ lo <= p.hi
  BY PagesForward
<1>3. /\ p.hi <= total /\ (p.hi < total => p.more)
      /\ (p.hi = lo /\ lo < total => "emptypage" \in Faults)
      /\ (p.hi = lo /\ lo = total => ~p.more)
  BY DEF Pages
<1> QED BY <1>1, <1>2, <1>3

\* An answer that parses has its page attached after the rows counted so far;
\* one that does not leaves nothing of it (attach_answer).
LEMMA AttachedPage ==
  ASSUME NEW s, WellFormed(s), NEW a, IsAnswer(a), NEW w \in SrvType,
         a.page.lo = s.tv_rows, a.page.hi <= w.total,
         ~a.page.more => a.page.hi = w.total
  PROVE  LET t == AttachAnswer(s, a) IN
         /\ t.tv_rows = s.tv_rows
         /\ a.form = "garbage" => Broken(t, w) /\ t.ird.cols = s.ird.cols
         /\ a.form # "garbage" => /\ Whole(t, w) /\ t.rset.hi = a.page.hi
                                  /\ t.rset.forced = (a.page.hi = a.page.lo)
                                  /\ HasCursor(t) <=> a.page.more
<1> DEFINE t == AttachAnswer(s, a)
           R == AttachRows(s, a).rset
<1>1. t.tv_rows = s.tv_rows /\ t.rset = R
  BY AttachAnswerEffect DEF Keeps
<1>2. /\ s.tv_rows \in Nat /\ a.page.hi \in Nat /\ a.page.lo \in Nat
      /\ a.page.lo <= a.page.hi /\ w.total \in Nat
  BY DEF WellFormed, StmtType, IsAnswer, SrvType
<1>3. ASSUME a.form = "garbage"
      PROVE  Broken(t, w) /\ t.ird.cols = s.ird.cols
  <2>1. R = [EmptyRset EXCEPT !.body = TRUE]
    BY <1>3 DEF AttachRows, WellFormed, StmtType
  <2>2. R.lo = 0 /\ R.hi = 0 /\ R.curs = NoCursor
    BY <2>1 DEF EmptyRset
  <2>3. t.ird.cols = s.ird.cols
    <3>1. CASE s.rset.body
      BY <1>3, <3>1 DEF AttachAnswer, AttachRows, ClearResultset, WellFormed, StmtType
    <3>2. CASE ~s.rset.body
      BY <1>3, <3>2 DEF AttachAnswer, AttachRows, WellFormed, StmtType
    <3> QED BY <3>1, <3>2
  <2> HIDE DEF t, R
  <2> QED BY <1>1, <1>2, <2>2, <2>3 DEF Broken, HasCursor
<1>4. ASSUME a.form # "garbage"
      PROVE  /\ Whole(t, w) /\ t.rset.hi = a.page.hi
             /\ t.rset.forced = (a.page.hi = a.page.lo)
             /\ HasCursor(t) <=> a.page.more
  <2>1. R = [body |-> TRUE, forced |-> a.page.hi = a.page.lo,
             lo |-> a.page.lo, hi |-> a.page.hi,
             curs |-> IF a.page.more THEN a.page.hi ELSE NoCursor]
    BY <1>4 DEF AttachRows, WellFormed, StmtType
  <2>2. /\ R.lo = a.page.lo /\ R.hi = a.page.hi
        /\ R.forced = (a.page.hi = a.page.lo)
        /\ a.page.more => R.curs = a.page.hi
        /\ ~a.page.more => R.curs = NoCursor
    BY <2>1
  <2> HIDE DEF t, R
  <2>3. HasCursor(t) <=> a.page.more
    BY <1>1, <1>2, <2>2 DEF HasCursor, NoCursor
  <2> QED BY <1>1, <1>2, <2>2, <2>3 DEF Whole
<1> QED BY <1>1, <1>3, <1>4

\* A request that continues from a cursor brings the page after the one that is
\* used up, or leaves the statement with what it had, or with nothing more.
LEMMA ContinueEffect ==
  ASSUME Orderly, NEW s, WellFormed(s), NEW w \in SrvType, w.total \in 0..MaxRows,
         HasCursor(s), PageOf(s, w), PageEmpty(s), s.ird.cols # NoType,
         NEW o \in Request(s, w)
  PROVE  /\ o.w.total = w.total /\ PageOf(o.s, o.w) /\ o.s.tv_rows = s.tv_rows
         /\ o.ok => Whole(o.s, o.w)
         /\ o.ok /\ o.s.rset.forced => o.s.tv_rows = w.total
<1>1. /\ s.tv_rows = s.rset.curs /\ s.tv_rows \in Nat /\ w.total \in Nat
  <2>1. Whole(s, w)
    BY DEF PageOf, Broken
  <2> QED BY <2>1 DEF Whole, PageEmpty, WellFormed, StmtType, SrvType
<1>2. \/ o = Refused(s, w)
      \/ \E p \in Pages(s.rset.curs, w.total) : o = Late(s, w, p, w.total)
      \/ \E a \in ContinueAnswers(s.rset.curs, w.total) : o = Served(s, a, w.total)
  BY DEF Request
<1>3. CASE o = Refused(s, w)
  <2>1. o.s = s /\ o.w = w /\ o.ok = FALSE
    BY <1>3 DEF Refused, Outcome
  <2> QED BY <2>1
<1>4. CASE \E p \in Pages(s.rset.curs, w.total) : o = Late(s, w, p, w.total)
  <2>1. o.s = s /\ o.w.total = w.total /\ o.ok = FALSE
    BY <1>4 DEF Late, Outcome
  <2>2. PageOf(s, o.w)
    BY <2>1 DEF PageOf, Whole, Broken
  <2> QED BY <2>1, <2>2
<1>5. CASE \E a \in ContinueAnswers(s.rset.curs, w.total) : o = Served(s, a, w.total)
  <2> PICK a \in ContinueAnswers(s.rset.curs, w.total) : o = Served(s, a, w.total)
    BY <1>5
  <2>1. PICK p \in Pages(s.rset.curs, w.total), f \in Forms, c \in ColTypes :
          a = Answer(p, f, IF f = "colsagain" THEN c ELSE NoType)
    BY DEF ContinueAnswers
  <2>2. a.page = p /\ a.form = f
    BY <2>1 DEF Answer
  <2>3. /\ p.lo = s.tv_rows /\ p.hi <= w.total /\ (~p.more => p.hi = w.total)
        /\ (p.hi = p.lo => p.lo = w.total)
    BY <1>1, PagesEnd
  <2>4. IsAnswer(a)
    BY <1>1, AnswersTyped
  <2>5. o.s = AttachAnswer(s, a) /\ o.w.total = w.total /\ o.ok = Attaches(s, a)
    BY DEF Served, Outcome
  <2>6. /\ o.s.tv_rows = s.tv_rows
        /\ a.form = "garbage" => Broken(o.s, w)
        /\ a.form # "garbage" => /\ Whole(o.s, w)
                                 /\ o.s.rset.forced = (a.page.hi = a.page.lo)
    BY <2>2, <2>3, <2>4, <2>5, AttachedPage
  <2>7. Whole(o.s, w) => Whole(o.s, o.w)
    BY <2>5 DEF Whole
  <2>8. Broken(o.s, w) => Broken(o.s, o.w)
    BY <2>5 DEF Broken
  <2>9. o.ok => a.form # "garbage"
    BY <2>5 DEF Attaches
  <2> QED BY <2>2, <2>3, <2>5, <2>6, <2>7, <2>8, <2>9 DEF PageOf
<1> QED BY <1>2, <1>3, <1>4, <1>5

\* A request that sends a query brings its first page, or leaves no column and
\* no cursor.
LEMMA QueryEffect ==
  ASSUME Orderly, NEW s, WellFormed(s), NEW w \in SrvType, w.total \in 0..MaxRows,
         Blank(s), NEW o \in Request(s, w)
  PROVE  /\ o.w.total \in 0..MaxRows /\ o.s.tv_rows = 0
         /\ o.ok => Whole(o.s, o.w)
         /\ ~o.ok => Blank(o.s)
<1>1. \/ o = Refused(s, w)
      \/ \E n \in 0..MaxRows : \E p \in Pages(0, n) : o = Late(s, w, p, n)
      \/ \E n \in 0..MaxRows : \E a \in QueryAnswers(n) : o = Served(s, a, n)
  BY DEF Request, Blank
<1>2. CASE o = Refused(s, w)
  <2>1. o.s = s /\ o.w = w /\ o.ok = FALSE
    BY <1>2 DEF Refused, Outcome
  <2> QED BY <2>1 DEF Blank
<1>3. CASE \E n \in 0..MaxRows : \E p \in Pages(0, n) : o = Late(s, w, p, n)
  <2> PICK n \in 0..MaxRows : \E p \in Pages(0, n) : o = Late(s, w, p, n)
    BY <1>3
  <2>1. o.s = s /\ o.w.total = n /\ o.ok = FALSE
    BY DEF Late, Outcome
  <2> QED BY <2>1 DEF Blank
<1>4. CASE \E n \in 0..MaxRows : \E a \in QueryAnswers(n) : o = Served(s, a, n)
  <2> PICK n \in 0..MaxRows : \E a \in QueryAnswers(n) : o = Served(s, a, n)
    BY <1>4
  <2> PICK a \in QueryAnswers(n) : o = Served(s, a, n)
    OBVIOUS
  <2>1. PICK p \in Pages(0, n), f \in Forms \ {"colsagain"}, c \in ColTypes :
          a = Answer(p, f, IF f = "nocols" THEN NoType ELSE c)
    BY DEF QueryAnswers
  <2>2. f \in {"ok", "garbage"} /\ c # NoType /\ n \in Nat
    BY TypesAssumption, BoundsAssumption DEF Forms, Orderly
  <2>3. a.page = p /\ a.form = f /\ a.cols = c
    BY <2>1, <2>2 DEF Answer
  <2>4. p.lo = 0 /\ p.hi <= n /\ (~p.more => p.hi = n)
    BY <2>2, PagesEnd
  <2>5. IsAnswer(a)
    BY <2>2, AnswersTyped
  <2>6. /\ o.s = AttachAnswer(s, a) /\ o.ok = Attaches(s, a)
        /\ o.w = [open |-> a.page.more, total |-> n,
                  unheld |-> a.page.more /\ a.form = "garbage"]
    BY DEF Served, Outcome
  <2>7. o.w \in SrvType /\ o.w.total = n
    <3>1. a.page.more \in BOOLEAN
      BY <2>5 DEF IsAnswer
    <3> QED BY <2>2, <2>6, <3>1 DEF SrvType
  <2>8. o.ok = (a.form # "garbage")
    BY <2>2, <2>3, <2>6 DEF Attaches, Blank
  <2>9. /\ o.s.tv_rows = 0
        /\ a.form = "garbage" => Broken(o.s, o.w) /\ o.s.ird.cols = NoType
        /\ a.form # "garbage" => Whole(o.s, o.w)
    BY <2>3, <2>4, <2>5, <2>6, <2>7, AttachedPage DEF Blank
  <2> QED BY <2>7, <2>8, <2>9 DEF Blank, Broken
<1> QED BY <1>1, <1>2, <1>3, <1>4

-----------------------------------------------------------------------------
(* The invariant, and what calls other than a SQLFetch do to the stream.   *)

\* What the stream's position says of the page; "S3" is a query that has not
\* been executed, or has been early.
PagesAgree ==
  /\ srv.total \in 0..MaxRows
  /\ CursorOpen => PageOf(stmt, srv)
  /\ dm.st = "S3" => \/ Blank(stmt)
                     \/ stmt.early /\ stmt.rset.body /\ Whole(stmt, srv)
  /\ call.on => app.rows = <<>> /\ call.i = Len(call.rows) + call.errors

\* A step that keeps the invariant and is one of the stream's, or none.
Streams == PagesAgree' /\ [Stream!Next]_Stream!vars

\* With an open cursor the stream is the page's and the server's; without, it
\* is closed.
LEMMA StreamPhases ==
  ASSUME Consistent
  PROVE  /\ Opened <=> CursorOpen
         /\ Idle => call = NoCall /\ call.on = FALSE /\ call.rows = <<>> /\ call.errors = 0
         /\ call.on => CursorOpen
BY DEF Consistent, StatesAgree, Opened, Idle, NoCall

\* The row set has room for a row, always.
LEMMA SizePositive ==
  ASSUME NEW s \in StmtType
  PROVE  s.array_size \in Nat \ {0}
BY BoundsAssumption DEF StmtType

\* A call that returns without a fetch opens the stream, closes it, or leaves it.
LEMMA ReturnedStreams ==
  ASSUME Consistent, Consistent', PagesAgree, Idle,
         NEW rc \in Codes, Returns(rc), srv'.total \in 0..MaxRows,
         dm'.st = "S3" => \/ Blank(stmt')
                          \/ stmt'.early /\ stmt'.rset.body /\ Whole(stmt', srv'),
         \/ ~CursorOpen'
         \/ /\ ~CursorOpen /\ rc = "SUCCESS"
            /\ stmt'.tv_rows = 0 /\ Whole(stmt', srv')
         \/ /\ CursorOpen /\ stmt'.rset = stmt.rset /\ stmt'.tv_rows = stmt.tv_rows
            /\ srv' = srv,
         CursorOpen /\ ~CursorOpen' => rc = "SUCCESS"
  PROVE  Streams
<1>1. /\ call = NoCall /\ call' = call /\ call.on = FALSE /\ call.rows = <<>>
      /\ call.errors = 0
      /\ Opened <=> CursorOpen
      /\ Opened' <=> CursorOpen'
  BY StreamPhases DEF Returns, Consistent, StatesAgree, Opened
<1>s. stmt'.array_size \in Nat \ {0}
  BY SizePositive DEF Consistent, TypeOK
<1>2. app'.rc = rc /\ app'.rows = <<>>
  BY DEF Returns, NoApp
<1>3. CASE ~CursorOpen'
  <2>1. PagesAgree'
    BY <1>1, <1>3 DEF PagesAgree
  <2>2. CASE CursorOpen
    <3>1. Stream!Close
      BY <1>s, <1>1, <1>2, <1>3, <2>2 DEF Stream!Close
    <3> QED BY <2>1, <3>1 DEF Streams, Stream!Next
  <2>3. CASE ~CursorOpen
    <3>1. Stream!Other
      BY <1>s, <1>1, <1>2, <1>3, <2>3 DEF Stream!Other, Codes
    <3> QED BY <2>1, <3>1 DEF Streams, Stream!Next
  <2> QED BY <2>2, <2>3
<1>4. CASE /\ CursorOpen' /\ ~CursorOpen /\ rc = "SUCCESS"
           /\ stmt'.tv_rows = 0 /\ Whole(stmt', srv')
  <2>1. PagesAgree'
    BY <1>1, <1>4 DEF PagesAgree, PageOf
  <2>2. Lost' = FALSE
    <3>1. /\ srv'.total \in Nat /\ stmt'.rset.hi \in Nat
          /\ HasCursor(stmt') \/ stmt'.rset.hi = srv'.total
      BY <1>4 DEF Whole, Consistent, TypeOK, StmtType
    <3> QED BY <3>1 DEF Lost, HasCursor
  <2>3. Stream!Open
    BY <1>s, <1>1, <1>2, <1>4, <2>2 DEF Stream!Open
  <2> QED BY <2>1, <2>3 DEF Streams, Stream!Next
<1>5. CASE /\ CursorOpen' /\ CursorOpen /\ stmt'.rset = stmt.rset
           /\ stmt'.tv_rows = stmt.tv_rows /\ srv' = srv
  <2>1. PageOf(stmt', srv')
    BY <1>5 DEF PagesAgree, PageOf, Whole, Broken, HasCursor
  <2>2. PagesAgree'
    BY <1>1, <2>1 DEF PagesAgree
  <2>3. Lost' = Lost
    BY <1>5 DEF Lost, HasCursor
  <2>4. Stream!Other
    BY <1>s, <1>1, <1>2, <1>5, <2>3 DEF Stream!Other, Codes
  <2> QED BY <2>2, <2>4 DEF Streams, Stream!Next
<1> QED BY <1>3, <1>4, <1>5

\* What closing leaves has nothing of a result (clear_desc).
LEMMA ClosedBlank ==
  ASSUME NEW s, WellFormed(s)
  PROVE  /\ Blank(FreeStmtClose(s))
         /\ Blank(AttachSql(FreeStmtEsClose(s)))
<1>1. ASSUME NEW u, WellFormed(u)
      PROVE  Blank(ClearIrd(u)) /\ ClearIrd(u) \in StmtType
  BY <1>1, ClearIrdEffect DEF Blank, InitIrd, Unopened, EmptyRset, HasCursor
<1>2. WellFormed(DetachSql(s))
  BY DEF WellFormed, Unopened, DetachSql, StmtType
<1> DEFINE c == ClearIrd(DetachSql(s))
<1>3. Blank(c) /\ c \in StmtType
  BY <1>1, <1>2
<1>4. FreeStmtEsClose(s) = c
  BY DEF FreeStmtEsClose
<1> HIDE DEF c
<1>5. Blank(AttachSql(c))
  BY <1>3 DEF AttachSql, Blank, HasCursor, StmtType
<1> QED BY <1>1, <1>4, <1>5 DEF FreeStmtClose

\* Closing the cursor, heard or not, does not change what the query returns.
LEMMA AfterCloseTotal ==
  ASSUME NEW s, NEW w \in SrvType, NEW heard \in BOOLEAN
  PROVE  AfterClose(s, w, heard).total = w.total
BY DEF AfterClose, SrvType

-----------------------------------------------------------------------------
(* One lemma for each call, or two that are close.                         *)

\* A query sent from a blank statement opens its stream or leaves it blank.
LEMMA ExecuteBlank ==
  ASSUME Orderly, NEW s, WellFormed(s), Blank(s), NEW w \in SrvType,
         w.total \in 0..MaxRows, s.early => ~s.rset.body, NEW o \in Execute(s, w)
  PROVE  /\ o.w.total \in 0..MaxRows /\ o.s.tv_rows = 0
         /\ o.ok => Whole(o.s, o.w)
         /\ ~o.ok => Blank(o.s)
<1> DEFINE t == [s EXCEPT !.early = FALSE]
<1>1. WellFormed(t) /\ Blank(t)
  BY DEF WellFormed, Unopened, StmtType, Blank, HasCursor
<1>2. o \in Request(t, w)
  BY DEF Execute
<1> HIDE DEF t
<1> QED BY <1>1, <1>2, QueryEffect

\* SQLPrepare leaves the stream closed, with the first page at hand if it
\* executed the query.
LEMMA PrepareStreams ==
  ASSUME Orderly, Consistent, Consistent', PagesAgree, Prepare
  PROVE  Streams
<1> PICK heard \in BOOLEAN, markers \in BOOLEAN :
      LET s == AttachSql(FreeStmtEsClose(stmt))
          w == AfterClose(stmt, srv, heard)
      IN  \/ /\ ~early_exec \/ markers
             /\ stmt' = s /\ srv' = w
             /\ dm' = [st |-> "S3", prep |-> TRUE]
             /\ Returns("SUCCESS")
          \/ /\ early_exec /\ ~markers
             /\ \E o \in Execute(s, w) :
                  /\ stmt' = [o.s EXCEPT !.early = o.ok]
                  /\ srv' = o.w
                  /\ dm' = [st |-> IF o.ok THEN "S3" ELSE "S1", prep |-> o.ok]
                  /\ Returns(Code(o.ok))
  BY DEF Prepare
<1> DEFINE s == AttachSql(FreeStmtEsClose(stmt))
           w == AfterClose(stmt, srv, heard)
<1>1. /\ WellFormed(s) /\ Blank(s) /\ s.early = FALSE
      /\ w \in SrvType /\ w.total \in 0..MaxRows /\ Held(s, w)
  BY ClosedEffect, ClosedBlank, ConsistentMatches, AfterCloseEffect, AfterCloseTotal
     DEF Consistent, PagesAgree
<1>2. Idle /\ ~CursorOpen
  BY DEF Prepare, CursorOpen
<1> HIDE DEF s, w
<1>3. CASE /\ stmt' = s /\ srv' = w
           /\ dm' = [st |-> "S3", prep |-> TRUE]
           /\ Returns("SUCCESS")
  <2>1. ~CursorOpen' /\ "SUCCESS" \in Codes
    BY <1>3 DEF CursorOpen, Codes
  <2> QED BY <1>1, <1>2, <1>3, <2>1, ReturnedStreams
<1>4. CASE \E o \in Execute(s, w) :
             /\ stmt' = [o.s EXCEPT !.early = o.ok]
             /\ srv' = o.w
             /\ dm' = [st |-> IF o.ok THEN "S3" ELSE "S1", prep |-> o.ok]
             /\ Returns(Code(o.ok))
  <2> PICK o \in Execute(s, w) :
             /\ stmt' = [o.s EXCEPT !.early = o.ok]
             /\ srv' = o.w
             /\ dm' = [st |-> IF o.ok THEN "S3" ELSE "S1", prep |-> o.ok]
             /\ Returns(Code(o.ok))
    BY <1>4
  <2>1. /\ WellFormed(o.s) /\ o.ok \in BOOLEAN
        /\ o.ok => o.s.rset.body
    BY <1>1, ExecuteEffect
  <2>2. o.w.total \in 0..MaxRows /\ (o.ok => Whole(o.s, o.w))
    BY <1>1, ExecuteBlank
  <2>3. /\ stmt'.early = o.ok /\ stmt'.rset = o.s.rset
        /\ stmt'.tv_rows = o.s.tv_rows
    BY <2>1 DEF WellFormed, StmtType
  <2>4. ~CursorOpen' /\ Code(o.ok) \in Codes
    BY <2>1 DEF CursorOpen, Code, Codes
  <2>5. o.ok => stmt'.early /\ stmt'.rset.body /\ Whole(stmt', srv')
    BY <2>1, <2>2, <2>3 DEF Whole, HasCursor
  <2>6. dm'.st = "S3" => o.ok
    BY <2>1
  <2> QED BY <1>2, <2>2, <2>4, <2>5, <2>6, ReturnedStreams
<1> QED BY <1>3, <1>4 DEF s, w

\* A query that cannot be attached leaves the stream closed.
LEMMA AttachSqlFailsStreams ==
  ASSUME Consistent, Consistent', PagesAgree, AttachSqlFails
  PROVE  Streams
<1>1. Idle /\ Returns("ERROR") /\ dm' = [st |-> "S1", prep |-> FALSE]
      /\ ~CursorOpen /\ ~CursorOpen' /\ "ERROR" \in Codes
  BY DEF AttachSqlFails, CursorOpen, Codes
<1>2. srv'.total \in 0..MaxRows
  BY ConsistentMatches, AfterCloseTotal DEF AttachSqlFails, PagesAgree
<1> QED BY <1>1, <1>2, ReturnedStreams

\* SQLExecDirect opens the stream, before the first row, or leaves it closed.
LEMMA ExecDirectStreams ==
  ASSUME Orderly, Consistent, Consistent', PagesAgree, ExecDirect
  PROVE  Streams
<1> PICK heard \in BOOLEAN :
      \E o \in Execute(AttachSql(FreeStmtEsClose(stmt)), AfterClose(stmt, srv, heard)) :
        /\ stmt' = DetachSql(o.s) /\ srv' = o.w
        /\ dm' = [st |-> IF o.ok THEN "S5" ELSE "S1", prep |-> FALSE]
        /\ Returns(Code(o.ok))
  BY DEF ExecDirect
<1> DEFINE s == AttachSql(FreeStmtEsClose(stmt))
           w == AfterClose(stmt, srv, heard)
<1>1. /\ WellFormed(s) /\ Blank(s) /\ s.early = FALSE
      /\ w \in SrvType /\ w.total \in 0..MaxRows /\ Held(s, w)
  BY ClosedEffect, ClosedBlank, ConsistentMatches, AfterCloseEffect, AfterCloseTotal
     DEF Consistent, PagesAgree
<1>2. Idle /\ ~CursorOpen
  BY DEF ExecDirect, CursorOpen
<1> HIDE DEF s, w
<1> PICK o \in Execute(s, w) :
      /\ stmt' = DetachSql(o.s) /\ srv' = o.w
      /\ dm' = [st |-> IF o.ok THEN "S5" ELSE "S1", prep |-> FALSE]
      /\ Returns(Code(o.ok))
  BY DEF s, w
<1>3. WellFormed(o.s) /\ o.ok \in BOOLEAN
  BY <1>1, ExecuteEffect
<1>4. o.w.total \in 0..MaxRows /\ o.s.tv_rows = 0 /\ (o.ok => Whole(o.s, o.w))
  BY <1>1, ExecuteBlank
<1>5. stmt'.rset = o.s.rset /\ stmt'.tv_rows = o.s.tv_rows
  BY <1>3 DEF DetachSql, WellFormed, StmtType
<1>6. /\ Code(o.ok) \in Codes /\ dm'.st # "S3"
      /\ o.ok => Code(o.ok) = "SUCCESS" /\ Whole(stmt', srv')
      /\ ~o.ok => ~CursorOpen'
  BY <1>3, <1>4, <1>5 DEF Code, Codes, CursorOpen, Whole, HasCursor
<1> QED BY <1>2, <1>3, <1>4, <1>5, <1>6, ReturnedStreams

\* SQLExecute opens the stream: with the page of the early execution, which
\* nothing has touched, or with the answer to its own request.
LEMMA ExecutePreparedStreams ==
  ASSUME Orderly, Consistent, Consistent', PagesAgree, ExecutePrepared
  PROVE  Streams
<1> PICK o \in Execute(stmt, srv) :
      /\ stmt' = o.s /\ srv' = o.w
      /\ dm' = [dm EXCEPT !.st = IF o.ok THEN "S5" ELSE "S3"]
      /\ Returns(Code(o.ok))
  BY DEF ExecutePrepared
<1>1. /\ Matches(stmt, dm) /\ Held(stmt, srv) /\ srv \in SrvType /\ dm \in DmType
      /\ WellFormed(stmt)
  BY ConsistentMatches DEF Consistent
<1>2. /\ WellFormed(o.s) /\ o.ok \in BOOLEAN
  BY <1>1, ExecuteEffect DEF Matches
<1>3. Idle /\ ~CursorOpen /\ dm.st = "S3" /\ srv.total \in 0..MaxRows
  BY DEF ExecutePrepared, CursorOpen, PagesAgree
<1>4. /\ Code(o.ok) \in Codes
      /\ o.ok => Code(o.ok) = "SUCCESS" /\ dm'.st = "S5"
      /\ ~o.ok => ~CursorOpen' /\ dm'.st = "S3"
  BY <1>1, <1>2 DEF Code, Codes, CursorOpen, DmType
<1>5. CASE stmt.early /\ stmt.rset.body
  <2>1. o = Outcome([stmt EXCEPT !.early = FALSE], srv, TRUE)
    BY <1>5 DEF Execute
  <2>2. /\ o.s.rset = stmt.rset /\ o.s.tv_rows = stmt.tv_rows /\ o.w = srv /\ o.ok
    BY <1>1, <2>1 DEF Outcome, WellFormed, StmtType
  <2>3. Whole(stmt, srv) /\ stmt.tv_rows = 0
    <3>1. stmt.tv_rows = 0
      BY <1>5 DEF Consistent, EarlyResultUntouched
    <3>2. Blank(stmt) => FALSE
      BY <1>1, <1>5 DEF Matches, Blank
    <3> QED BY <1>3, <3>1, <3>2 DEF PagesAgree
  <2>4. Whole(stmt', srv')
    BY <2>2, <2>3 DEF Whole, HasCursor
  <2> QED BY <1>3, <1>4, <2>2, <2>3, <2>4, ReturnedStreams
<1>6. CASE ~(stmt.early /\ stmt.rset.body)
  <2>1. Blank(stmt) /\ (stmt.early => ~stmt.rset.body)
    BY <1>3, <1>6 DEF PagesAgree
  <2>2. /\ o.w.total \in 0..MaxRows /\ o.s.tv_rows = 0
        /\ o.ok => Whole(o.s, o.w)
        /\ ~o.ok => Blank(o.s)
    BY <1>1, <1>3, <2>1, ExecuteBlank
  <2> QED BY <1>2, <1>3, <1>4, <2>2, ReturnedStreams
<1> QED BY <1>5, <1>6

\* Closing ends the stream (SQL_CLOSE, SQLCloseCursor).
LEMMA CloseStreams ==
  ASSUME Consistent, Consistent', PagesAgree, CloseCursor \/ FreeStmt
  PROVE  Streams
<1>1. Idle /\ Close /\ Returns("SUCCESS") /\ "SUCCESS" \in Codes
  BY DEF CloseCursor, FreeStmt, Close, Codes
<1>2. srv'.total \in 0..MaxRows
  BY <1>1, ConsistentMatches, AfterCloseTotal DEF Close, PagesAgree
<1>3. ~CursorOpen' /\ Blank(stmt')
  <2>1. dm' = [dm EXCEPT !.st = IF dm.prep THEN "S3" ELSE "S1"] /\ dm \in DmType
    BY <1>1, ConsistentMatches DEF Close
  <2>2. Blank(stmt')
    BY <1>1, ClosedBlank DEF Close, Consistent
  <2> QED BY <2>1, <2>2 DEF CursorOpen, DmType
<1> QED BY <1>1, <1>2, <1>3, ReturnedStreams

\* Freeing the statement ends it; a new one has none.
LEMMA HandleStreams ==
  ASSUME Consistent, Consistent', PagesAgree, FreeHandle \/ AllocHandle
  PROVE  Streams
<1>1. Returns("SUCCESS") /\ "SUCCESS" \in Codes
  BY DEF FreeHandle, AllocHandle, Codes
<1>2. srv'.total \in 0..MaxRows
  BY ConsistentMatches, AfterCloseTotal DEF FreeHandle, AllocHandle, PagesAgree
<1>3. Idle
  BY DEF FreeHandle, AllocHandle, Consistent, StatesAgree, CursorOpen, Idle
<1>4. ~CursorOpen' /\ dm'.st # "S3"
  BY ConsistentMatches DEF FreeHandle, AllocHandle, CursorOpen, DmType
<1> QED BY <1>1, <1>2, <1>3, <1>4, ReturnedStreams

\* A SQLFetch that its conversion check refuses leaves the stream where it is.
LEMMA FetchRefusedStreams ==
  ASSUME Consistent, Consistent', PagesAgree, FetchRefused
  PROVE  Streams
<1>1. Idle /\ CursorOpen /\ Returns("ERROR") /\ "ERROR" \in Codes
      /\ dm' = dm /\ srv' = srv /\ stmt' = [stmt EXCEPT !.conv = Checked(stmt)]
  BY DEF FetchRefused, Codes
<1>2. stmt'.rset = stmt.rset /\ stmt'.tv_rows = stmt.tv_rows
  BY <1>1 DEF Consistent, TypeOK, StmtType
<1>3. CursorOpen' /\ dm'.st # "S3" /\ srv'.total \in 0..MaxRows
  BY <1>1 DEF CursorOpen, PagesAgree
<1> QED BY <1>1, <1>2, <1>3, ReturnedStreams

\* Between fetches, binding and SQLGetData leave the page and the position alone.
LEMMA StillStreams ==
  ASSUME Consistent, Consistent', PagesAgree, Idle, UNCHANGED <<dm, srv, call>>,
         stmt'.rset = stmt.rset, stmt'.tv_rows = stmt.tv_rows,
         stmt'.early = stmt.early, stmt'.ird.cols = stmt.ird.cols,
         app'.rc \in Codes, app'.rows = app.rows
  PROVE  Streams
<1>1. PagesAgree'
  BY DEF PagesAgree, PageOf, Whole, Broken, Blank, HasCursor, CursorOpen
<1>2. Opened' = Opened /\ Lost' = Lost
  BY DEF Opened, CursorOpen, Lost, HasCursor
<1>3. stmt'.array_size \in Nat \ {0}
  BY SizePositive DEF Consistent, TypeOK
<1>4. Stream!Other
  BY <1>2, <1>3 DEF Stream!Other, Idle, Codes
<1> QED BY <1>1, <1>4 DEF Streams, Stream!Next

\* Binding columns and setting the row set's size do (EsSQLBindCol, SQL_UNBIND).
LEMMA BindingStreams ==
  ASSUME Consistent, Consistent', PagesAgree, BindCol \/ Unbind \/ BindUnflagged \/ SetArraySize
  PROVE  Streams
<1>1. PICK s : /\ Rebinds(s) /\ s.rset = stmt.rset /\ s.tv_rows = stmt.tv_rows
               /\ s.early = stmt.early /\ s.ird = stmt.ird
  <2>1. stmt \in StmtType
    BY DEF Consistent, TypeOK
  <2>2. CASE BindCol
    <3> PICK c \in CTypes :
          Rebinds([stmt EXCEPT !.bound = c, !.unflagged = FALSE, !.conv = "UNCHECKED"])
      BY <2>2 DEF BindCol
    <3> DEFINE s == [stmt EXCEPT !.bound = c, !.unflagged = FALSE, !.conv = "UNCHECKED"]
    <3>1. /\ s.rset = stmt.rset /\ s.tv_rows = stmt.tv_rows
          /\ s.early = stmt.early /\ s.ird = stmt.ird
      BY <2>1 DEF StmtType
    <3> QED BY <3>1
  <2>3. CASE Unbind
    <3> DEFINE s == [stmt EXCEPT !.bound = NoType]
    <3>1. /\ Rebinds(s) /\ s.rset = stmt.rset /\ s.tv_rows = stmt.tv_rows
          /\ s.early = stmt.early /\ s.ird = stmt.ird
      BY <2>1, <2>3 DEF StmtType, Unbind
    <3> QED BY <3>1
  <2>4. CASE BindUnflagged
    <3> PICK c \in CTypes : Rebinds([stmt EXCEPT !.bound = c, !.unflagged = TRUE])
      BY <2>4 DEF BindUnflagged
    <3> DEFINE s == [stmt EXCEPT !.bound = c, !.unflagged = TRUE]
    <3>1. /\ s.rset = stmt.rset /\ s.tv_rows = stmt.tv_rows
          /\ s.early = stmt.early /\ s.ird = stmt.ird
      BY <2>1 DEF StmtType
    <3> QED BY <3>1
  <2>5. CASE SetArraySize
    <3> PICK n \in ArraySizes : Rebinds([stmt EXCEPT !.array_size = n])
      BY <2>5 DEF SetArraySize
    <3> DEFINE s == [stmt EXCEPT !.array_size = n]
    <3>1. /\ s.rset = stmt.rset /\ s.tv_rows = stmt.tv_rows
          /\ s.early = stmt.early /\ s.ird = stmt.ird
      BY <2>1 DEF StmtType
    <3> QED BY <3>1
  <2> QED BY <2>2, <2>3, <2>4, <2>5
<1>2. stmt' = s /\ UNCHANGED <<early_exec, dm, srv, call, app>>
  BY <1>1 DEF Rebinds
<1>3. Idle /\ app.rc \in Codes
  BY DEF BindCol, Unbind, BindUnflagged, SetArraySize, Consistent, TypeOK
<1> QED BY <1>1, <1>2, <1>3, StillStreams

\* So does SQLGetData, whatever it returns.
LEMMA GetDataStreams ==
  ASSUME Consistent, Consistent', PagesAgree,
         GetDataExhausted \/ GetDataRefused \/ GetDataCopies
  PROVE  Streams
<1>1. stmt \in StmtType /\ app \in AppType
  BY DEF Consistent, TypeOK, AppType
<1>2. Idle /\ UNCHANGED <<dm, srv, call>>
  BY DEF GetDataExhausted, GetDataRefused, GetDataCopies, GdReturns
<1>3. /\ stmt'.rset = stmt.rset /\ stmt'.tv_rows = stmt.tv_rows
      /\ stmt'.early = stmt.early /\ stmt'.ird.cols = stmt.ird.cols
      /\ app'.rc \in Codes /\ app'.rows = app.rows
  <2>1. CASE GetDataExhausted
    BY <1>1, <2>1 DEF GetDataExhausted, GdReturns, StmtType, AppType, Codes
  <2>2. CASE GetDataRefused
    BY <1>1, <2>2 DEF GetDataRefused, GdReturns, StmtType, AppType, Codes
  <2>3. CASE GetDataCopies
    <3>1. PICK copied \in BOOLEAN : \E gd, read :
            /\ stmt' = [stmt EXCEPT !.conv = "UNCHECKED", !.gd = gd]
            /\ app' = [app EXCEPT !.rc = Code(copied), !.read = read]
      BY <2>3 DEF GetDataCopies
    <3>2. PICK gd, read :
            /\ stmt' = [stmt EXCEPT !.conv = "UNCHECKED", !.gd = gd]
            /\ app' = [app EXCEPT !.rc = Code(copied), !.read = read]
      BY <3>1
    <3> QED BY <1>1, <3>2 DEF StmtType, AppType, Code, Codes
  <2> QED BY <2>1, <2>2, <2>3
<1> QED BY <1>2, <1>3, StillStreams

\* A SQLFetch that begins is one of the stream.
LEMMA FetchBeginStreams ==
  ASSUME Consistent, PagesAgree, FetchBegin
  PROVE  Streams
<1>1. /\ stmt' = [stmt EXCEPT !.conv = Checked(stmt), !.gd = NoGd]
      /\ call' = [NoCall EXCEPT !.on = TRUE]
      /\ app' = NoApp /\ dm' = dm /\ srv' = srv /\ Idle /\ CursorOpen
  BY DEF FetchBegin
<1>2. /\ stmt'.rset = stmt.rset /\ stmt'.tv_rows = stmt.tv_rows
      /\ call'.on = TRUE /\ call'.i = 0 /\ call'.rows = <<>> /\ call'.errors = 0
      /\ app'.rc = "SUCCESS" /\ app'.rows = <<>> /\ CursorOpen' /\ dm'.st # "S3"
      /\ stmt'.array_size = stmt.array_size
  BY <1>1 DEF Consistent, TypeOK, StmtType, NoCall, NoApp, CursorOpen
<1>3. /\ call.on = FALSE /\ call.rows = <<>> /\ call.errors = 0 /\ Opened /\ Opened'
  BY <1>1, <1>2, StreamPhases DEF Opened
<1>4. PagesAgree'
  BY <1>1, <1>2 DEF PagesAgree, PageOf, Whole, Broken, HasCursor
<1>5. Lost' = Lost
  BY <1>1, <1>2 DEF Lost, HasCursor
<1>6. Stream!Begin
  BY <1>1, <1>2, <1>3, <1>5 DEF Stream!Begin
<1> QED BY <1>4, <1>6 DEF Streams, Stream!Next

\* Each row that is taken is the next one of the query, delivered or passed over.
LEMMA FetchRowStreams ==
  ASSUME Consistent, Consistent', PagesAgree, FetchRow
  PROVE  Streams
<1> PICK ival \in Refs, e \in Nat, r \in Seq(Nat) : Taken(ival, e, r)
  BY RowTaken
<1>1. /\ stmt' = [stmt EXCEPT !.rset.lo = @ + 1, !.tv_rows = @ + 1,
                              !.ird.ival = ival]
      /\ UNCHANGED <<early_exec, dm, srv, app>>
      /\ call.on /\ stmt.rset.lo # stmt.rset.hi /\ call.i < stmt.array_size
  BY DEF FetchRow, RowsWanted, PageEmpty, Taken
<1>2. /\ stmt \in StmtType /\ stmt.rset.lo <= stmt.rset.hi /\ call \in CallType
      /\ CursorOpen /\ stmt.rset.body /\ stmt.rset.lo \in Nat
      /\ stmt.rset.hi \in Nat /\ stmt.tv_rows \in Nat /\ srv.total \in Nat
      /\ call.i \in Nat /\ call.errors \in Nat /\ call.rows \in Seq(Nat)
      /\ stmt.array_size \in Nat
  BY <1>1, FetchingFacts DEF WellFormed, StmtType, SrvType, CallType
<1>3. Whole(stmt, srv)
  BY <1>1, <1>2 DEF PagesAgree, PageOf, Broken
<1>4. /\ stmt'.rset.lo = stmt.rset.lo + 1 /\ stmt'.tv_rows = stmt.tv_rows + 1
      /\ stmt'.rset.hi = stmt.rset.hi /\ stmt'.rset.curs = stmt.rset.curs
      /\ stmt'.rset.body = stmt.rset.body /\ stmt'.array_size = stmt.array_size
  BY <1>1, <1>2 DEF StmtType
<1>5. /\ call'.on = call.on /\ call'.i = call.i + 1
      /\ call'.errors = e /\ call'.rows = r
  BY <1>2 DEF CallType, Taken
<1>6. Whole(stmt', srv') /\ CursorOpen' /\ dm'.st # "S3"
  BY <1>1, <1>2, <1>3, <1>4 DEF Whole, HasCursor, CursorOpen
<1>7. /\ call.i = Len(call.rows) + call.errors
      /\ stmt.rset.lo = stmt.tv_rows
      /\ stmt.tv_rows < srv.total
  BY <1>1, <1>2, <1>3 DEF Whole, PagesAgree
<1>8. \/ e = call.errors /\ r = Append(call.rows, stmt.tv_rows + 1)
      \/ e = call.errors + 1 /\ r = call.rows
  BY <1>7 DEF Taken
<1>9. PagesAgree'
  <2>1. Len(Append(call.rows, stmt.tv_rows + 1)) = Len(call.rows) + 1
        /\ Len(call.rows) \in Nat
    BY <1>2
  <2>2. e + Len(r) = call.errors + Len(call.rows) + 1
    <3>1. CASE e = call.errors /\ r = Append(call.rows, stmt.tv_rows + 1)
      <4>1. Len(r) = Len(call.rows) + 1
        BY <2>1, <3>1
      <4>2. e = call.errors /\ call.errors \in Nat /\ Len(call.rows) \in Nat
        BY <1>2, <2>1, <3>1
      <4> QED BY <4>1, <4>2
    <3>2. CASE e = call.errors + 1 /\ r = call.rows
      BY <1>2, <2>1, <3>2
    <3> QED BY <1>8, <3>1, <3>2
  <2>3. call'.i = Len(call'.rows) + call'.errors
    <3>1. Len(r) \in Nat /\ Len(call.rows) \in Nat
      BY <1>2
    <3> QED BY <1>2, <1>5, <1>7, <2>2, <3>1
  <2> QED BY <1>1, <1>5, <1>6, <2>3 DEF PagesAgree, PageOf
<1>10. Opened /\ Opened' /\ Lost' = Lost
  BY <1>1, <1>2, <1>4, <1>6 DEF Opened, Lost, HasCursor
<1>11. Len(call.rows) + call.errors # stmt.array_size
  BY <1>1, <1>2, <1>7
<1>12. CASE e = call.errors /\ r = Append(call.rows, stmt.tv_rows + 1)
  <2>1. Stream!Take
    BY <1>1, <1>4, <1>5, <1>7, <1>10, <1>11, <1>12 DEF Stream!Take, Stream!Filled
  <2> QED BY <1>9, <2>1 DEF Streams, Stream!Next
<1>13. CASE e = call.errors + 1 /\ r = call.rows
  <2>1. Stream!Skip
    BY <1>1, <1>4, <1>5, <1>7, <1>10, <1>11, <1>13 DEF Stream!Skip, Stream!Filled
  <2> QED BY <1>9, <2>1 DEF Streams, Stream!Next
<1> QED BY <1>8, <1>12, <1>13

\* A SQLFetch that returns delivers what it copied, fails, or found the end.
LEMMA FetchReturnsStreams ==
  ASSUME Consistent, Consistent', PagesAgree, call.on,
         FetchReturns(call.i, call.errors), srv'.total = srv.total,
         stmt'.tv_rows = stmt.tv_rows, stmt'.array_size = stmt.array_size,
         PageOf(stmt', srv'), Lost' = Lost,
         call.i < stmt.array_size => stmt.tv_rows = srv.total \/ Lost
  PROVE  Streams
<1> DEFINE rc == IF call.i = 0 THEN "NO_DATA"
                 ELSE IF call.i <= call.errors THEN "ERROR" ELSE "SUCCESS"
           rows == IF rc = "SUCCESS" THEN call.rows ELSE <<>>
<1>1. /\ call' = NoCall /\ app'.rc = rc /\ app'.rows = rows
      /\ dm' = [dm EXCEPT !.st = IF rc = "ERROR" THEN @ ELSE "S6"]
  BY DEF FetchReturns
<1>2. /\ CursorOpen /\ dm \in DmType /\ Opened
      /\ app.rows = <<>> /\ call.i = Len(call.rows) + call.errors
      /\ stmt.rset.body /\ call \in CallType
  BY FetchingFacts DEF Opened, PagesAgree
<1>3. /\ call'.on = FALSE /\ call'.rows = <<>> /\ call'.errors = 0
      /\ CursorOpen' /\ dm'.st # "S3"
  BY <1>1, <1>2 DEF NoCall, CursorOpen, DmType
<1>4. Opened'
  BY <1>3, StreamPhases DEF Consistent, StatesAgree, Opened
<1>5. PagesAgree'
  BY <1>3 DEF PagesAgree
<1>6. /\ call.i = 0 => call.rows = <<>> /\ call.errors = 0
      /\ call.i # 0 /\ call.i <= call.errors => call.rows = <<>> /\ call.errors > 0
      /\ call.i # 0 /\ ~(call.i <= call.errors) => call.rows # <<>>
  <2>1. call.rows \in Seq(Nat) /\ call.errors \in Nat
    BY <1>2 DEF CallType
  <2>2. Len(call.rows) \in Nat /\ (Len(call.rows) = 0 <=> call.rows = <<>>)
    BY <2>1
  <2> QED BY <1>2, <2>1, <2>2
<1>7. \/ Len(call.rows) + call.errors = stmt.array_size
      \/ stmt.tv_rows = srv.total \/ Lost
  <2>1. call.i <= stmt.array_size /\ call.i \in Nat /\ stmt.array_size \in Nat
    BY <1>2, SizePositive DEF Consistent, TypeOK, CallType
  <2> QED BY <1>2, <2>1
<1>8. Stream!AtEnd \/ Stream!Filled
  BY <1>2, <1>7 DEF Stream!AtEnd, Stream!Filled
<1>9. ASSUME NEW code, rc = code
      PROVE  Stream!Return(code)
  BY <1>1, <1>2, <1>3, <1>4, <1>9 DEF Stream!Return
<1>10. CASE call.i = 0
  <2>1. stmt.tv_rows = srv.total \/ Lost
    <3>1. stmt.array_size > 0
      BY SizePositive DEF Consistent, TypeOK
    <3> QED BY <1>10, <3>1
  <2>2. rc = "NO_DATA" /\ app'.rows = app.rows /\ Stream!Return("NO_DATA")
    BY <1>1, <1>2, <1>9, <1>10
  <2>3. Stream!End
    BY <1>2, <1>4, <1>6, <1>10, <2>1, <2>2 DEF Stream!End, Stream!AtEnd
  <2> QED BY <1>5, <2>3 DEF Streams, Stream!Next
<1>11. CASE call.i # 0 /\ call.i <= call.errors
  <2>1. rc = "ERROR" /\ app'.rows = app.rows /\ Stream!Return("ERROR")
    BY <1>1, <1>2, <1>9, <1>11
  <2>2. Stream!AllFailed
    BY <1>2, <1>4, <1>6, <1>8, <1>11, <2>1 DEF Stream!AllFailed
  <2> QED BY <1>5, <2>2 DEF Streams, Stream!Next
<1>12. CASE call.i # 0 /\ ~(call.i <= call.errors)
  <2>1. rc = "SUCCESS" /\ app'.rows = call.rows /\ Stream!Return("SUCCESS")
    BY <1>1, <1>9, <1>12
  <2>2. Stream!Deliver
    BY <1>2, <1>4, <1>6, <1>8, <1>12, <2>1 DEF Stream!Deliver
  <2> QED BY <1>5, <2>2 DEF Streams, Stream!Next
<1> QED BY <1>10, <1>11, <1>12

\* With the row set full, or no row and no cursor left, it returns.
LEMMA FetchEndStreams ==
  ASSUME Consistent, Consistent', PagesAgree, FetchEnd
  PROVE  Streams
<1>1. /\ call.on /\ FetchReturns(call.i, call.errors) /\ stmt' = stmt /\ srv' = srv
      /\ ~(call.i < stmt.array_size) \/ (PageEmpty(stmt) /\ ~HasCursor(stmt))
  BY DEF FetchEnd, RowsWanted
<1>2. /\ CursorOpen /\ call.i \in Nat /\ stmt.array_size \in Nat \ {0}
      /\ stmt.tv_rows \in Nat /\ srv.total \in Nat /\ stmt.rset.hi \in Nat
  BY <1>1, FetchingFacts, BoundsAssumption DEF WellFormed, StmtType, SrvType, CallType
<1>3. PageOf(stmt, srv) /\ PageOf(stmt', srv') /\ Lost' = Lost
  BY <1>1, <1>2 DEF PagesAgree, PageOf, Whole, Broken, HasCursor, Lost
<1>4. ASSUME call.i < stmt.array_size
      PROVE  stmt.tv_rows = srv.total \/ Lost
  <2>1. PageEmpty(stmt) /\ ~HasCursor(stmt)
    BY <1>1, <1>2, <1>4
  <2> QED BY <1>2, <1>3, <2>1 DEF PageOf, Whole, Broken, PageEmpty, Lost
<1> QED BY <1>1, <1>3, <1>4, FetchReturnsStreams

\* Turning a page is not seen in the stream, unless it fails.
LEMMA FetchTurnStreams ==
  ASSUME Orderly, Consistent, Consistent', PagesAgree, FetchTurn
  PROVE  Streams
<1> PICK o \in Execute(stmt, srv) :
      /\ stmt' = o.s /\ srv' = o.w
      /\ \/ /\ ~o.ok /\ call' = NoCall
            /\ app' = [NoApp EXCEPT !.rc = "ERROR"] /\ UNCHANGED dm
         \/ /\ o.ok /\ ~o.s.rset.forced /\ UNCHANGED <<call, app, dm>>
         \/ /\ o.ok /\ o.s.rset.forced /\ FetchReturns(call.i, call.errors)
  BY DEF FetchTurn
<1>1. call.on /\ PageEmpty(stmt) /\ HasCursor(stmt) /\ call.i < stmt.array_size
  BY DEF FetchTurn, RowsWanted
<1>2. /\ WellFormed(stmt) /\ srv \in SrvType /\ CursorOpen /\ Held(stmt, srv)
      /\ stmt.ird.cols # NoType /\ stmt.early = FALSE /\ call \in CallType
      /\ PageOf(stmt, srv) /\ srv.total \in 0..MaxRows /\ Opened
      /\ stmt.array_size \in Nat /\ call.i = Len(call.rows) + call.errors
  BY <1>1, FetchingFacts DEF PagesAgree, Opened
<1> DEFINE t == [stmt EXCEPT !.early = FALSE]
<1>3. /\ t \in StmtType /\ t.rset = stmt.rset /\ t.ird = stmt.ird
      /\ t.tv_rows = stmt.tv_rows /\ t.gd = stmt.gd
      /\ t.array_size = stmt.array_size
  BY <1>2 DEF WellFormed, StmtType
<1>4. o \in Request(t, srv)
  BY <1>2 DEF Execute
<1>s. stmt'.array_size = stmt.array_size
  BY <1>2, <1>3, ExecuteEffect DEF Keeps
<1> HIDE DEF t
<1>5. /\ WellFormed(t) /\ HasCursor(t) /\ PageOf(t, srv) /\ PageEmpty(t)
      /\ t.ird.cols # NoType
  BY <1>1, <1>2, <1>3 DEF WellFormed, Unopened, HasCursor, PageOf, Whole, Broken,
                          PageEmpty
<1>6. /\ o.w.total = srv.total /\ PageOf(o.s, o.w) /\ o.s.tv_rows = t.tv_rows
      /\ o.ok => Whole(o.s, o.w)
      /\ o.ok /\ o.s.rset.forced => o.s.tv_rows = srv.total
  BY <1>2, <1>4, <1>5, ContinueEffect
<1>7. /\ srv'.total = srv.total /\ PageOf(stmt', srv')
      /\ stmt'.tv_rows = stmt.tv_rows /\ Lost = FALSE
      /\ Lost' \in BOOLEAN
  BY <1>1, <1>3, <1>6 DEF Lost
<1>8. o.ok => Lost' = FALSE
  <2>1. stmt'.rset.hi \in Nat /\ srv'.total \in Nat
    BY DEF Consistent, TypeOK, StmtType
  <2> QED BY <1>6, <2>1 DEF Whole, Lost, HasCursor
<1>9. CASE /\ ~o.ok /\ call' = NoCall
           /\ app' = [NoApp EXCEPT !.rc = "ERROR"] /\ UNCHANGED dm
  <2>1. /\ call'.on = FALSE /\ call'.rows = <<>> /\ call'.errors = 0
        /\ CursorOpen' /\ dm'.st # "S3"
        /\ app'.rc = "ERROR" /\ app'.rows = <<>> /\ app.rows = <<>>
    BY <1>1, <1>2, <1>9 DEF NoCall, NoApp, CursorOpen, PagesAgree
  <2>2. Opened'
    BY <2>1 DEF Consistent, StatesAgree, Opened
  <2>3. PagesAgree'
    BY <1>2, <1>7, <2>1 DEF PagesAgree
  <2>4. Len(call.rows) + call.errors # stmt.array_size
    BY <1>1, <1>2 DEF CallType
  <2>5. Stream!PageFails
    BY <1>1, <1>2, <1>s, <1>7, <2>1, <2>2, <2>4
       DEF Stream!PageFails, Stream!Return, Stream!Filled
  <2> QED BY <2>3, <2>5 DEF Streams, Stream!Next
<1>10. CASE /\ o.ok /\ ~o.s.rset.forced /\ UNCHANGED <<call, app, dm>>
  <2>1. Opened' /\ dm'.st # "S3"
    BY <1>2, <1>10 DEF Consistent, StatesAgree, Opened, CursorOpen
  <2>2. PagesAgree'
    BY <1>2, <1>7, <1>10, <2>1 DEF PagesAgree
  <2>3. UNCHANGED Stream!vars
    BY <1>2, <1>s, <1>7, <1>8, <1>10, <2>1 DEF Stream!vars
  <2> QED BY <2>2, <2>3 DEF Streams
<1>11. CASE /\ o.ok /\ o.s.rset.forced /\ FetchReturns(call.i, call.errors)
  <2>1. stmt.tv_rows = srv.total /\ Lost' = Lost
    BY <1>3, <1>6, <1>7, <1>8, <1>11
  <2> QED BY <1>1, <1>s, <1>7, <1>11, <2>1, FetchReturnsStreams
<1> QED BY <1>9, <1>10, <1>11

-----------------------------------------------------------------------------
(* The conversion check.                                                   *)

\* The flag tells of the columns and the binding there are, unless these were
\* last changed behind its back.
FlagAgrees(s) ==
  s.ird.cols # NoType /\ s.conv = "SUPPORTED" /\ ~s.unflagged
    => Convertible(s) = "SUPPORTED"

FlagInv == FlagAgrees(stmt) /\ (call.on => stmt.conv = "SUPPORTED")

\* New columns reset the flag, and nothing else of a request touches it
\* (attach_columns_json, attach_columns_cbor).
LEMMA ExecuteFlag ==
  ASSUME Orderly, NEW s, WellFormed(s), FlagAgrees(s), NEW w \in SrvType,
         NEW o \in Execute(s, w)
  PROVE  /\ FlagAgrees(o.s)
         /\ s.ird.cols # NoType => o.s.conv = s.conv
<1> DEFINE t == [s EXCEPT !.early = FALSE]
<1>1. /\ WellFormed(t) /\ FlagAgrees(t) /\ t.conv = s.conv /\ t.ird = s.ird
      /\ t.bound = s.bound /\ t.unflagged = s.unflagged
  BY DEF WellFormed, Unopened, StmtType, FlagAgrees, Convertible
<1>2. o = Outcome(t, w, TRUE) \/ o \in Request(t, w)
  BY DEF Execute
<1> HIDE DEF t
<1>3. CASE o = Outcome(t, w, TRUE)
  BY <1>1, <1>3 DEF Outcome
<1>4. CASE o \in Request(t, w)
  <2>1. IsOutcome(o, t, w)
    BY <1>1, <1>4, RequestCases
  <2>2. CASE o = Refused(t, w)
    BY <1>1, <2>2 DEF Refused, Outcome
  <2>3. CASE \E p \in [lo : Nat, hi : Nat, more : BOOLEAN], n \in Nat :
               o = Late(t, w, p, n)
    BY <1>1, <2>3 DEF Late, Outcome
  <2>4. CASE \E a : \E n \in Nat :
               /\ IsAnswer(a) /\ a.page.lo = From(t) /\ a.form \in Forms
               /\ o = Served(t, a, n)
    <3> PICK a : IsAnswer(a) /\ a.form \in Forms /\ o.s = AttachAnswer(t, a)
      BY <2>4 DEF Served, Outcome
    <3>1. a.form # "badcols"
      BY DEF Orderly, Forms
    <3>2. /\ WellFormed(o.s) /\ Keeps(t, o.s)
          /\ t.ird.cols # NoType => o.s.ird.cols = t.ird.cols
          /\ o.s.conv \in {t.conv, "UNCHECKED"}
          /\ t.ird.cols = NoType /\ o.s.ird.cols # NoType => o.s.conv = "UNCHECKED"
      BY <1>1, <3>1, AttachAnswerEffect
    <3>3. ASSUME t.ird.cols # NoType
          PROVE  o.s.conv = t.conv
      <4>1. AttachAnswer(t, a) =
              AttachRows(IF t.rset.body THEN ClearResultset(t, FALSE) ELSE t, a)
        BY <1>1, <3>3 DEF AttachAnswer, ClearResultset, AttachRows, WellFormed, StmtType
      <4>2. CASE t.rset.body
        BY <1>1, <4>1, <4>2 DEF AttachRows, ClearResultset, WellFormed, StmtType
      <4>3. CASE ~t.rset.body
        BY <1>1, <4>1, <4>3 DEF AttachRows, WellFormed, StmtType
      <4> QED BY <4>2, <4>3
    <3>4. FlagAgrees(o.s)
      BY <1>1, <3>2, <3>3 DEF FlagAgrees, Convertible, Keeps
    <3> QED BY <1>1, <3>3, <3>4
  <2> QED BY <2>1, <2>2, <2>3, <2>4 DEF IsOutcome
<1> QED BY <1>2, <1>3, <1>4

\* What prepares or executes begins without columns, or goes on with those the
\* flag was left with.
LEMMA OpenedFlag ==
  ASSUME Orderly, Consistent, FlagInv,
         Prepare \/ AttachSqlFails \/ ExecDirect \/ ExecutePrepared
  PROVE  FlagInv'
<1> DEFINE s == AttachSql(FreeStmtEsClose(stmt))
<1>1. /\ WellFormed(s) /\ s.ird.cols = NoType
      /\ FreeStmtEsClose(stmt).ird.cols = NoType
  <2>1. WellFormed(DetachSql(stmt))
    BY DEF Consistent, WellFormed, Unopened, DetachSql, StmtType
  <2>2. /\ FreeStmtEsClose(stmt).ird = InitIrd
        /\ FreeStmtEsClose(stmt) \in StmtType
    BY <2>1, ClearIrdEffect DEF FreeStmtEsClose
  <2>3. WellFormed(s)
    BY ClosedEffect DEF Consistent
  <2>4. s.ird = InitIrd
    BY <2>2 DEF AttachSql, StmtType
  <2> HIDE DEF s
  <2> QED BY <2>2, <2>3, <2>4 DEF InitIrd
<1>2. FlagAgrees(s)
  BY <1>1 DEF FlagAgrees
<1>3. call'.on = FALSE
  <2>1. Idle /\ call' = call
    BY DEF Prepare, AttachSqlFails, ExecDirect, ExecutePrepared, Returns
  <2> QED BY <2>1, StreamPhases
<1>4. /\ \A heard \in BOOLEAN : AfterClose(stmt, srv, heard) \in SrvType
      /\ srv \in SrvType /\ WellFormed(stmt)
  BY ConsistentMatches, AfterCloseEffect DEF Consistent
<1> HIDE DEF s
<1>5. ASSUME NEW w \in SrvType, Held(s, w), s.early => ~s.rset.body,
             NEW o \in Execute(s, w)
      PROVE  o.s \in StmtType /\ FlagAgrees(o.s)
  BY <1>1, <1>2, <1>5, ExecuteEffect, ExecuteFlag DEF WellFormed
<1>6. Unopened(s) /\ s.early = FALSE
      /\ \A heard \in BOOLEAN : Held(s, AfterClose(stmt, srv, heard))
  BY ClosedEffect, ConsistentMatches, AfterCloseEffect DEF s, Consistent
<1>7. CASE Prepare
  <2>1. CASE stmt' = s
    BY <1>2, <1>3, <2>1 DEF FlagInv
  <2>2. CASE \E heard \in BOOLEAN : \E o \in Execute(s, AfterClose(stmt, srv, heard)) :
               stmt' = [o.s EXCEPT !.early = o.ok]
    <3> PICK heard \in BOOLEAN : \E o \in Execute(s, AfterClose(stmt, srv, heard)) :
               stmt' = [o.s EXCEPT !.early = o.ok]
      BY <2>2
    <3> PICK o \in Execute(s, AfterClose(stmt, srv, heard)) :
               stmt' = [o.s EXCEPT !.early = o.ok]
      OBVIOUS
    <3>1. o.s \in StmtType /\ FlagAgrees(o.s)
      BY <1>4, <1>5, <1>6
    <3>2. /\ stmt'.ird = o.s.ird /\ stmt'.conv = o.s.conv
          /\ stmt'.unflagged = o.s.unflagged /\ stmt'.bound = o.s.bound
      BY <3>1 DEF StmtType
    <3> QED BY <1>3, <3>1, <3>2 DEF FlagInv, FlagAgrees, Convertible
  <2> QED BY <1>7, <2>1, <2>2 DEF Prepare, s
<1>8. CASE AttachSqlFails
  <2>1. stmt' = FreeStmtEsClose(stmt)
    BY <1>8 DEF AttachSqlFails
  <2> QED BY <1>1, <1>3, <2>1 DEF FlagInv, FlagAgrees
<1>9. CASE ExecDirect
  <2> PICK heard \in BOOLEAN : \E o \in Execute(s, AfterClose(stmt, srv, heard)) :
             stmt' = DetachSql(o.s)
    BY <1>9 DEF ExecDirect, s
  <2> PICK o \in Execute(s, AfterClose(stmt, srv, heard)) : stmt' = DetachSql(o.s)
    OBVIOUS
  <2>1. o.s \in StmtType /\ FlagAgrees(o.s)
    BY <1>4, <1>5, <1>6
  <2>2. /\ stmt'.ird = o.s.ird /\ stmt'.conv = o.s.conv
        /\ stmt'.unflagged = o.s.unflagged /\ stmt'.bound = o.s.bound
    BY <2>1 DEF StmtType, DetachSql
  <2> QED BY <1>3, <2>1, <2>2 DEF FlagInv, FlagAgrees, Convertible
<1>10. CASE ExecutePrepared
  <2> PICK o \in Execute(stmt, srv) : stmt' = o.s
    BY <1>10 DEF ExecutePrepared
  <2>1. FlagAgrees(o.s)
    BY <1>4, ExecuteFlag DEF FlagInv
  <2> QED BY <1>3, <2>1 DEF FlagInv
<1> QED BY <1>7, <1>8, <1>9, <1>10

\* What closes, frees or allocates the statement leaves no columns to check.
LEMMA ClosedFlag ==
  ASSUME Consistent, FlagInv, CloseCursor \/ FreeStmt \/ FreeHandle \/ AllocHandle
  PROVE  FlagInv'
<1>1. stmt' = FreeStmtClose(stmt) \/ stmt' = InitStmt
  BY DEF CloseCursor, FreeStmt, Close, FreeHandle, AllocHandle
<1>2. stmt'.ird.cols = NoType
  BY <1>1, ClosedBlank DEF Blank, InitStmt, InitIrd, Consistent
<1>3. call'.on = FALSE
  <2>1. call' = call
    BY DEF CloseCursor, FreeStmt, Close, FreeHandle, AllocHandle, Returns
  <2>2. Idle
    BY DEF CloseCursor, FreeStmt, FreeHandle, AllocHandle, Consistent, StatesAgree,
           CursorOpen, Idle
  <2> QED BY <2>1, <2>2, StreamPhases
<1> QED BY <1>2, <1>3 DEF FlagInv, FlagAgrees

\* SQLBindCol resets the flag, and a binding it does not see marks it; SQLFetch
\* goes by the flag of its check, and SQLGetData resets it.
LEMMA FetchedFlag ==
  ASSUME Orderly, Consistent, FlagInv,
         \/ BindCol \/ Unbind \/ BindUnflagged \/ SetArraySize
         \/ FetchRefused \/ FetchBegin \/ FetchStep
         \/ GetDataExhausted \/ GetDataRefused \/ GetDataCopies
  PROVE  FlagInv'
<1>1. stmt \in StmtType /\ WellFormed(stmt) /\ srv \in SrvType
  BY ConsistentMatches DEF Consistent, WellFormed
<1>2. Idle => call.on = FALSE
  BY StreamPhases
<1>3. CASE BindCol
  <2> PICK c \in CTypes :
        stmt' = [stmt EXCEPT !.bound = c, !.unflagged = FALSE, !.conv = "UNCHECKED"]
    BY <1>3 DEF BindCol, Rebinds
  <2>1. stmt'.conv = "UNCHECKED" /\ call'.on = FALSE
    BY <1>1, <1>2, <1>3 DEF BindCol, Rebinds, StmtType
  <2> QED BY <2>1 DEF FlagInv, FlagAgrees
<1>4. CASE Unbind
  <2>1. stmt'.bound = NoType /\ call'.on = FALSE
    BY <1>1, <1>2, <1>4 DEF Unbind, Rebinds, StmtType
  <2> QED BY <2>1 DEF FlagInv, FlagAgrees, Convertible
<1>5. CASE BindUnflagged
  <2> PICK c \in CTypes : stmt' = [stmt EXCEPT !.bound = c, !.unflagged = TRUE]
    BY <1>5 DEF BindUnflagged, Rebinds
  <2>1. stmt'.unflagged = TRUE /\ call'.on = FALSE
    BY <1>1, <1>2, <1>5 DEF BindUnflagged, Rebinds, StmtType
  <2> QED BY <2>1 DEF FlagInv, FlagAgrees
<1>6. CASE SetArraySize \/ GetDataExhausted \/ GetDataRefused
  <2>1. /\ stmt'.ird = stmt.ird /\ stmt'.conv = stmt.conv
        /\ stmt'.unflagged = stmt.unflagged /\ stmt'.bound = stmt.bound
        /\ call' = call
    <3>1. CASE SetArraySize
      BY <1>1, <3>1 DEF SetArraySize, Rebinds, StmtType
    <3>2. CASE GetDataExhausted
      BY <1>1, <3>2 DEF GetDataExhausted, GdReturns, StmtType
    <3>3. CASE GetDataRefused
      BY <1>1, <3>3 DEF GetDataRefused, GdReturns, StmtType
    <3> QED BY <1>6, <3>1, <3>2, <3>3
  <2> QED BY <2>1 DEF FlagInv, FlagAgrees, Convertible
<1>7. CASE GetDataCopies
  <2>1. PICK gd : stmt' = [stmt EXCEPT !.conv = "UNCHECKED", !.gd = gd]
    BY <1>7 DEF GetDataCopies
  <2>2. stmt'.conv = "UNCHECKED" /\ call'.on = FALSE
    BY <1>1, <1>2, <1>7, <2>1 DEF GetDataCopies, StmtType
  <2> QED BY <2>2 DEF FlagInv, FlagAgrees
<1>8. CASE FetchRefused \/ FetchBegin
  <2>1. /\ stmt'.conv = Checked(stmt) /\ stmt'.ird = stmt.ird
        /\ stmt'.bound = stmt.bound /\ stmt'.unflagged = stmt.unflagged
    <3>1. CASE FetchRefused
      BY <1>1, <3>1 DEF FetchRefused, StmtType
    <3>2. CASE FetchBegin
      BY <1>1, <3>2 DEF FetchBegin, StmtType
    <3> QED BY <1>8, <3>1, <3>2
  <2>2. call'.on => Checked(stmt) = "SUPPORTED"
    <3>1. CASE FetchRefused
      BY <1>2, <3>1 DEF FetchRefused, Returns
    <3>2. CASE FetchBegin
      BY <3>2 DEF FetchBegin
    <3> QED BY <1>8, <3>1, <3>2
  <2>3. FlagAgrees(stmt')
    BY <2>1 DEF FlagInv, FlagAgrees, Checked, Convertible
  <2> QED BY <2>1, <2>2, <2>3 DEF FlagInv
<1>9. CASE FetchRow
  <2> PICK ival \in Refs, e \in Nat, r \in Seq(Nat) : Taken(ival, e, r)
    BY <1>9, RowTaken
  <2>1. /\ stmt'.ird.cols = stmt.ird.cols /\ stmt'.conv = stmt.conv
        /\ stmt'.unflagged = stmt.unflagged /\ stmt'.bound = stmt.bound
        /\ call.on
    BY <1>1, <1>9 DEF FetchRow, RowsWanted, Taken, StmtType
  <2> QED BY <2>1 DEF FlagInv, FlagAgrees, Convertible
<1>10. CASE FetchTurn
  <2> PICK o \in Execute(stmt, srv) : stmt' = o.s
    BY <1>10 DEF FetchTurn
  <2>1. FlagAgrees(o.s) /\ (stmt.ird.cols # NoType => o.s.conv = stmt.conv)
    BY <1>1, ExecuteFlag DEF FlagInv
  <2>2. call.on
    BY <1>10 DEF FetchTurn, RowsWanted
  <2>3. stmt.ird.cols # NoType
    BY <2>2, FetchingFacts
  <2> QED BY <2>1, <2>2, <2>3 DEF FlagInv
<1>11. CASE FetchEnd
  <2>1. stmt' = stmt /\ call.on
    BY <1>11 DEF FetchEnd
  <2> QED BY <2>1 DEF FlagInv, FlagAgrees, Convertible
<1> QED BY <1>3, <1>4, <1>5, <1>6, <1>7, <1>8, <1>9, <1>10, <1>11 DEF FetchStep

-----------------------------------------------------------------------------
(* The theorems.                                                           *)

Streaming == Consistent /\ PagesAgree /\ FlagInv

\* A new statement streams nothing yet.
LEMMA InitStreams == Init => Streaming /\ Stream!Init
<1> SUFFICES ASSUME Init PROVE Streaming /\ Stream!Init
  OBVIOUS
<1>1. Consistent
  BY InitConsistent
<1>2. /\ stmt = InitStmt /\ dm.st = "S1" /\ srv.total = 0 /\ call = NoCall
      /\ app = NoApp
  BY DEF Init
<1>3. /\ call.on = FALSE /\ call.rows = <<>> /\ call.errors = 0
      /\ app.rc = "SUCCESS" /\ app.rows = <<>> /\ stmt.array_size = 1
      /\ ~CursorOpen /\ stmt.ird.cols = NoType
  BY <1>2 DEF NoCall, NoApp, CursorOpen, InitStmt, InitIrd
<1>4. PagesAgree /\ FlagInv
  BY <1>2, <1>3, BoundsAssumption DEF PagesAgree, FlagInv, FlagAgrees
<1>5. Stream!Init
  BY <1>3 DEF Stream!Init, Opened
<1> QED BY <1>1, <1>4, <1>5 DEF Streaming

\* Every step keeps the invariants and is a step of the stream, or none.
THEOREM StreamingInductive ==
  Orderly /\ Streaming /\ [Next]_vars => Streaming' /\ [Stream!Next]_Stream!vars
<1> SUFFICES ASSUME Orderly, Streaming, [Next]_vars
             PROVE  Streaming' /\ [Stream!Next]_Stream!vars
  OBVIOUS
<1>1. Consistent /\ PagesAgree /\ FlagInv /\ Consistent'
  BY ConsistentInductive DEF Streaming
<1>2. CASE UNCHANGED vars
  <2>1. PagesAgree' /\ FlagInv'
    BY <1>1, <1>2 DEF vars, PagesAgree, PageOf, Whole, Broken, Blank, HasCursor,
                      CursorOpen, FlagInv, FlagAgrees, Convertible
  <2>2. UNCHANGED Stream!vars
    BY <1>2 DEF vars, Stream!vars, Opened, Lost, CursorOpen, HasCursor
  <2> QED BY <1>1, <2>1, <2>2 DEF Streaming
<1>3. CASE Next
  <2>1. Streams
    <3>1. CASE Prepare \/ AttachSqlFails \/ ExecDirect \/ ExecutePrepared
      BY <1>1, <3>1, PrepareStreams, AttachSqlFailsStreams, ExecDirectStreams,
         ExecutePreparedStreams
    <3>2. CASE CloseCursor \/ FreeStmt \/ FreeHandle \/ AllocHandle
      BY <1>1, <3>2, CloseStreams, HandleStreams
    <3>3. CASE BindCol \/ Unbind \/ BindUnflagged \/ SetArraySize
      BY <1>1, <3>3, BindingStreams
    <3>4. CASE FetchRefused \/ FetchBegin \/ FetchStep
      BY <1>1, <3>4, FetchRefusedStreams, FetchBeginStreams, FetchRowStreams,
         FetchTurnStreams, FetchEndStreams DEF FetchStep
    <3>5. CASE GetDataExhausted \/ GetDataRefused \/ GetDataCopies
      BY <1>1, <3>5, GetDataStreams
    <3> QED BY <1>3, <3>1, <3>2, <3>3, <3>4, <3>5 DEF Next
  <2>2. FlagInv'
    BY <1>1, <1>3, OpenedFlag, ClosedFlag, FetchedFlag DEF Next
  <2> QED BY <1>1, <2>1, <2>2 DEF Streams, Streaming
<1> QED BY <1>2, <1>3

\* Against an orderly server the invariants hold in every state.
LEMMA AlwaysStreaming == Orderly => (Spec => []Streaming)
<1> SUFFICES ASSUME Orderly PROVE Spec => []Streaming
  OBVIOUS
<1>1. Init => Streaming
  BY InitStreams
<1>2. Streaming /\ [Next]_vars => Streaming'
  BY StreamingInductive
<1> QED BY <1>1, <1>2, PTL DEF Spec

\* Paging is invisible to the application: whatever requests fail, wherever the
\* pages end, rows are delivered in order and none twice, a row is only missing if
\* it failed by itself or in a call that returned SQL_ERROR, row sets are filled
\* and SQL_NO_DATA is the end (EsSQLFetch, EsSQLExecute, attach_answer).
THEOREM StreamKept == Orderly => (Spec => ImplementsStream)
<1> SUFFICES ASSUME Orderly PROVE Spec => ImplementsStream
  OBVIOUS
<1>1. Init => Streaming /\ Stream!Init
  BY InitStreams
<1>2. Streaming /\ [Next]_vars => Streaming' /\ [Stream!Next]_Stream!vars
  BY StreamingInductive
<1> QED BY <1>1, <1>2, PTL DEF Spec, ImplementsStream, Stream!Spec

\* The rows counted and the rows left of the page add up to the cursor, so that
\* the next page begins right after this one.
THEOREM CursorFollows == Orderly => (Spec => []CursorFollowsPage)
<1> SUFFICES ASSUME Orderly PROVE Spec => []CursorFollowsPage
  OBVIOUS
<1>1. Streaming => CursorFollowsPage
  <2> SUFFICES ASSUME Streaming, CursorOpen, HasCursor(stmt)
               PROVE  stmt.tv_rows + (stmt.rset.hi - stmt.rset.lo) = stmt.rset.curs
    BY DEF CursorFollowsPage
  <2>1. Whole(stmt, srv)
    BY DEF Streaming, PagesAgree, PageOf, Broken
  <2>2. stmt.tv_rows \in Nat /\ stmt.rset.hi \in Nat /\ stmt.rset.lo \in Nat
    BY DEF Streaming, Consistent, TypeOK, StmtType
  <2> QED BY <2>1, <2>2 DEF Whole
<1> QED BY <1>1, AlwaysStreaming, PTL

\* SQLFetch writes into no buffer that the columns were not found convertible
\* to, as long as the application binds with SQLBindCol (queries.c:1926).
THEOREM FetchConvertible == Orderly => (Spec => []FetchOnlyConvertible)
<1> SUFFICES ASSUME Orderly PROVE Spec => []FetchOnlyConvertible
  OBVIOUS
<1>1. Streaming => FetchOnlyConvertible
  BY FetchingFacts DEF Streaming, FlagInv, FlagAgrees, FetchOnlyConvertible
<1> QED BY <1>1, AlwaysStreaming, PTL

=============================================================================
