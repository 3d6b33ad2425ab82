----------------------------- MODULE EsCurlProofs -----------------------------
(***************************************************************************)
(* The transport, for any number of statements, any timeouts, answers and  *)
(* limit: statements get what Transport promises, under their timeouts,    *)
(* with their own diagnostics.                                             *)
(*                                                                         *)
(* The argument: the thread that holds curl_mux is the only one whose      *)
(* progress depends on the handle, the buffer and the connection's         *)
(* diagnostic, so a step of it leaves what is known of the others; what is *)
(* known of its own thread is found again one step further.  The calls on  *)
(* the connection handle change the timeout and the diagnostic only, the   *)
(* latter to one of their own.                                             *)
(*                                                                         *)
(* The buffer's size is found by doubling, in a loop: that it ends with a  *)
(* size large enough, and less than twice what is needed, is by induction  *)
(* on its rounds, taken through the least one for which it would fail.     *)
(***************************************************************************)
EXTENDS EsCurl, NaturalsInduction, WellFoundedInduction, TLAPS

CurlType == [on : BOOLEAN, url : Urls \cup {NoUrl}, tout : Nat,
             body : Stmts \cup {NoStmt}]
Codes == {"none", "200", "other"}
ThreadType == [pc : Pcs, url : Urls \cup {NoUrl}, want : Nat, code : Codes,
               curl_err : {"ok", "other", "timeout", "write"}, body : AnswerType]
NetType == [of : Stmts \cup {NoStmt}, url : Urls \cup {NoUrl}, total : Nat,
            sent : Nat]
AppType == [rc : {"none", "SUCCESS", "ERROR"}, diag : Diags, qt : Nat,
            answer : AnswerType]

\* The connection's members: what the buffer holds fits in it, and it is within
\* the limit.
DbcTyped(d) ==
  /\ d = [mux |-> d.mux, crr_url |-> d.crr_url, timeout |-> d.timeout,
          diag |-> d.diag, alen |-> d.alen, apos |-> d.apos]
  /\ d.mux \in Stmts \cup {NoStmt} /\ d.crr_url \in Urls \cup {NoUrl}
  /\ d.timeout \in Nat /\ d.diag \in Diags /\ d.apos \in Nat
  /\ d.alen \in Nat /\ d.apos <= d.alen /\ (AMax > 0 => d.alen <= AMax)

Typed ==
  /\ DbcTyped(dbc) /\ curl \in CurlType /\ th \in [Stmts -> ThreadType]
  /\ net \in NetType /\ app \in [Stmts -> AppType]

\* The threads that do not hold the mutex.
Free == {"idle", "lock", "answer"}

Mutex == \A s \in Stmts : dbc.mux = s <=> th[s].pc \notin Free

\* The connection knows the URL of its handle.
HandleKnown == dbc.crr_url = curl.url /\ (~curl.on => curl = NoHandle)

BufferEmpty == (\A s \in Stmts : ~At(s, "transfer")) => dbc.apos = 0

\* A transfer is of the statement's request, and under its timeout.
Transfers(s) ==
  /\ net.of = s /\ net.url = th[s].url /\ net.total \in Bodies
  /\ net.sent = dbc.apos
  /\ app[s].qt <= curl.tout

AnswerTo(s, answer) ==
  answer.of = s /\ answer.url = th[s].url /\ answer.size \in Bodies

ThreadInv(s) ==
  /\ th[s].pc # "idle" => th[s].url \in Urls
  /\ th[s].pc \in {"url", "opts", "transfer"} => curl.on
  /\ At(s, "opts") => curl.url = th[s].url
  /\ At(s, "transfer") => Transfers(s)
  /\ th[s].pc \in {"check", "answer"} => AnswerTo(s, th[s].body)
  /\ th[s].pc \in {"drop", "err"} /\ th[s].code = "none" =>
       dbc.diag \in {s, AppDiag}
  /\ At(s, "err") => curl = NoHandle
  /\ app[s].rc = "ERROR" => app[s].diag \in {s, AppDiag}

CurlInv ==
  /\ Typed /\ Mutex /\ HandleKnown /\ BufferEmpty
  /\ \A s \in Stmts : ThreadInv(s)

-----------------------------------------------------------------------------
(* The buffer's growth: induction by the least natural number for which it *)
(* would fail.                                                             *)

Before == {pair \in Nat \X Nat : pair[1] < pair[2]}

\* A set of natural numbers has a least member.
LEMMA LeastNatural ==
  ASSUME NEW T, T \subseteq Nat, T # {}
  PROVE  \E k \in T : \A j \in T : k <= j
<1>1. IsWellFoundedOn(Before, Nat)
  BY NatLessThanWellFounded DEF OpToRel, Before
<1>2. PICK k \in T : \A j \in T : <<j, k>> \notin Before
  BY <1>1, WFMin
<1>3. \A j \in T : k <= j
  <2> SUFFICES ASSUME NEW j \in T PROVE k <= j
    OBVIOUS
  <2>1. k \in Nat /\ j \in Nat /\ <<j, k>> \notin Before
    BY <1>2
  <2> QED BY <2>1 DEF Before
<1> QED BY <1>3

\* Induction, of membership in a set.
LEMMA InductionOnSet ==
  ASSUME NEW S, 0 \in S, \A n \in Nat : n \in S => n + 1 \in S
  PROVE  Nat \subseteq S
<1> SUFFICES ASSUME Nat \ S # {} PROVE FALSE
  OBVIOUS
<1>1. PICK k \in Nat \ S : \A j \in Nat \ S : k <= j
  BY LeastNatural
<1>2. k - 1 \in Nat /\ k - 1 \in S
  BY <1>1
<1> QED BY <1>1, <1>2

\* A size doubled while it is below n, m times.
Doubled(from, n, m, f) ==
  f = [i \in 0..m |-> IF i = 0 THEN from
                      ELSE IF f[i - 1] < n THEN 2 * f[i - 1] ELSE f[i - 1]]

\* The loop is a function of its rounds.
LEMMA DoubledExists ==
  ASSUME NEW from, NEW n
  PROVE  \A m \in Nat : \E f : Doubled(from, n, m, f)
<1> DEFINE S == {m \in Nat : \E f : Doubled(from, n, m, f)}
<1>1. 0 \in S
  <2>1. Doubled(from, n, 0, [i \in 0..0 |-> from])
    BY DEF Doubled
  <2> QED BY <2>1
<1>2. ASSUME NEW m \in Nat, m \in S
      PROVE  m + 1 \in S
  <2>1. PICK p : Doubled(from, n, m, p)
    BY <1>2
  <2> DEFINE last == IF p[m] < n THEN 2 * p[m] ELSE p[m]
             f == [i \in 0..(m + 1) |-> IF i = m + 1 THEN last ELSE p[i]]
  <2>2. ASSUME NEW i \in 0..(m + 1)
        PROVE  f[i] = IF i = 0 THEN from
                      ELSE IF f[i - 1] < n THEN 2 * f[i - 1] ELSE f[i - 1]
    <3>1. CASE i = m + 1
      BY <3>1
    <3>2. CASE i \in 0..m
      BY <2>1, <3>2 DEF Doubled
    <3> QED BY <3>1, <3>2
  <2>3. f = [i \in 0..(m + 1) |-> IF i = 0 THEN from
                      ELSE IF f[i - 1] < n THEN 2 * f[i - 1] ELSE f[i - 1]]
    BY <2>2
  <2> HIDE DEF f
  <2>4. \E g : Doubled(from, n, m + 1, g)
    BY <2>3 DEF Doubled
  <2> QED BY <2>4
<1>3. Nat \subseteq S
  BY <1>1, <1>2, InductionOnSet
<1> QED BY <1>3

\* The loop ends within n rounds, with a size that n bytes fit in, and less than
\* twice as large unless it was before.
Fits(from, n, size) ==
  size \in Nat /\ n <= size /\ from <= size /\ (size = from \/ size < 2 * n)

\* Doubling what is not 0 adds one at least each time.
LEMMA DoubledFits ==
  ASSUME NEW from \in Nat \ {0}, NEW n \in Nat, NEW f, Doubled(from, n, n, f)
  PROVE  Fits(from, n, f[n])
<1> DEFINE Good(i) == /\ f[i] \in Nat /\ from <= f[i] /\ (n <= f[i] \/ i < f[i])
                      /\ f[i] = from \/ f[i] < 2 * n
           S == {i \in Nat : i <= n => Good(i)}
<1>1. f[0] = from
  BY DEF Doubled
<1>2. ASSUME NEW i \in Nat, i + 1 <= n
      PROVE  f[i + 1] = IF f[i] < n THEN 2 * f[i] ELSE f[i]
  <2>1. i + 1 \in 0..n /\ i + 1 # 0 /\ (i + 1) - 1 = i
    BY <1>2
  <2> QED BY <2>1 DEF Doubled
<1>3. 0 \in S
  BY <1>1
<1>4. ASSUME NEW i \in Nat, i \in S
      PROVE  i + 1 \in S
  <2>1. CASE i + 1 <= n
    <3>1. Good(i)
      BY <1>4, <2>1
    <3>2. f[i + 1] = IF f[i] < n THEN 2 * f[i] ELSE f[i]
      BY <1>2, <2>1
    <3>3. Good(i + 1)
      BY <3>1, <3>2
    <3> QED BY <3>3
  <2>2. CASE ~(i + 1 <= n)
    BY <2>2
  <2> QED BY <2>1, <2>2
<1>5. Nat \subseteq S
  <2> HIDE DEF S
  <2> QED BY <1>3, <1>4, InductionOnSet
<1>6. Good(n)
  BY <1>5
<1> QED BY <1>6 DEF Fits

\* write_callback()'s loop: the buffer is large enough after it, and its size is
\* the one it had or less than twice what is needed.
THEOREM GrownFits ==
  ASSUME NEW alen \in Nat, NEW n \in Nat
  PROVE  Fits(IF alen = 0 THEN StartSize ELSE alen, n, Grown(alen, n))
<1> DEFINE from == IF alen = 0 THEN StartSize ELSE alen
           f == CHOOSE f : Doubled(from, n, n, f)
<1>1. from \in Nat \ {0}
  BY SizesAssumption
<1>2. Grown(alen, n) = f[n]
  BY Zenon DEF Grown, Doubled
<1> HIDE DEF from
<1>3. Doubled(from, n, n, f)
  BY DoubledExists, Zenon
<1> HIDE DEF f
<1>4. Fits(from, n, f[n])
  BY <1>1, <1>3, DoubledFits
<1> QED BY <1>2, <1>4 DEF from

\* A chunk that is not refused fits, within the limit.
LEMMA RoomFits ==
  ASSUME dbc.alen \in Nat, AMax > 0 => dbc.alen <= AMax, NEW n \in Nat, ~Refuses(n)
  PROVE  Room(n) \in Nat /\ n <= Room(n) /\ (AMax > 0 => Room(n) <= AMax)
<1> DEFINE grown == Grown(dbc.alen, n)
<1>1. grown \in Nat /\ n <= grown /\ AMax \in Nat
  BY GrownFits, SizesAssumption DEF Fits
<1> HIDE DEF grown
<1>2. CASE n <= dbc.alen
  BY <1>2 DEF Room
<1>3. CASE ~(n <= dbc.alen) /\ AMax > 0 /\ AMax < grown
  <2>1. Room(n) = AMax /\ Capped(n)
    BY <1>3 DEF Room, Capped, grown
  <2>2. n <= AMax
    BY <1>1, <1>3, <2>1 DEF Refuses
  <2> QED BY <1>1, <2>1, <2>2
<1>4. CASE ~(n <= dbc.alen) /\ ~(AMax > 0 /\ AMax < grown)
  <2>1. Room(n) = grown
    BY <1>4 DEF Room, Capped, grown
  <2> QED BY <1>1, <1>4, <2>1
<1> QED BY <1>2, <1>3, <1>4

-----------------------------------------------------------------------------
(* Steps, by what they leave alone.                                        *)

\* What is known of a thread without the mutex does not depend on the rest.
LEMMA FreeThread ==
  ASSUME NEW t \in Stmts, ThreadInv(t), th[t].pc \in Free,
         th'[t] = th[t], app'[t] = app[t]
  PROVE  ThreadInv(t)'
BY DEF ThreadInv, Free, At, AnswerTo

\* The thread with the mutex takes a step.
LEMMA HolderStep ==
  ASSUME CurlInv, NEW s \in Stmts, th[s].pc \notin Free, Typed',
         \A t \in Stmts \ {s} : th'[t] = th[t] /\ app'[t] = app[t],
         dbc'.mux = IF th'[s].pc \in Free THEN NoStmt ELSE s,
         HandleKnown',
         th'[s].pc # "transfer" => dbc'.apos = 0,
         ThreadInv(s)'
  PROVE  CurlInv'
<1>1. dbc.mux = s /\ \A t \in Stmts \ {s} : th[t].pc \in Free
  BY DEF CurlInv, Mutex
<1>2. \A t \in Stmts : ThreadInv(t)'
  <2> TAKE t \in Stmts
  <2>1. CASE t = s
    BY <2>1
  <2>2. CASE t # s
    <3>1. /\ ThreadInv(t) /\ th[t].pc \in Free
          /\ th'[t] = th[t] /\ app'[t] = app[t]
      BY <1>1, <2>2 DEF CurlInv
    <3> QED BY <3>1, FreeThread
  <2> QED BY <2>1, <2>2
<1>3. Mutex'
  BY <1>1, StmtsAssumption DEF Mutex
<1>4. BufferEmpty'
  BY DEF BufferEmpty, At
<1> QED BY <1>2, <1>3, <1>4 DEF CurlInv

\* A thread without the mutex takes a step of its own.
LEMMA FreeStep ==
  ASSUME CurlInv, NEW s \in Stmts, th[s].pc \in Free, th'[s].pc \in Free, Typed',
         \A t \in Stmts \ {s} : th'[t] = th[t] /\ app'[t] = app[t],
         UNCHANGED <<dbc, curl, net>>,
         ThreadInv(s)'
  PROVE  CurlInv'
<1>1. \A t \in Stmts \ {s} : ThreadInv(t)'
  <2> TAKE t \in Stmts \ {s}
  <2>1. th'[t] = th[t] /\ app'[t] = app[t] /\ ThreadInv(t)
    BY DEF CurlInv
  <2> QED BY <2>1 DEF ThreadInv, At, AnswerTo, Transfers
<1>2. Mutex'
  BY DEF CurlInv, Mutex
<1>3. HandleKnown'
  BY DEF CurlInv, HandleKnown
<1>4. BufferEmpty'
  BY DEF CurlInv, BufferEmpty, At, Free
<1> QED BY <1>1, <1>2, <1>3, <1>4 DEF CurlInv

-----------------------------------------------------------------------------
(* The steps of curl_post().                                               *)

LEMMA Holder ==
  ASSUME CurlInv, NEW s \in Stmts, th[s].pc \notin Free
  PROVE  /\ dbc.mux = s /\ th[s] \in ThreadType /\ app[s] \in AppType
         /\ ThreadInv(s) /\ th[s].url \in Urls
         /\ ~At(s, "transfer") => dbc.apos = 0
<1>1. /\ dbc.mux = s /\ th[s] \in ThreadType /\ app[s] \in AppType
      /\ ThreadInv(s) /\ th[s].url \in Urls
  BY DEF CurlInv, Mutex, Typed, ThreadInv, Free
<1>2. \A t \in Stmts \ {s} : ~At(t, "transfer")
  BY <1>1 DEF CurlInv, Mutex, Free, At
<1> QED BY <1>1, <1>2 DEF CurlInv, BufferEmpty

\* A thread in the mutex takes its step, and nothing of the application's.
LEMMA GoesOn ==
  ASSUME CurlInv, NEW s \in Stmts, th[s].pc \notin Free,
         NEW row \in ThreadType, th' = [th EXCEPT ![s] = row],
         row.pc # "idle" => row.url = th[s].url,
         UNCHANGED app,
         DbcTyped(dbc'), curl' \in CurlType, net' \in NetType,
         dbc'.mux = IF row.pc \in Free THEN NoStmt ELSE s,
         HandleKnown',
         row.pc # "transfer" => dbc'.apos = 0,
         row.pc \in {"url", "opts", "transfer"} => curl'.on,
         row.pc = "opts" => curl'.url = row.url,
         row.pc = "transfer" => Transfers(s)',
         row.pc \in {"check", "answer"} =>
           row.body.of = s /\ row.body.url = th[s].url /\ row.body.size \in Bodies,
         row.pc \in {"drop", "err"} /\ row.code = "none" =>
           dbc'.diag \in {s, AppDiag},
         row.pc = "err" => curl' = NoHandle
  PROVE  CurlInv'
<1>1. /\ th \in [Stmts -> ThreadType] /\ app \in [Stmts -> AppType]
      /\ ThreadInv(s) /\ th[s].url \in Urls
  BY Holder DEF CurlInv, Typed
<1>2. th'[s] = row /\ \A t \in Stmts \ {s} : th'[t] = th[t] /\ app'[t] = app[t]
  BY <1>1
<1>3. Typed'
  BY <1>1 DEF Typed
<1>4. ThreadInv(s)'
  BY <1>1, <1>2 DEF ThreadInv, At, AnswerTo
<1> QED BY <1>2, <1>3, <1>4, HolderStep

LEMMA PostsTyped ==
  ASSUME DbcTyped(dbc), NEW diag \in Diags, dbc' = [dbc EXCEPT !.diag = diag]
  PROVE  /\ DbcTyped(dbc') /\ dbc'.diag = diag /\ dbc'.mux = dbc.mux
         /\ dbc'.crr_url = dbc.crr_url /\ dbc'.apos = dbc.apos
         /\ dbc'.timeout = dbc.timeout /\ dbc'.alen = dbc.alen
BY DEF DbcTyped

\* Every step that curl_post() takes in the mutex, but for those of a transfer.
LEMMA HolderInductive ==
  ASSUME CurlInv, NEW s \in Stmts, th[s].pc \notin Free,
         \/ InitHandle(s) \/ InitHandleFails(s) \/ SetUrl(s) \/ SetUrlFails(s) \/ PerformFails(s)
         \/ CheckUnsupported(s) \/ CheckEmpty(s) \/ CheckHttpError(s) \/ CheckOk(s) \/ Drop(s)
  PROVE  CurlInv'
<1>a. /\ DbcTyped(dbc) /\ curl \in CurlType /\ net \in NetType
      /\ HandleKnown /\ th \in [Stmts -> ThreadType]
  BY DEF CurlInv, Typed
<1>b. th[s].pc \notin Free
  BY DEF PerformFails, At, Free
<1>c. /\ dbc.mux = s /\ th[s] \in ThreadType /\ ThreadInv(s) /\ th[s].url \in Urls
      /\ ~At(s, "transfer") => dbc.apos = 0
  BY <1>b, Holder
<1>d. NoHandle \in CurlType /\ NewHandle \in CurlType
  BY DEF NoHandle, NewHandle, CurlType
<1>e. /\ NewHandle.on /\ NewHandle.url = NoUrl /\ ~NoHandle.on /\ NoHandle.url = NoUrl
  BY DEF NoHandle, NewHandle
<1>f. s \in Diags /\ NoDiag \in Diags /\ s # NoStmt
  BY StmtsAssumption DEF Diags
<1>1. CASE InitHandle(s)
  <2> DEFINE row == [th[s] EXCEPT !.pc = "url"]
  <2>1. /\ th' = [th EXCEPT ![s] = row] /\ row \in ThreadType /\ row.pc = "url"
        /\ row.url = th[s].url /\ row.body = th[s].body
        /\ UNCHANGED app
    BY <1>a, <1>c, <1>1 DEF InitHandle, Goes, ThreadType, Pcs, Codes
  <2>2. dbc' = [dbc EXCEPT !.diag = NoDiag] /\ curl' = (IF curl.on THEN curl ELSE NewHandle) /\ net' = net
    BY <1>a, <1>1 DEF InitHandle, Posts, HandleKnown
  <2>3. DbcTyped(dbc') /\ dbc'.apos = dbc.apos
        /\ dbc'.mux = s /\ dbc'.crr_url = dbc.crr_url /\ dbc'.diag = NoDiag
    BY <1>a, <1>c, <1>f, <2>2, PostsTyped
  <2>4. HandleKnown' /\ curl' \in CurlType
    BY <1>a, <1>d, <1>e, <2>2, <2>3 DEF HandleKnown
  <2>5. dbc'.apos = 0 /\ net' \in NetType
    BY <1>a, <1>b, <1>c, <1>1, <2>2, <2>3 DEF InitHandle, At
  <2>6. curl'.on
    BY <1>e, <2>2
  <2> HIDE DEF row
  <2> QED BY <1>b, <1>c, <2>1, <2>2, <2>6, <2>3, <2>4, <2>5, GoesOn DEF Free
<1>2. CASE InitHandleFails(s)
  <2> DEFINE row == [th[s] EXCEPT !.pc = "err"]
  <2>1. /\ th' = [th EXCEPT ![s] = row] /\ row \in ThreadType /\ row.pc = "err"
        /\ row.url = th[s].url /\ row.body = th[s].body
        /\ UNCHANGED app
    BY <1>a, <1>c, <1>2 DEF InitHandleFails, Goes, ThreadType, Pcs, Codes
  <2>2. dbc' = [dbc EXCEPT !.diag = s] /\ curl' = curl /\ curl = NoHandle /\ net' = net
    BY <1>a, <1>2 DEF InitHandleFails, Posts, HandleKnown
  <2>3. DbcTyped(dbc') /\ dbc'.apos = dbc.apos
        /\ dbc'.mux = s /\ dbc'.crr_url = dbc.crr_url /\ dbc'.diag = s
    BY <1>a, <1>c, <1>f, <2>2, PostsTyped
  <2>4. HandleKnown' /\ curl' \in CurlType
    BY <1>a, <1>d, <1>e, <2>2, <2>3 DEF HandleKnown
  <2>5. dbc'.apos = 0 /\ net' \in NetType
    BY <1>a, <1>b, <1>c, <1>2, <2>2, <2>3 DEF InitHandleFails, At
  <2> HIDE DEF row
  <2> QED BY <1>b, <1>c, <2>1, <2>2, <2>3, <2>4, <2>5, GoesOn DEF Free
<1>3. CASE SetUrl(s)
  <2> DEFINE row == [th[s] EXCEPT !.pc = "opts"]
  <2>1. /\ th' = [th EXCEPT ![s] = row] /\ row \in ThreadType /\ row.pc = "opts"
        /\ row.url = th[s].url /\ row.body = th[s].body
        /\ UNCHANGED app
    BY <1>a, <1>c, <1>3 DEF SetUrl, Goes, ThreadType, Pcs, Codes
  <2>2. CASE dbc.crr_url = th[s].url
    <3>1. UNCHANGED <<curl, dbc, net>>
      BY <1>3, <2>2 DEF SetUrl
    <3>2. HandleKnown' /\ curl'.url = th[s].url /\ dbc'.apos = 0
        /\ curl'.on
      BY <1>a, <1>c, <1>3, <2>2, <3>1 DEF SetUrl, HandleKnown, At, ThreadInv
    <3> HIDE DEF row
    <3> QED BY <1>a, <1>b, <1>c, <2>1, <3>1, <3>2, GoesOn DEF Free
  <2>3. CASE dbc.crr_url # th[s].url
    <3>1. /\ curl' = [curl EXCEPT !.url = th[s].url]
          /\ dbc' = [dbc EXCEPT !.crr_url = th[s].url] /\ net' = net
      BY <1>3, <2>3 DEF SetUrl
    <3>2. curl' \in CurlType /\ curl'.url = th[s].url /\ curl'.on = curl.on
      BY <1>a, <1>c, <3>1 DEF CurlType
    <3>3. /\ DbcTyped(dbc') /\ dbc'.mux = s /\ dbc'.apos = 0
          /\ dbc'.crr_url = th[s].url
      BY <1>a, <1>c, <1>3, <3>1 DEF SetUrl, DbcTyped, At
    <3>4. curl.on
      BY <1>3, <1>a, <1>c DEF SetUrl, ThreadInv, At
    <3>5. HandleKnown'
      BY <3>2, <3>3, <3>4 DEF HandleKnown
    <3> HIDE DEF row
    <3> QED BY <1>a, <1>b, <1>c, <2>1, <3>1, <3>2, <3>3, <3>4, <3>5, GoesOn DEF Free
  <2> QED BY <2>2, <2>3
<1>4. CASE SetUrlFails(s)
  <2> DEFINE row == [th[s] EXCEPT !.pc = "err"]
  <2>1. /\ th' = [th EXCEPT ![s] = row] /\ row \in ThreadType /\ row.pc = "err"
        /\ row.url = th[s].url /\ row.body = th[s].body
        /\ UNCHANGED app
    BY <1>a, <1>c, <1>4 DEF SetUrlFails, Goes, ThreadType, Pcs, Codes
  <2>2. dbc' = [dbc EXCEPT !.diag = s, !.crr_url = NoUrl] /\ curl' = NoHandle /\ net' = net
    BY <1>a, <1>4 DEF SetUrlFails, Posts, HandleKnown
  <2>3. DbcTyped(dbc') /\ dbc'.apos = dbc.apos
        /\ dbc'.mux = s /\ dbc'.crr_url = NoUrl /\ dbc'.diag = s
    BY <1>a, <1>c, <1>f, <2>2 DEF DbcTyped
  <2>4. HandleKnown' /\ curl' \in CurlType
    BY <1>a, <1>d, <1>e, <2>2, <2>3 DEF HandleKnown
  <2>5. dbc'.apos = 0 /\ net' \in NetType
    BY <1>a, <1>b, <1>c, <1>4, <2>2, <2>3 DEF SetUrlFails, At
  <2> HIDE DEF row
  <2> QED BY <1>b, <1>c, <2>1, <2>2, <2>3, <2>4, <2>5, GoesOn DEF Free
<1>5. CASE PerformFails(s)
  <2> DEFINE row == [th[s] EXCEPT !.pc = "drop"]
  <2>1. /\ th' = [th EXCEPT ![s] = row] /\ row \in ThreadType /\ row.pc = "drop"
        /\ row.url = th[s].url /\ row.body = th[s].body
        /\ UNCHANGED app
    BY <1>a, <1>c, <1>5 DEF PerformFails, Goes, ThreadType, Pcs, Codes
  <2>2. dbc' = [dbc EXCEPT !.diag = s] /\ curl' = curl /\ net' = net
    BY <1>a, <1>5 DEF PerformFails, Posts, HandleKnown
  <2>3. DbcTyped(dbc') /\ dbc'.apos = dbc.apos
        /\ dbc'.mux = s /\ dbc'.crr_url = dbc.crr_url /\ dbc'.diag = s
    BY <1>a, <1>c, <1>f, <2>2, PostsTyped
  <2>4. HandleKnown' /\ curl' \in CurlType
    BY <1>a, <1>d, <1>e, <2>2, <2>3 DEF HandleKnown
  <2>5. dbc'.apos = 0 /\ net' \in NetType
    BY <1>a, <1>b, <1>c, <1>5, <2>2, <2>3 DEF PerformFails, At
  <2> HIDE DEF row
  <2> QED BY <1>b, <1>c, <2>1, <2>2, <2>3, <2>4, <2>5, GoesOn DEF Free
<1>6. CASE CheckUnsupported(s)
  <2> DEFINE row == [th[s] EXCEPT !.pc = "drop", !.code = "none"]
  <2>1. /\ th' = [th EXCEPT ![s] = row] /\ row \in ThreadType /\ row.pc = "drop"
        /\ row.url = th[s].url /\ row.body = th[s].body
        /\ UNCHANGED app
    BY <1>a, <1>c, <1>6 DEF CheckUnsupported, Goes, ThreadType, Pcs, Codes
  <2>2. dbc' = [dbc EXCEPT !.diag = s] /\ curl' = curl /\ net' = net
    BY <1>a, <1>6 DEF CheckUnsupported, Posts, HandleKnown
  <2>3. DbcTyped(dbc') /\ dbc'.apos = dbc.apos
        /\ dbc'.mux = s /\ dbc'.crr_url = dbc.crr_url /\ dbc'.diag = s
    BY <1>a, <1>c, <1>f, <2>2, PostsTyped
  <2>4. HandleKnown' /\ curl' \in CurlType
    BY <1>a, <1>d, <1>e, <2>2, <2>3 DEF HandleKnown
  <2>5. dbc'.apos = 0 /\ net' \in NetType
    BY <1>a, <1>b, <1>c, <1>6, <2>2, <2>3 DEF CheckUnsupported, At
  <2> HIDE DEF row
  <2> QED BY <1>b, <1>c, <2>1, <2>2, <2>3, <2>4, <2>5, GoesOn DEF Free
<1>7. CASE CheckEmpty(s)
  <2> DEFINE row == [th[s] EXCEPT !.pc = "drop"]
  <2>1. /\ th' = [th EXCEPT ![s] = row] /\ row \in ThreadType /\ row.pc = "drop"
        /\ row.url = th[s].url /\ row.body = th[s].body
        /\ UNCHANGED app
    BY <1>a, <1>c, <1>7 DEF CheckEmpty, Goes, ThreadType, Pcs, Codes
  <2>2. dbc' = [dbc EXCEPT !.diag = s] /\ curl' = curl /\ net' = net
    BY <1>a, <1>7 DEF CheckEmpty, Posts, HandleKnown
  <2>3. DbcTyped(dbc') /\ dbc'.apos = dbc.apos
        /\ dbc'.mux = s /\ dbc'.crr_url = dbc.crr_url /\ dbc'.diag = s
    BY <1>a, <1>c, <1>f, <2>2, PostsTyped
  <2>4. HandleKnown' /\ curl' \in CurlType
    BY <1>a, <1>d, <1>e, <2>2, <2>3 DEF HandleKnown
  <2>5. dbc'.apos = 0 /\ net' \in NetType
    BY <1>a, <1>b, <1>c, <1>7, <2>2, <2>3 DEF CheckEmpty, At
  <2> HIDE DEF row
  <2> QED BY <1>b, <1>c, <2>1, <2>2, <2>3, <2>4, <2>5, GoesOn DEF Free
<1>8. CASE CheckHttpError(s)
  <2> DEFINE row == [th[s] EXCEPT !.pc = "drop"]
  <2>1. /\ th' = [th EXCEPT ![s] = row] /\ row \in ThreadType /\ row.pc = "drop"
        /\ row.url = th[s].url /\ row.body = th[s].body
        /\ UNCHANGED app
    BY <1>a, <1>c, <1>8 DEF CheckHttpError, Goes, ThreadType, Pcs, Codes
  <2>2. dbc' = dbc /\ curl' = curl /\ net' = net
    BY <1>a, <1>8 DEF CheckHttpError, Posts, HandleKnown
  <2>3. DbcTyped(dbc') /\ dbc'.apos = dbc.apos
        /\ dbc'.mux = s /\ dbc'.crr_url = dbc.crr_url /\ th[s].code # "none" /\ row.code = th[s].code
    BY <1>a, <1>c, <1>8, <2>2 DEF CheckHttpError, ThreadType
  <2>4. HandleKnown' /\ curl' \in CurlType
    BY <1>a, <1>d, <1>e, <2>2, <2>3 DEF HandleKnown
  <2>5. dbc'.apos = 0 /\ net' \in NetType
    BY <1>a, <1>b, <1>c, <1>8, <2>2, <2>3 DEF CheckHttpError, At
  <2> HIDE DEF row
  <2> QED BY <1>b, <1>c, <2>1, <2>2, <2>3, <2>4, <2>5, GoesOn DEF Free
<1>9. CASE CheckOk(s)
  <2> DEFINE row == [th[s] EXCEPT !.pc = "answer"]
  <2>1. /\ th' = [th EXCEPT ![s] = row] /\ row \in ThreadType /\ row.pc = "answer"
        /\ row.url = th[s].url /\ row.body = th[s].body
        /\ UNCHANGED app
    BY <1>a, <1>c, <1>9 DEF CheckOk, Goes, ThreadType, Pcs, Codes
  <2>2. dbc' = [dbc EXCEPT !.mux = NoStmt] /\ curl' = curl /\ net' = net
    BY <1>a, <1>9 DEF CheckOk, Posts, HandleKnown
  <2>3. DbcTyped(dbc') /\ dbc'.apos = dbc.apos
        /\ dbc'.mux = NoStmt /\ dbc'.crr_url = dbc.crr_url
    BY <1>a, <1>c, <2>2 DEF DbcTyped
  <2>4. HandleKnown' /\ curl' \in CurlType
    BY <1>a, <1>d, <1>e, <2>2, <2>3 DEF HandleKnown
  <2>5. dbc'.apos = 0 /\ net' \in NetType
    BY <1>a, <1>b, <1>c, <1>9, <2>2, <2>3 DEF CheckOk, At
  <2>6. row.body.of = s /\ row.body.url = th[s].url /\ row.body.size \in Bodies
    BY <1>c, <1>9, <2>1 DEF CheckOk, ThreadInv, AnswerTo, At
  <2> HIDE DEF row
  <2> QED BY <1>b, <1>c, <2>1, <2>2, <2>6, <2>3, <2>4, <2>5, GoesOn DEF Free
<1>10. CASE Drop(s)
  <2> DEFINE row == [th[s] EXCEPT !.pc = "err"]
  <2>1. /\ th' = [th EXCEPT ![s] = row] /\ row \in ThreadType /\ row.pc = "err"
        /\ row.url = th[s].url /\ row.body = th[s].body
        /\ UNCHANGED app
    BY <1>a, <1>c, <1>10 DEF Drop, Goes, ThreadType, Pcs, Codes
  <2>2. dbc' = [dbc EXCEPT !.crr_url = NoUrl] /\ curl' = NoHandle /\ net' = net
    BY <1>a, <1>10 DEF Drop, Posts, HandleKnown
  <2>3. DbcTyped(dbc') /\ dbc'.apos = dbc.apos
        /\ dbc'.mux = s /\ dbc'.crr_url = NoUrl /\ dbc'.diag = dbc.diag /\ row.code = th[s].code
    BY <1>a, <1>c, <2>2 DEF DbcTyped, ThreadType
  <2>4. HandleKnown' /\ curl' \in CurlType
    BY <1>a, <1>d, <1>e, <2>2, <2>3 DEF HandleKnown
  <2>5. dbc'.apos = 0 /\ net' \in NetType
    BY <1>a, <1>b, <1>c, <1>10, <2>2, <2>3 DEF Drop, At
  <2>6. row.code = "none" => dbc'.diag \in {s, AppDiag}
    BY <1>c, <1>10, <2>3 DEF Drop, ThreadInv, At
  <2> HIDE DEF row
  <2> QED BY <1>b, <1>c, <2>1, <2>2, <2>6, <2>3, <2>4, <2>5, GoesOn DEF Free
<1> QED BY <1>1, <1>2, <1>3, <1>4, <1>5, <1>6, <1>7, <1>8, <1>9, <1>10

\* The request is sent, under the larger timeout if there is one.
LEMMA PerformInductive ==
  ASSUME CurlInv, NEW s \in Stmts, Perform(s) PROVE CurlInv'
<1>1. th[s].pc = "opts" /\ th[s].pc \notin Free
  BY DEF Perform, At, Free
<1>2. /\ dbc.mux = s /\ th[s] \in ThreadType /\ app[s] \in AppType
      /\ ThreadInv(s) /\ th[s].url \in Urls /\ dbc.apos = 0
  BY <1>1, Holder DEF At
<1>3. /\ DbcTyped(dbc) /\ curl \in CurlType /\ HandleKnown /\ curl.on
      /\ curl.url = th[s].url /\ th \in [Stmts -> ThreadType]
  BY <1>1, <1>2 DEF CurlInv, Typed, ThreadInv, At
<1>4. Tout(s) \in Nat /\ app[s].qt <= Tout(s) /\ app[s].qt \in Nat
  BY <1>2, <1>3 DEF Tout, DbcTyped, AppType
<1>5. /\ curl' = [curl EXCEPT !.tout = IF 0 < Tout(s) THEN Tout(s) ELSE @,
                            !.body = s]
      /\ UNCHANGED <<dbc, app>>
  BY DEF Perform
<1>6. /\ curl' \in CurlType /\ curl'.url = th[s].url /\ curl'.on /\ curl'.body = s
      /\ app[s].qt <= curl'.tout
  <2>1. CASE 0 < Tout(s)
    <3>1. curl' = [curl EXCEPT !.tout = Tout(s), !.body = s]
      BY <1>5, <2>1
    <3> QED BY <1>3, <1>4, <3>1 DEF CurlType
  <2>2. CASE ~(0 < Tout(s))
    <3>1. curl' = [curl EXCEPT !.tout = curl.tout, !.body = s]
      BY <1>5, <2>2
    <3>2. app[s].qt = 0
      BY <1>4, <2>2
    <3>3. /\ curl' \in CurlType /\ curl'.url = curl.url /\ curl'.on = curl.on
          /\ curl'.body = s
      BY <1>3, <3>1 DEF CurlType
    <3>4. 0 <= curl'.tout
      BY <3>3 DEF CurlType
    <3> QED BY <1>3, <3>2, <3>3, <3>4
  <2> QED BY <2>1, <2>2
<1>7. PICK n \in Bodies :
        net' = [of |-> s, url |-> th[s].url, total |-> n, sent |-> 0]
  BY <1>6 DEF Perform
<1>8. /\ net' \in NetType /\ net'.of = s /\ net'.url = th[s].url
      /\ net'.total \in Bodies /\ net'.sent = 0
  BY <1>2, <1>7, SizesAssumption DEF NetType
<1> DEFINE row == [th[s] EXCEPT !.pc = "transfer", !.want = Tout(s)]
<1>9. /\ th' = [th EXCEPT ![s] = row] /\ row \in ThreadType /\ row.pc = "transfer"
      /\ row.url = th[s].url
  BY <1>2, <1>3, <1>4 DEF Perform, ThreadType, Pcs
<1> HIDE DEF row
<1>10. th'[s] = row
  BY <1>3, <1>9
<1>11. HandleKnown'
  BY <1>3, <1>5, <1>6 DEF HandleKnown
<1>12. Transfers(s)'
  BY <1>2, <1>5, <1>6, <1>8, <1>9, <1>10 DEF Transfers
<1> QED BY <1>1, <1>2, <1>3, <1>5, <1>6, <1>8, <1>9, <1>11, <1>12, GoesOn DEF Free

\* libcurl's call-backs, and its return.
LEMMA TransferInductive ==
  ASSUME CurlInv, NEW s \in Stmts,
         \/ Chunk(s) \/ TransferEnds(s) \/ TransferFails(s) \/ LateError(s)
         \/ TimesOut(s) \/ TooLarge(s)
  PROVE  CurlInv'
<1>1. th[s].pc = "transfer" /\ th[s].pc \notin Free
  BY DEF Chunk, TransferEnds, TransferFails, LateError, TimesOut, TooLarge, At, Free
<1>2. /\ dbc.mux = s /\ th[s] \in ThreadType /\ app[s] \in AppType
      /\ ThreadInv(s) /\ th[s].url \in Urls
  BY <1>1, Holder
<1>3. /\ DbcTyped(dbc) /\ curl \in CurlType /\ HandleKnown /\ curl.on
      /\ net \in NetType /\ th \in [Stmts -> ThreadType]
  BY <1>1, <1>2 DEF CurlInv, Typed, ThreadInv
<1>4. Transfers(s)
  BY <1>1, <1>2 DEF ThreadInv, At
<1>5. CASE Chunk(s)
  <2>1. PICK have \in 1..(net.total - net.sent) :
          /\ ~Refuses(dbc.apos + have)
          /\ dbc' = [dbc EXCEPT !.alen = Room(dbc.apos + have), !.apos = @ + have]
          /\ net' = [net EXCEPT !.sent = @ + have]
    BY <1>5 DEF Chunk
  <2>2. UNCHANGED <<curl, th, app>>
    BY <1>5 DEF Chunk
  <2>3. /\ DbcTyped(dbc') /\ dbc'.apos = dbc.apos + have /\ dbc'.mux = s
        /\ dbc'.crr_url = dbc.crr_url
    <3> DEFINE n == dbc.apos + have
    <3>1. have \in Nat /\ n \in Nat
      BY <1>3, <2>1 DEF NetType, DbcTyped
    <3>2. Room(n) \in Nat /\ n <= Room(n) /\ (AMax > 0 => Room(n) <= AMax)
      <4>1. dbc.alen \in Nat /\ (AMax > 0 => dbc.alen <= AMax)
        BY <1>3 DEF DbcTyped
      <4> QED BY <2>1, <3>1, <4>1, RoomFits
    <3> DEFINE room == Room(n)
    <3>3. dbc' = [dbc EXCEPT !.alen = room, !.apos = n]
      BY <1>3, <2>1 DEF DbcTyped
    <3> HIDE DEF n, room
    <3>4. /\ dbc'.mux = dbc.mux /\ dbc'.crr_url = dbc.crr_url
          /\ dbc'.timeout = dbc.timeout /\ dbc'.diag = dbc.diag
          /\ dbc'.alen = room /\ dbc'.apos = n
      BY <1>3, <3>3 DEF DbcTyped
    <3> QED BY <1>2, <1>3, <3>1, <3>2, <3>3, <3>4 DEF DbcTyped, n, room
  <2>4. /\ net' \in NetType /\ net'.sent = net.sent + have /\ net'.of = net.of
        /\ net'.url = net.url /\ net'.total = net.total
    BY <1>3, <2>1 DEF NetType
  <2>5. Transfers(s)'
    BY <1>4, <2>2, <2>3, <2>4 DEF Transfers
  <2>6. HandleKnown'
    BY <1>3, <2>2, <2>3 DEF HandleKnown
  <2>7. th' = [th EXCEPT ![s] = th[s]]
    BY <1>3, <2>2
  <2> QED BY <1>1, <1>2, <1>3, <2>2, <2>3, <2>4, <2>5, <2>6, <2>7, GoesOn DEF Free
<1>6. CASE ~Chunk(s)
  <2>1. PICK pc \in {"check", "drop"}, code \in Codes,
             err \in {"ok", "other", "timeout", "write"}, diag \in {s, dbc.diag} :
          /\ Leaves(s, pc, code, err, diag)
          /\ pc = "check" => net.sent = net.total
          /\ pc = "drop" /\ code = "none" => diag = s
    BY <1>6 DEF TransferEnds, TransferFails, LateError, TimesOut, TooLarge, Codes
  <2>2. /\ Received \in AnswerType /\ Received.of = s /\ Received.url = th[s].url
        /\ Received.size = net.sent
    BY <1>2, <1>3, <1>4 DEF Received, AnswerType, Transfers, NetType, DbcTyped
  <2> DEFINE row == [th[s] EXCEPT !.pc = pc, !.code = code, !.curl_err = err,
                                  !.body = Received]
  <2>3. /\ th' = [th EXCEPT ![s] = row] /\ row \in ThreadType /\ row.pc = pc
        /\ row.url = th[s].url /\ row.code = code /\ row.body = Received
    <3> HIDE DEF Received
    <3> QED BY <1>2, <1>3, <2>1, <2>2 DEF Leaves, ThreadType, Pcs
  <2> HIDE DEF row
  <2>4. /\ dbc' = [dbc EXCEPT !.alen = 0, !.apos = 0, !.diag = diag]
        /\ net' = Quiet /\ UNCHANGED <<curl, app>>
    BY <2>1 DEF Leaves
  <2>5. /\ DbcTyped(dbc') /\ dbc'.apos = 0 /\ dbc'.mux = s
        /\ dbc'.crr_url = dbc.crr_url /\ dbc'.diag = diag
    <3>1. AMax \in Nat
      BY SizesAssumption
    <3>2. /\ dbc'.mux = dbc.mux /\ dbc'.crr_url = dbc.crr_url
          /\ dbc'.timeout = dbc.timeout /\ dbc'.diag = diag
          /\ dbc'.alen = 0 /\ dbc'.apos = 0
      BY <1>3, <2>4 DEF DbcTyped
    <3>3. diag \in Diags
      BY <1>3 DEF DbcTyped, Diags
    <3>4. dbc' = [mux |-> dbc'.mux, crr_url |-> dbc'.crr_url,
                  timeout |-> dbc'.timeout, diag |-> dbc'.diag,
                  alen |-> dbc'.alen, apos |-> dbc'.apos]
      BY <1>3, <2>4 DEF DbcTyped
    <3>5. /\ dbc.mux \in Stmts \cup {NoStmt} /\ dbc.crr_url \in Urls \cup {NoUrl}
          /\ dbc.timeout \in Nat
      BY <1>3 DEF DbcTyped
    <3>6. 0 \in Nat /\ 0 <= 0 /\ (AMax > 0 => 0 <= AMax)
      BY <3>1
    <3> QED BY <1>2, <3>2, <3>3, <3>4, <3>5, <3>6, Zenon DEF DbcTyped
  <2>6. net' \in NetType
    BY <2>4 DEF NetType, Quiet
  <2>7. HandleKnown'
    BY <1>3, <2>4, <2>5 DEF HandleKnown
  <2>8. pc = "check" => row.body.size \in Bodies
    BY <1>4, <2>1, <2>2, <2>3 DEF Transfers
  <2> QED BY <1>1, <1>2, <1>3, <2>1, <2>2, <2>3, <2>4, <2>5, <2>6, <2>7, <2>8, GoesOn
          DEF Free
<1> QED BY <1>5, <1>6

\* curl_post() returns.
LEMMA ReturnInductive ==
  ASSUME CurlInv, NEW s \in Stmts, Err(s) \/ Answer(s) PROVE CurlInv'
<1>1. /\ th \in [Stmts -> ThreadType] /\ app \in [Stmts -> AppType]
      /\ DbcTyped(dbc) /\ ThreadInv(s) /\ HandleKnown /\ Typed
  BY DEF CurlInv, Typed
<1>2. th[s] \in ThreadType /\ app[s] \in AppType
  BY <1>1
<1>3. NoThread \in ThreadType /\ NoThread.pc = "idle"
  BY DEF NoThread, ThreadType, Pcs, Codes, NoAnswer, AnswerType
<1>4. CASE Err(s)
  <2>1. /\ th' = [th EXCEPT ![s] = NoThread]
        /\ app' = [app EXCEPT ![s].rc = "ERROR",
                     ![s].diag = IF th[s].code # "none" THEN s
                                 ELSE IF dbc.diag # NoDiag THEN dbc.diag ELSE @]
        /\ dbc' = [dbc EXCEPT !.mux = NoStmt] /\ UNCHANGED <<curl, net>>
        /\ th[s].pc = "err"
    BY <1>4 DEF Err, At
  <2>2. dbc.apos = 0
    BY <2>1, Holder DEF Free, At
  <2>3. /\ DbcTyped(dbc') /\ dbc'.mux = NoStmt /\ dbc'.apos = 0
        /\ dbc'.crr_url = dbc.crr_url
    BY <1>1, <2>1, <2>2 DEF DbcTyped
  <2>4. s # NoDiag /\ AppDiag # NoDiag
    BY StmtsAssumption DEF NoDiag, AppDiag
  <2>5. /\ app'[s] \in AppType /\ app'[s].rc = "ERROR"
        /\ app'[s].diag = IF th[s].code # "none" THEN s
                          ELSE IF dbc.diag # NoDiag THEN dbc.diag ELSE app[s].diag
    BY <1>1, <1>2, <2>1 DEF AppType, DbcTyped, Diags
  <2>6. app'[s].diag \in {s, AppDiag}
    BY <1>1, <2>1, <2>4, <2>5 DEF ThreadInv
  <2>7. th'[s] = NoThread /\ \A t \in Stmts \ {s} : th'[t] = th[t] /\ app'[t] = app[t]
    BY <1>1, <2>1
  <2>8. Typed'
    BY <1>1, <1>3, <2>1, <2>3, <2>5 DEF Typed
  <2>9. HandleKnown'
    BY <1>1, <2>1, <2>3 DEF HandleKnown
  <2>10. ThreadInv(s)'
    BY <1>3, <2>6, <2>7 DEF ThreadInv, At
  <2>11. th[s].pc \notin Free /\ th'[s].pc \in Free
    BY <1>3, <2>1, <2>7 DEF Free
  <2> QED BY <2>3, <2>7, <2>8, <2>9, <2>10, <2>11, HolderStep
<1>5. CASE Answer(s)
  <2>1. /\ th' = [th EXCEPT ![s] = NoThread] /\ UNCHANGED <<dbc, curl, net>>
        /\ th[s].pc = "answer"
    BY <1>5 DEF Answer, At
  <2>2. PICK a \in AppType :
          app' = [app EXCEPT ![s] = a] /\ (a.rc = "ERROR" => a.diag = s)
    <3>1. CASE app' = [app EXCEPT ![s].rc = "SUCCESS", ![s].answer = th[s].body]
      <4> DEFINE a == [app[s] EXCEPT !.rc = "SUCCESS", !.answer = th[s].body]
      <4>1. a \in AppType /\ a.rc # "ERROR" /\ app' = [app EXCEPT ![s] = a]
        BY <1>1, <1>2, <3>1 DEF AppType, ThreadType
      <4> QED BY <4>1
    <3>2. CASE app' = [app EXCEPT ![s].rc = "ERROR", ![s].diag = s]
      <4> DEFINE a == [app[s] EXCEPT !.rc = "ERROR", !.diag = s]
      <4>1. a \in AppType /\ a.diag = s /\ app' = [app EXCEPT ![s] = a]
        BY <1>1, <1>2, <3>2 DEF AppType, Diags
      <4> QED BY <4>1
    <3> QED BY <1>5, <3>1, <3>2 DEF Answer
  <2>3. th'[s] = NoThread /\ \A t \in Stmts \ {s} : th'[t] = th[t] /\ app'[t] = app[t]
    BY <1>1, <2>1, <2>2
  <2>4. app'[s] = a
    BY <1>1, <2>2
  <2>5. Typed'
    BY <1>1, <1>3, <2>1, <2>2 DEF Typed
  <2>6. ThreadInv(s)'
    BY <1>3, <2>2, <2>3, <2>4 DEF ThreadInv, At
  <2>7. th[s].pc \in Free /\ th'[s].pc \in Free
    BY <1>3, <2>1, <2>3 DEF Free
  <2> QED BY <2>1, <2>3, <2>5, <2>6, <2>7, FreeStep
<1> QED BY <1>4, <1>5

LEMMA CurlInductive == CurlInv /\ [Next]_vars => CurlInv'
<1> SUFFICES ASSUME CurlInv, [Next]_vars PROVE CurlInv'
  OBVIOUS
<1>1. /\ th \in [Stmts -> ThreadType] /\ app \in [Stmts -> AppType]
      /\ DbcTyped(dbc) /\ Typed /\ Mutex /\ HandleKnown /\ BufferEmpty
      /\ \A t \in Stmts : ThreadInv(t)
  BY DEF CurlInv, Typed
<1>2. CASE SetTimeout
  <2>1. UNCHANGED <<curl, th, net, app>>
    BY <1>2 DEF SetTimeout
  <2>2. \/ dbc' = [dbc EXCEPT !.diag = AppDiag]
        \/ \E t \in Nat : dbc' = [dbc EXCEPT !.timeout = t]
    BY <1>2, SizesAssumption DEF SetTimeout
  <2>3. /\ DbcTyped(dbc') /\ dbc'.mux = dbc.mux /\ dbc'.crr_url = dbc.crr_url
        /\ dbc'.apos = dbc.apos /\ dbc'.diag \in {AppDiag, dbc.diag}
    BY <1>1, <2>2 DEF DbcTyped, Diags
  <2>4. Typed' /\ Mutex' /\ HandleKnown' /\ BufferEmpty'
    BY <1>1, <2>1, <2>3 DEF Typed, Mutex, HandleKnown, BufferEmpty, At
  <2>5. ASSUME NEW t \in Stmts PROVE ThreadInv(t)'
    <3>1. ThreadInv(t)
      BY <1>1
    <3> QED BY <2>1, <2>3, <3>1 DEF ThreadInv, Transfers, AnswerTo, At
  <2> QED BY <2>4, <2>5 DEF CurlInv
<1>3. CASE \E s \in Stmts : SetQueryTimeout(s) \/ Call(s) \/ Step(s)
  <2>1. PICK s \in Stmts : SetQueryTimeout(s) \/ Call(s) \/ Step(s)
    BY <1>3
  <2>2. th[s] \in ThreadType /\ app[s] \in AppType /\ ThreadInv(s)
    BY <1>1
  <2>3. CASE SetQueryTimeout(s)
    <3>1. PICK t \in Timeouts : app' = [app EXCEPT ![s].qt = t]
      BY <2>3 DEF SetQueryTimeout
    <3>2. UNCHANGED <<dbc, curl, th, net>> /\ th[s].pc = "idle"
      BY <2>3 DEF SetQueryTimeout, At
    <3>3. /\ app' \in [Stmts -> AppType] /\ app'[s].rc = app[s].rc
          /\ app'[s].diag = app[s].diag
          /\ \A u \in Stmts \ {s} : app'[u] = app[u]
      BY <1>1, <2>2, <3>1, SizesAssumption DEF AppType
    <3>4. Typed'
      BY <1>1, <3>2, <3>3 DEF Typed
    <3>5. ThreadInv(s)'
      BY <2>2, <3>2, <3>3 DEF ThreadInv, At
    <3> QED BY <3>2, <3>3, <3>4, <3>5, FreeStep DEF Free
  <2>4. CASE Call(s)
    <3>1. PICK u \in Urls :
            th' = [th EXCEPT ![s] = [NoThread EXCEPT !.pc = "lock", !.url = u]]
      BY <2>4 DEF Call
    <3>2. UNCHANGED <<dbc, curl, net>> /\ th[s].pc = "idle"
      BY <2>4 DEF Call, At
    <3>3. app' = [app EXCEPT ![s].rc = "none", ![s].diag = NoDiag,
                            ![s].answer = NoAnswer]
      BY <2>4 DEF Call
    <3>4. NoAnswer \in AnswerType
      BY DEF NoAnswer, AnswerType
    <3>5. /\ app' \in [Stmts -> AppType] /\ app'[s].rc = "none"
          /\ \A t \in Stmts \ {s} : app'[t] = app[t]
      BY <1>1, <2>2, <3>3, <3>4 DEF AppType, Diags
    <3>6. /\ th' \in [Stmts -> ThreadType] /\ th'[s].pc = "lock" /\ th'[s].url = u
          /\ \A t \in Stmts \ {s} : th'[t] = th[t]
      BY <1>1, <3>1, <3>4 DEF NoThread, ThreadType, Pcs, Codes
    <3>7. Typed'
      BY <1>1, <3>2, <3>5, <3>6 DEF Typed
    <3>8. ThreadInv(s)'
      BY <3>5, <3>6 DEF ThreadInv, At
    <3> QED BY <3>2, <3>5, <3>6, <3>7, <3>8, FreeStep DEF Free
  <2>5. CASE Lock(s)
    <3>1. /\ th[s].pc = "lock" /\ dbc.mux = NoStmt
          /\ dbc' = [dbc EXCEPT !.mux = s]
          /\ th' = [th EXCEPT ![s].pc = "init"]
          /\ UNCHANGED <<curl, net, app>>
      BY <2>5 DEF Lock, Goes, At
    <3>2. \A t \in Stmts : th[t].pc \in Free
      BY <1>1, <3>1, StmtsAssumption DEF Mutex
    <3>3. /\ th' \in [Stmts -> ThreadType] /\ th'[s].pc = "init"
          /\ th'[s].url = th[s].url
          /\ \A t \in Stmts \ {s} : th'[t] = th[t]
      BY <1>1, <2>2, <3>1 DEF ThreadType, Pcs
    <3>4. /\ DbcTyped(dbc') /\ dbc'.mux = s /\ dbc'.crr_url = dbc.crr_url
          /\ dbc'.apos = dbc.apos
      BY <1>1, <3>1 DEF DbcTyped
    <3>5. dbc.apos = 0
      BY <1>1, <3>2 DEF BufferEmpty, At, Free
    <3>6. Typed'
      BY <1>1, <3>1, <3>3, <3>4 DEF Typed
    <3>7. Mutex'
      BY <3>2, <3>3, <3>4 DEF Mutex, Free
    <3>8. HandleKnown' /\ BufferEmpty'
      BY <1>1, <3>1, <3>4, <3>5 DEF HandleKnown, BufferEmpty
    <3>9. ThreadInv(s)'
      BY <2>2, <3>1, <3>3 DEF ThreadInv, At
    <3>10. ASSUME NEW t \in Stmts \ {s} PROVE ThreadInv(t)'
      BY <1>1, <3>1, <3>2, <3>3, FreeThread
    <3> QED BY <3>6, <3>7, <3>8, <3>9, <3>10 DEF CurlInv
  <2>6. CASE \/ InitHandle(s) \/ InitHandleFails(s) \/ SetUrl(s) \/ SetUrlFails(s)
             \/ PerformFails(s) \/ CheckUnsupported(s) \/ CheckEmpty(s)
             \/ CheckHttpError(s) \/ CheckOk(s) \/ Drop(s)
    <3>1. th[s].pc \notin Free
      BY <2>6 DEF InitHandle, InitHandleFails, SetUrl, SetUrlFails, PerformFails,
         CheckUnsupported, CheckEmpty, CheckHttpError, CheckOk, Drop, At, Free
    <3> QED BY <2>6, <3>1, HolderInductive
  <2>7. CASE Perform(s)
    BY <2>7, PerformInductive
  <2>8. CASE \/ Chunk(s) \/ TransferEnds(s) \/ TransferFails(s) \/ LateError(s)
             \/ TimesOut(s) \/ TooLarge(s)
    BY <2>8, TransferInductive
  <2>9. CASE Err(s) \/ Answer(s)
    BY <2>9, ReturnInductive
  <2> QED BY <2>1, <2>3, <2>4, <2>5, <2>6, <2>7, <2>8, <2>9 DEF Step
<1>4. CASE UNCHANGED vars
  <2>1. UNCHANGED <<dbc, curl, th, net, app>>
    BY <1>4 DEF vars
  <2>2. Typed' /\ Mutex' /\ HandleKnown' /\ BufferEmpty'
    BY <1>1, <2>1 DEF Typed, Mutex, HandleKnown, BufferEmpty, At
  <2>3. ASSUME NEW t \in Stmts PROVE ThreadInv(t)'
    BY <1>1, <2>1 DEF ThreadInv, Transfers, AnswerTo, At
  <2> QED BY <2>2, <2>3 DEF CurlInv
<1> QED BY <1>2, <1>3, <1>4 DEF Next

LEMMA CurlInitial == Init => CurlInv
<1> SUFFICES ASSUME Init PROVE CurlInv
  OBVIOUS
<1>1. NoAnswer \in AnswerType
  BY DEF NoAnswer, AnswerType
<1>2. NoThread \in ThreadType /\ NoThread.pc = "idle"
  BY <1>1 DEF NoThread, ThreadType, Pcs, Codes
<1>3. NoHandle \in CurlType /\ NoHandle.url = NoUrl /\ Quiet \in NetType
  BY DEF NoHandle, CurlType, Quiet, NetType
<1>4. DbcTyped(dbc) /\ dbc.mux = NoStmt /\ dbc.apos = 0 /\ dbc.crr_url = NoUrl
  BY SizesAssumption DEF Init, DbcTyped, Diags
<1>5. /\ th \in [Stmts -> ThreadType] /\ app \in [Stmts -> AppType]
      /\ \A s \in Stmts : th[s].pc = "idle" /\ app[s].rc = "none"
  BY <1>1, <1>2 DEF Init, AppType, Diags
<1>6. curl = NoHandle /\ net = Quiet
  BY DEF Init
<1>7. Typed
  BY <1>3, <1>4, <1>5, <1>6 DEF Typed
<1>8. Mutex /\ HandleKnown /\ BufferEmpty
  BY <1>3, <1>4, <1>5, <1>6, StmtsAssumption
  DEF Mutex, HandleKnown, BufferEmpty, Free
<1>9. \A s \in Stmts : ThreadInv(s)
  BY <1>5 DEF ThreadInv, At
<1> QED BY <1>7, <1>8, <1>9 DEF CurlInv

-----------------------------------------------------------------------------
(* What follows.                                                           *)

\* The handle's mutex, its URL and its buffer are in agreement at every step of
\* curl_post() (connect.c:895), whoever shares them.
THEOREM HandleInOrder == Spec => []CurlInv
BY CurlInitial, CurlInductive, PTL DEF Spec

\* Every member keeps its type, whoever writes it, and the mutex is locked just
\* by the thread that is between its lock and its release (connect.c:895).
THEOREM CurlTypeCorrect == Spec => []TypeOK
<1>1. CurlInv => TypeOK
  <2> SUFFICES ASSUME CurlInv PROVE TypeOK
    OBVIOUS
  <2>1. dbc \in [mux : Stmts \cup {NoStmt}, crr_url : Urls \cup {NoUrl},
                 timeout : Nat, diag : Diags, alen : Nat, apos : Nat]
    BY DEF CurlInv, Typed, DbcTyped
  <2>2. \A s \in Stmts : dbc.mux = s <=> th[s].pc \notin {"idle", "lock", "answer"}
    BY DEF CurlInv, Mutex, Free
  <2> QED BY <2>1, <2>2
          DEF CurlInv, Typed, CurlType, ThreadType, Codes, NetType, AppType, TypeOK
<1> QED BY HandleInOrder, <1>1, PTL

\* During a transfer the buffer has room for what the server sent, within the
\* limit, and holds all of it (write_callback(), connect.c:269).
THEOREM AnswerInBuffer == Spec => []BufferHoldsAnswer
<1>1. CurlInv => BufferHoldsAnswer
  BY DEF CurlInv, Typed, DbcTyped, ThreadInv, Transfers, BufferHoldsAnswer
<1> QED BY HandleInOrder, <1>1, PTL

\* Whatever timeout is in force for a statement's request, it is no shorter than
\* the statement's own, and so there is one if the statement has one
\* (connect.c:773).  A longer one, left by another request, may be in force.
THEOREM TimeoutInForce == Spec => []QueryTimeoutInForce
<1>1. CurlInv => QueryTimeoutInForce
  BY DEF CurlInv, ThreadInv, Transfers, QueryTimeoutInForce
<1> QED BY HandleInOrder, <1>1, PTL

\* A statement's diagnostic is its own, or one of a call on the connection
\* (connect.c:944).
THEOREM OwnDiagnostics == Spec => []DiagNotOfOthers
<1>1. CurlInv => DiagNotOfOthers
  BY DEF CurlInv, ThreadInv, DiagNotOfOthers
<1> QED BY HandleInOrder, <1>1, PTL

\* When a failed call gives the mutex back its handle is gone, and is known to
\* be (cleanup_curl(), connect.c:541).
THEOREM FailedDropped == Spec => FailedHandleDropped
<1> DEFINE Dropped ==
      \A s \in Stmts : At(s, "err") /\ th'[s].pc = "idle" =>
        curl' = NoHandle /\ dbc'.crr_url = NoUrl
<1>1. CurlInv /\ [Next]_vars => [Dropped]_vars
  <2> SUFFICES ASSUME CurlInv, Next, NEW s \in Stmts, At(s, "err")
               PROVE  curl' = NoHandle /\ dbc'.crr_url = NoUrl
    BY DEF vars
  <2>1. /\ curl = NoHandle /\ dbc.crr_url = NoUrl /\ dbc.mux = s /\ s # NoStmt
        /\ DbcTyped(dbc) /\ \A t \in Stmts \ {s} : th[t].pc \in Free
    BY StmtsAssumption
    DEF CurlInv, Typed, ThreadInv, HandleKnown, NoHandle, Mutex, At, Free
  <2>2. CASE SetTimeout
    BY <2>1, <2>2 DEF SetTimeout, DbcTyped
  <2>3. CASE \E t \in Stmts : SetQueryTimeout(t) \/ Call(t)
    BY <2>1, <2>3 DEF SetQueryTimeout, Call
  <2>4. ASSUME NEW t \in Stmts, t # s, Step(t)
        PROVE  curl' = NoHandle /\ dbc'.crr_url = NoUrl
    <3>1. Answer(t)
      BY <2>1, <2>4
      DEF Step, Lock, InitHandle, InitHandleFails, SetUrl, SetUrlFails, Perform,
          PerformFails, Chunk, TransferEnds, TransferFails, LateError, TimesOut,
          TooLarge, CheckOk, CheckUnsupported, CheckEmpty, CheckHttpError, Drop,
          Err, At, Free
    <3> QED BY <2>1, <3>1 DEF Answer
  <2>5. CASE Step(s)
    <3>1. Err(s)
      BY <2>5
      DEF Step, Lock, InitHandle, InitHandleFails, SetUrl, SetUrlFails, Perform,
          PerformFails, Chunk, TransferEnds, TransferFails, LateError, TimesOut,
          TooLarge, CheckOk, CheckUnsupported, CheckEmpty, CheckHttpError, Drop,
          Answer, At
    <3>2. dbc' = [dbc EXCEPT !.mux = NoStmt] /\ curl' = curl
      BY <3>1 DEF Err
    <3> QED BY <2>1, <3>2 DEF DbcTyped
  <2> QED BY <2>2, <2>3, <2>4, <2>5 DEF Next
<1>2. []CurlInv /\ [][Next]_vars => [][Dropped]_vars
  BY <1>1, PTL
<1>3. Spec => []CurlInv /\ [][Next]_vars
  BY HandleInOrder, PTL DEF Spec
<1> QED BY <1>2, <1>3, PTL DEF FailedHandleDropped

-----------------------------------------------------------------------------
(* The promise of Transport.                                               *)

Same(t) ==
  Asked(t)' = Asked(t) /\ Served(t)' = Served(t) /\ app'[t].answer = app[t].answer

\* A thread's step leaves what the others asked, are served and have got.
LEMMA OthersSame ==
  ASSUME CurlInv, NEW s \in Stmts, th[s].pc \notin Free \/ UNCHANGED net,
         \A t \in Stmts \ {s} : th'[t] = th[t] /\ app'[t] = app[t]
  PROVE  \A t \in Stmts \ {s} : Same(t)
<1> TAKE t \in Stmts \ {s}
<1>1. At(t, "transfer") => UNCHANGED net
  BY DEF CurlInv, Mutex, At, Free
<1> QED BY <1>1 DEF Same, Asked, Served, At

LEMMA AllSame ==
  ASSUME \A t \in Stmts : Same(t)
  PROVE  UNCHANGED Promised!vars
<1>1. [t \in Stmts |-> Asked(t)]' = [t \in Stmts |-> Asked(t)]
  BY DEF Same
<1>2. [t \in Stmts |-> Served(t)]' = [t \in Stmts |-> Served(t)]
  BY DEF Same
<1>3. [t \in Stmts |-> app[t].answer]' = [t \in Stmts |-> app[t].answer]
  BY DEF Same
<1> QED BY <1>1, <1>2, <1>3 DEF Promised!vars

LEMMA FailsMapped ==
  ASSUME NEW s \in Stmts, \A t \in Stmts \ {s} : Same(t),
         Asked(s) # NoUrl, Asked(s)' = NoUrl, Served(s)' = NoAnswer,
         app'[s].answer = app[s].answer
  PROVE  Promised!Failed(s)
<1>1. [t \in Stmts |-> Asked(t)]' = [[t \in Stmts |-> Asked(t)] EXCEPT ![s] = NoUrl]
  <2>1. \A t \in Stmts : Asked(t)' = IF t = s THEN NoUrl ELSE Asked(t)
    BY DEF Same
  <2> QED BY <2>1
<1>2. [t \in Stmts |-> Served(t)]'
        = [[t \in Stmts |-> Served(t)] EXCEPT ![s] = NoAnswer]
  BY DEF Same
<1>3. [t \in Stmts |-> app[t].answer]' = [t \in Stmts |-> app[t].answer]
  BY DEF Same
<1> QED BY <1>1, <1>2, <1>3 DEF Promised!Failed

LEMMA AskMapped ==
  ASSUME NEW s \in Stmts, \A t \in Stmts \ {s} : Same(t), NEW u \in Urls,
         Asked(s) = NoUrl, Asked(s)' = u, Served(s)' = Served(s),
         app'[s].answer = NoAnswer
  PROVE  Promised!Ask(s)
<1>1. [t \in Stmts |-> Asked(t)]' = [[t \in Stmts |-> Asked(t)] EXCEPT ![s] = u]
  BY DEF Same
<1>2. [t \in Stmts |-> Served(t)]' = [t \in Stmts |-> Served(t)]
  BY DEF Same
<1>3. [t \in Stmts |-> app[t].answer]'
        = [[t \in Stmts |-> app[t].answer] EXCEPT ![s] = NoAnswer]
  BY DEF Same
<1> QED BY <1>1, <1>2, <1>3 DEF Promised!Ask

LEMMA ServeMapped ==
  ASSUME NEW s \in Stmts, \A t \in Stmts \ {s} : Same(t), NEW size \in Bodies,
         Asked(s) \in Urls, Asked(s)' = Asked(s), Served(s) = NoAnswer,
         Served(s)' = [of |-> s, url |-> Asked(s), size |-> size],
         app'[s].answer = app[s].answer
  PROVE  Promised!Serve(s)
<1> DEFINE a == [of |-> s, url |-> Asked(s), size |-> size]
<1>1. [t \in Stmts |-> Asked(t)]' = [t \in Stmts |-> Asked(t)]
  BY DEF Same
<1>2. [t \in Stmts |-> Served(t)]' = [[t \in Stmts |-> Served(t)] EXCEPT ![s] = a]
  BY DEF Same
<1>3. [t \in Stmts |-> app[t].answer]' = [t \in Stmts |-> app[t].answer]
  BY DEF Same
<1>4. a \in Promised!Answers /\ a.of = s /\ a.url = Asked(s)
  BY DEF Promised!Answers
<1>5. Asked(s) # NoUrl
  BY DEF Urls, NoUrl
<1> HIDE DEF a
<1> QED BY <1>1, <1>2, <1>3, <1>4, <1>5 DEF Promised!Serve

LEMMA AnsweredMapped ==
  ASSUME NEW s \in Stmts, \A t \in Stmts \ {s} : Same(t),
         Asked(s)' = NoUrl, Served(s) # NoAnswer, Served(s)' = NoAnswer,
         app'[s].answer = Served(s)
  PROVE  Promised!Answered(s)
<1>1. [t \in Stmts |-> Asked(t)]' = [[t \in Stmts |-> Asked(t)] EXCEPT ![s] = NoUrl]
  BY DEF Same
<1>2. [t \in Stmts |-> Served(t)]'
        = [[t \in Stmts |-> Served(t)] EXCEPT ![s] = NoAnswer]
  BY DEF Same
<1>3. [t \in Stmts |-> app[t].answer]'
        = [[t \in Stmts |-> app[t].answer] EXCEPT ![s] = Served(s)]
  BY DEF Same
<1> QED BY <1>1, <1>2, <1>3 DEF Promised!Answered

LEMMA StepMapped ==
  ASSUME CurlInv, NEW s \in Stmts, SetQueryTimeout(s) \/ Call(s) \/ Step(s)
  PROVE  [Promised!Next]_Promised!vars
<1>1. /\ th \in [Stmts -> ThreadType] /\ app \in [Stmts -> AppType]
      /\ DbcTyped(dbc) /\ net \in NetType /\ ThreadInv(s)
      /\ th[s] \in ThreadType /\ app[s] \in AppType
  BY DEF CurlInv, Typed
<1>2. ASSUME Promised!Ask(s) \/ Promised!Serve(s) \/ Promised!Answered(s)
                 \/ Promised!Failed(s)
      PROVE  Promised!Next
  BY <1>2 DEF Promised!Next
<1>3. NoThread.pc = "idle" /\ NoThread.url = NoUrl
  BY DEF NoThread
<1>4. NoUrl \notin Urls
  BY DEF NoUrl, Urls
<1>5. CASE SetQueryTimeout(s)
  <2>1. PICK t \in Timeouts : app' = [app EXCEPT ![s].qt = t]
    BY <1>5 DEF SetQueryTimeout
  <2>2. UNCHANGED <<net, th>>
    BY <1>5 DEF SetQueryTimeout
  <2>3. \A t2 \in Stmts : app'[t2].answer = app[t2].answer
    BY <1>1, <2>1 DEF AppType
  <2>4. \A t2 \in Stmts : Same(t2)
    BY <2>2, <2>3 DEF Same, Asked, Served, At
  <2> QED BY <2>4, AllSame
<1>6. CASE Call(s)
  <2>1. PICK u \in Urls :
          th' = [th EXCEPT ![s] = [NoThread EXCEPT !.pc = "lock", !.url = u]]
    BY <1>6 DEF Call
  <2>2. UNCHANGED net /\ th[s].pc = "idle"
        /\ app' = [app EXCEPT ![s].rc = "none", ![s].diag = NoDiag,
                             ![s].answer = NoAnswer]
    BY <1>6 DEF Call, At
  <2>3. /\ th'[s].pc = "lock" /\ th'[s].url = u
        /\ app'[s].answer = NoAnswer
        /\ \A t \in Stmts \ {s} : th'[t] = th[t] /\ app'[t] = app[t]
    BY <1>1, <2>1, <2>2 DEF NoThread, AppType
  <2>4. \A t \in Stmts \ {s} : Same(t)
    BY <2>2, <2>3, OthersSame
  <2>5. Asked(s) = NoUrl /\ Asked(s)' = u /\ Served(s)' = Served(s)
    BY <2>2, <2>3 DEF Asked, Served, At
  <2> QED BY <1>2, <2>3, <2>4, <2>5, AskMapped
<1>7. CASE Answer(s)
  <2>1. /\ th' = [th EXCEPT ![s] = NoThread] /\ UNCHANGED net
        /\ th[s].pc = "answer"
    BY <1>7 DEF Answer, At
  <2>2. \/ app' = [app EXCEPT ![s].rc = "SUCCESS", ![s].answer = th[s].body]
        \/ app' = [app EXCEPT ![s].rc = "ERROR", ![s].diag = s]
    BY <1>7 DEF Answer
  <2>3. /\ th'[s] = NoThread /\ app'[s].answer \in {th[s].body, app[s].answer}
        /\ \A t \in Stmts \ {s} : th'[t] = th[t] /\ app'[t] = app[t]
    BY <1>1, <2>1, <2>2 DEF AppType
  <2>4. \A t \in Stmts \ {s} : Same(t)
    BY <2>1, <2>3, OthersSame
  <2>5. /\ Asked(s) \in Urls /\ Asked(s)' = NoUrl /\ Served(s) = th[s].body
        /\ Served(s)' = NoAnswer
    BY <1>1, <1>3, <2>1, <2>3 DEF Asked, Served, At, ThreadInv
  <2>6. th[s].body # NoAnswer
    BY <1>1, <2>1, StmtsAssumption DEF ThreadInv, AnswerTo, NoAnswer
  <2>7. CASE app'[s].answer = th[s].body
    BY <1>2, <2>4, <2>5, <2>6, <2>7, AnsweredMapped
  <2>8. CASE app'[s].answer = app[s].answer
    BY <1>2, <1>4, <2>4, <2>5, <2>8, FailsMapped
  <2> QED BY <2>3, <2>7, <2>8
<1>8. CASE Perform(s)
  <2>1. /\ th' = [th EXCEPT ![s].pc = "transfer", ![s].want = Tout(s)]
        /\ curl' = [curl EXCEPT !.tout = IF 0 < Tout(s) THEN Tout(s) ELSE @,
                              !.body = s]
        /\ UNCHANGED app /\ th[s].pc = "opts"
    BY <1>8 DEF Perform, At
  <2>2. curl.url = th[s].url /\ th[s].url \in Urls /\ curl \in CurlType
    BY <1>1, <2>1 DEF ThreadInv, At, CurlInv, Typed
  <2>3. curl'.body = s /\ curl'.url = th[s].url
    BY <2>1, <2>2 DEF CurlType
  <2>4. PICK n \in Bodies :
          net' = [of |-> s, url |-> th[s].url, total |-> n, sent |-> 0]
    BY <1>8, <2>3 DEF Perform
  <2>5. /\ th'[s].pc = "transfer" /\ th'[s].url = th[s].url
        /\ \A t \in Stmts \ {s} : th'[t] = th[t] /\ app'[t] = app[t]
    BY <1>1, <2>1 DEF ThreadType
  <2>6. \A t \in Stmts \ {s} : Same(t)
    BY <2>1, <2>5, OthersSame DEF Free
  <2>7. /\ Asked(s) = th[s].url /\ Asked(s)' = th[s].url /\ Served(s) = NoAnswer
        /\ Served(s)' = [of |-> s, url |-> th[s].url, size |-> n]
    BY <2>1, <2>4, <2>5 DEF Asked, Served, At
  <2> QED BY <1>2, <2>1, <2>2, <2>6, <2>7, ServeMapped
<1>9. CASE Chunk(s) \/ TransferEnds(s) \/ Err(s) \/ Drop(s) \/ Lock(s)
           \/ InitHandle(s) \/ SetUrl(s) \/ CheckOk(s)
  <2>1. \A t \in Stmts \ {s} : th'[t] = th[t] /\ app'[t] = app[t]
    <3>1. CASE Err(s)
      BY <1>1, <3>1 DEF Err, AppType
    <3>2. CASE Chunk(s)
      BY <3>2 DEF Chunk
    <3>3. CASE TransferEnds(s)
      BY <1>1, <3>3 DEF TransferEnds, Leaves
    <3>4. CASE Drop(s) \/ Lock(s) \/ InitHandle(s) \/ SetUrl(s) \/ CheckOk(s)
      BY <1>1, <3>4 DEF Drop, Lock, InitHandle, SetUrl, CheckOk, Goes
    <3> QED BY <1>9, <3>1, <3>2, <3>3, <3>4
  <2>2. th[s].pc \notin Free \/ UNCHANGED net
    BY <1>9
    DEF Chunk, TransferEnds, Err, Drop, Lock, InitHandle, SetUrl, CheckOk, Free, At
  <2>3. app'[s].answer = app[s].answer
    <3>1. CASE Err(s)
      BY <1>1, <3>1 DEF Err, AppType
    <3>2. CASE ~Err(s)
      BY <1>9, <3>2
      DEF Chunk, TransferEnds, Leaves, Drop, Lock, InitHandle, SetUrl, CheckOk
    <3> QED BY <3>1, <3>2
  <2>4. Asked(s)' = Asked(s) /\ Served(s)' = Served(s)
    <3>1. CASE Chunk(s)
      <4>1. /\ UNCHANGED th /\ th[s].pc = "transfer"
            /\ \E have \in Nat : net' = [net EXCEPT !.sent = @ + have]
        BY <1>1, <3>1 DEF Chunk, At, NetType
      <4>2. net'.of = net.of /\ net'.url = net.url /\ net'.total = net.total
        BY <1>1, <4>1 DEF NetType
      <4> QED BY <4>1, <4>2 DEF Asked, Served, At
    <3>2. CASE TransferEnds(s)
      <4>1. PICK code \in {"200", "other"} : Leaves(s, "check", code, "ok", dbc.diag)
        BY <3>2 DEF TransferEnds
      <4>2. th[s].pc = "transfer" /\ net.sent = net.total
        BY <3>2 DEF TransferEnds, At
      <4>3. dbc.apos = net.total
        BY <1>1, <4>2 DEF ThreadInv, At, Transfers
      <4>4. Received = [of |-> net.of, url |-> net.url, size |-> net.total]
        BY <4>3 DEF Received
      <4>5. /\ th'[s].pc = "check" /\ th'[s].url = th[s].url
            /\ th'[s].body = Received
        <5> HIDE DEF Received
        <5> QED BY <1>1, <4>1 DEF Leaves, ThreadType
      <4> HIDE DEF Received
      <4> QED BY <4>2, <4>4, <4>5 DEF Asked, Served, At
    <3>3. CASE Err(s)
      BY <1>1, <1>3, <3>3 DEF Err, Asked, Served, At
    <3>4. CASE Drop(s)
      BY <1>1, <3>4 DEF Drop, Goes, Asked, Served, At, ThreadType
    <3>5. CASE Lock(s)
      BY <1>1, <3>5 DEF Lock, Goes, Asked, Served, At, ThreadType
    <3>6. CASE InitHandle(s)
      BY <1>1, <3>6 DEF InitHandle, Goes, Asked, Served, At, ThreadType
    <3>7. CASE SetUrl(s)
      BY <1>1, <3>7 DEF SetUrl, Goes, Asked, Served, At, ThreadType
    <3>8. CASE CheckOk(s)
      BY <1>1, <3>8 DEF CheckOk, Goes, Asked, Served, At, ThreadType
    <3> QED BY <1>9, <3>1, <3>2, <3>3, <3>4, <3>5, <3>6, <3>7, <3>8
  <2>5. \A t \in Stmts : Same(t)
    BY <2>1, <2>2, <2>3, <2>4, OthersSame DEF Same
  <2> QED BY <2>5, AllSame
<1>10. CASE InitHandleFails(s) \/ SetUrlFails(s) \/ PerformFails(s)
            \/ TransferFails(s) \/ LateError(s) \/ TimesOut(s) \/ TooLarge(s)
            \/ CheckUnsupported(s) \/ CheckEmpty(s) \/ CheckHttpError(s)
  <2>1. UNCHANGED app
    BY <1>10
    DEF InitHandleFails, SetUrlFails, PerformFails, TransferFails, LateError, TimesOut,
        TooLarge, Leaves, CheckUnsupported, CheckEmpty, CheckHttpError
  <2>2. th[s].pc \in {"init", "url", "opts", "transfer", "check"}
    BY <1>10
    DEF InitHandleFails, SetUrlFails, PerformFails, TransferFails, LateError, TimesOut,
        TooLarge, CheckUnsupported, CheckEmpty, CheckHttpError, At
  <2>3. /\ th'[s].pc \in {"drop", "err"}
        /\ \A t \in Stmts \ {s} : th'[t] = th[t]
    BY <1>1, <1>10
    DEF InitHandleFails, SetUrlFails, PerformFails, TransferFails, LateError, TimesOut,
        TooLarge, Leaves, CheckUnsupported, CheckEmpty, CheckHttpError, Goes, ThreadType
  <2>4. \A t \in Stmts \ {s} : Same(t)
    BY <2>1, <2>2, <2>3, OthersSame DEF Free
  <2>5. Asked(s) \in Urls /\ Asked(s)' = NoUrl /\ Served(s)' = NoAnswer
    BY <1>1, <2>2, <2>3 DEF Asked, Served, At, ThreadInv
  <2> QED BY <1>2, <1>4, <2>1, <2>4, <2>5, FailsMapped
<1> QED BY <1>5, <1>6, <1>7, <1>8, <1>9, <1>10 DEF Step

\* curl_post() keeps the promise of Transport: the whole answer to a statement's
\* own request, or an error (connect.c:895).
THEOREM TransportKept == Spec => ImplementsTransport
<1>1. Init => Promised!Init
  <2> SUFFICES ASSUME Init PROVE Promised!Init
    OBVIOUS
  <2>1. \A s \in Stmts : Asked(s) = NoUrl /\ Served(s) = NoAnswer
                         /\ app[s].answer = NoAnswer
    BY DEF Init, Asked, Served, At, NoThread
  <2> QED BY <2>1 DEF Promised!Init
<1>2. CurlInv /\ [Next]_vars => [Promised!Next]_Promised!vars
  <2> SUFFICES ASSUME CurlInv, [Next]_vars PROVE [Promised!Next]_Promised!vars
    OBVIOUS
  <2>1. CASE SetTimeout \/ UNCHANGED vars
    <3>1. UNCHANGED <<th, net, app>>
      BY <2>1 DEF SetTimeout, vars
    <3>2. \A t \in Stmts : Same(t)
      BY <3>1 DEF Same, Asked, Served, At
    <3> QED BY <3>2, AllSame
  <2>2. CASE \E s \in Stmts : SetQueryTimeout(s) \/ Call(s) \/ Step(s)
    BY <2>2, StepMapped
  <2> QED BY <2>1, <2>2 DEF Next
<1> QED BY <1>1, <1>2, HandleInOrder, PTL DEF Spec, ImplementsTransport, Promised!Spec

=============================================================================
